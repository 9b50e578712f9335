---------------------------- MODULE YencDecoder ----------------------------
(***************************************************************************)
(* YencDecoder: the lines of an article body become the segment that is    *)
(* written at offset begin - 1.  The decoded bytes are abstracted to their *)
(* number and to whether they are those the poster encoded.                *)
(***************************************************************************)
EXTENDS Integers

CONSTANTS
    OffsetBits,          \* of u64 in bits
    MaxField,       \* bound: largest begin, end and size in a header
    MaxDecoded,     \* bound: bytes in a body
    NoField         \* a field that a header lacks

(* A field of a header fits its type.                                      *)
ASSUME YencAssumption ==
    /\ MaxField \in Nat /\ MaxDecoded \in Nat /\ NoField \notin 0..MaxField
    /\ 2 ^ OffsetBits \in Nat /\ MaxField < 2 ^ OffsetBits

Fields == 0..MaxField
Optional == Fields \union {NoField}

VARIABLES
    decoder,        \* [state, part, begin, end, len, intact]
    segment         \* what decode_line returned last

yencVars == <<decoder, segment>>

YencInit ==
    /\ decoder = [state |-> "WaitingForHeader", begin |-> NoField, end |-> NoField,
                  len |-> 0, intact |-> TRUE]
    /\ segment = [result |-> "none", begin |-> 0, len |-> 0, crc |-> FALSE]

Wrapped(n) == n % (2 ^ OffsetBits)

(* fetch_and_decode stops at the first error.                              *)
Fails ==
    /\ segment' = [segment EXCEPT !.result = "error"]
    /\ decoder' = [decoder EXCEPT !.state = "Failed"]

In(state) == decoder.state = state

parse_ybegin ==
    /\ In("WaitingForHeader")
    /\ \/ Fails
       \/ \E state \in {"WaitingForPart", "DecodingBody"} :
             decoder' = [decoder EXCEPT !.state = state] /\ UNCHANGED segment

parse_ypart ==
    /\ In("WaitingForPart")
    /\ \/ Fails
       \/ /\ \E b, e \in Fields : decoder' =
                [decoder EXCEPT !.state = "DecodingBody", !.begin = b, !.end = e]
          /\ UNCHANGED segment

(* Mutant of TooLong: the range is taken to exclude its end.               *)
TooLongByOne(d) == d.end # NoField /\ d.len > Wrapped(d.end - d.begin + 2)

(* In a release build the difference wraps.                                *)
TooLong(d) == d.end # NoField /\ d.len > Wrapped(d.end - d.begin + 1)

decode_body ==
    /\ In("DecodingBody") /\ decoder.len < MaxDecoded
    /\ \E n \in 1..2, good \in BOOLEAN :
          LET d == [decoder EXCEPT !.len = @ + n, !.intact = @ /\ good]
          IN IF TooLong(d) THEN Fails ELSE decoder' = d /\ UNCHANGED segment

(* parse_yend and finalize_segment; the CRC finds every change.            *)
parse_yend ==
    /\ In("DecodingBody")
    /\ \E size \in Optional, crc \in BOOLEAN :
         IF \/ size # NoField /\ size # decoder.len
            \/ decoder.len = 0
            \/ crc /\ ~decoder.intact
         THEN Fails
         ELSE /\ decoder' = [decoder EXCEPT !.state = "Finished"]
              /\ segment' = [result |-> "segment",
                             begin |-> IF decoder.begin = NoField THEN 1 ELSE decoder.begin,
                             len |-> decoder.len, crc |-> crc]

YencNext == parse_ybegin \/ parse_ypart \/ decode_body \/ parse_yend

-----------------------------------------------------------------------------
Decoded == segment.result = "segment"
WriteOffset == IF segment.begin = 0 THEN 0 ELSE segment.begin - 1

(* A part with a sensible range writes within it, so that it cannot        *)
(* overwrite its neighbours, and data with a checksum are intact.          *)
YencStaysInPart ==
    Decoded =>
       /\ decoder.end # NoField /\ 1 <= decoder.begin /\ decoder.begin <= decoder.end
             => WriteOffset + segment.len <= decoder.end
       /\ segment.crc => decoder.intact
=============================================================================
