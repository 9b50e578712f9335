----------------------------- MODULE NzbParser -----------------------------
(***************************************************************************)
(* bergamot-nzb: the parser as a state machine over XML events.  The       *)
(* environment writes a document whose tags match, event by event, with    *)
(* any element anywhere, and may stop anywhere.  A name is a sequence: a   *)
(* subject's file name, with the suffixes that make it unique.             *)
(***************************************************************************)
EXTENDS Naturals, SequencesExt, Selection

CONSTANTS
    Subjects,       \* what extract_filename finds in subjects: names or NoName
    ParOf,          \* [Subjects -> ParStatus], classify_par
    Numbers,        \* segment numbers
    NoFile, Bad,
    MaxWeight        \* bound on the document, see Weight

NoName == <<>>      \* no name, or an empty one

ASSUME NzbAssumption ==
    /\ \A s \in Subjects : IsList(s)
    /\ Numbers \subseteq Nat

VARIABLES
    parser,         \* [state, number, meta, files, current_file, text, saw_nzb]
    verdict,        \* "Parsing", "Ok" or the error
    nzb_files,      \* NzbInfo.files
    open_tags, spoken,   \* open elements, outermost first; a text came last
    made, weight,    \* what is written: by tag; weighed, see Weight
    plain,          \* ghost: every element so far stands where the format has it
    written         \* ghost: the files of the plain part, the open one last

nzbVars == <<parser, verdict, nzb_files, open_tags, spoken, made, weight, plain, written>>

Tags == {"nzb", "head", "meta", "file", "groups", "group", "segments", "segment", "other"}

new == [state |-> "Initial", number |-> 0, meta |-> <<>>, files |-> <<>>,
        current_file |-> NoFile, text |-> <<>>, saw_nzb |-> FALSE]

NzbInit ==
    /\ parser = new /\ verdict = "Parsing" /\ nzb_files = <<>>
    /\ open_tags = <<>> /\ spoken = FALSE /\ made = [tag \in Tags |-> 0] /\ weight = 0
    /\ plain = TRUE /\ written = <<>>
-----------------------------------------------------------------------------
(* The parser.                                                             *)
Enters(state, tag) ==
    CASE state = "Initial" /\ tag = "nzb" -> "InNzb"
      [] state = "InNzb" /\ tag = "head" -> "InHead"
      [] state = "InHead" /\ tag = "meta" -> "InMeta"
      [] state = "InNzb" /\ tag = "file" -> "InFile"
      [] state = "InFile" /\ tag = "groups" -> "InGroups"
      [] state = "InGroups" /\ tag = "group" -> "InGroup"
      [] state = "InFile" /\ tag = "segments" -> "InSegments"
      [] state = "InSegments" /\ tag = "segment" -> "InSegment"
      [] OTHER -> state

(* Mutant: the text before the element is not dropped.                     *)
handle_start_keeps(p, tag, attr) ==
    [p EXCEPT !.state = Enters(p.state, tag), !.saw_nzb = @ \/ tag = "nzb",
        !.number = IF p.state = "InSegments" /\ tag = "segment" THEN attr ELSE @,
        !.current_file = IF p.state = "InNzb" /\ tag = "file"
                         THEN [subject |-> attr, groups |-> <<>>, segments |-> <<>>] ELSE @]

handle_start(p, tag, attr) ==
    [p EXCEPT !.state = Enters(p.state, tag), !.saw_nzb = @ \/ tag = "nzb",
        !.text = <<>>,
        !.number = IF p.state = "InSegments" /\ tag = "segment" THEN attr ELSE @,
        !.current_file = IF p.state = "InNzb" /\ tag = "file"
                         THEN [subject |-> attr, groups |-> <<>>, segments |-> <<>>] ELSE @]

StartFails(p, tag, attr) == p.state = "InSegments" /\ tag = "segment" /\ attr = Bad

FileFrom(builder) ==
    [filename |-> builder.subject, par_status |-> ParOf[builder.subject],
     groups |-> builder.groups, segments |-> builder.segments]

handle_end(p, tag) ==
    LET taken == [p EXCEPT !.text = <<>>]
    IN CASE p.state = "InMeta" /\ tag = "meta" ->
              [taken EXCEPT !.state = "InHead", !.meta = Append(@, p.text)]
         [] p.state = "InHead" /\ tag = "head" -> [p EXCEPT !.state = "InNzb"]
         [] p.state = "InGroup" /\ tag = "group" ->
              [taken EXCEPT !.state = "InGroups", !.current_file.groups = Append(@, p.text)]
         [] p.state = "InGroups" /\ tag = "groups" -> [p EXCEPT !.state = "InFile"]
         [] p.state = "InSegment" /\ tag = "segment" ->
              [taken EXCEPT !.state = "InSegments",
                  !.current_file.segments = Append(@, [number |-> p.number, message_id |-> p.text])]
         [] p.state = "InSegments" /\ tag = "segments" -> [p EXCEPT !.state = "InFile"]
         [] p.state = "InFile" /\ tag = "file" ->
              [p EXCEPT !.state = "InNzb", !.files = Append(@, FileFrom(p.current_file)),
                  !.current_file = NoFile]
         [] p.state = "InNzb" /\ tag = "nzb" -> [p EXCEPT !.state = "Initial"]
         [] OTHER -> p

EndFails(p, tag) ==
    \/ p.state = "InSegment" /\ tag = "segment" /\ p.text = <<>>
    \/ /\ p.state = "InFile" /\ tag = "file"
       /\ p.current_file.groups = <<>> \/ p.current_file.segments = <<>>

(* A repeated name gets the first suffix that is free, counting from where *)
(* the name was repeated last.                                             *)
MadeUnique(st, file) ==
    LET name == file.filename
        next == st.used[name] + 1
        free(n) == Append(name, n) \notin DOMAIN st.used
        suffix == CHOOSE n \in next..(next + Len(st.files)) :
                      free(n) /\ \A m \in next..(n - 1) : ~free(m)
        With(used, n, i) == [k \in DOMAIN used \union {n} |-> IF k = n THEN i ELSE used[k]]
    IN IF name = NoName THEN [st EXCEPT !.files = Append(@, file)]
       ELSE IF name \notin DOMAIN st.used
       THEN [files |-> Append(st.files, file), used |-> With(st.used, name, 1)]
       ELSE [files |-> Append(st.files, [file EXCEPT !.filename = Append(name, suffix)]),
             used |-> With(With(st.used, Append(name, suffix), 1), name, suffix)]

ensure_unique_filenames(files) ==
    FoldLeft(MadeUnique, [files |-> <<>>, used |-> <<>>], files).files

(* Segments by number; the sort is stable.                                 *)
BySegmentNumber(segments) ==
    FoldLeft(LAMBDA sorted, s :
                LET before == {t \in Range(sorted) : t.number <= s.number}
                IN Selected(sorted, before) \o <<s>> \o Selected(sorted, Range(sorted) \ before),
             <<>>, segments)

build_nzb_info(p) ==
    ensure_unique_filenames([i \in DOMAIN p.files |->
        [p.files[i] EXCEPT !.segments = BySegmentNumber(@)]])
-----------------------------------------------------------------------------
(* The document: what the format has in an element, and the file it is in. *)
(* An unknown element may stand wherever it splits no text.                *)
Children(tag) ==
    CASE tag = "nzb" -> {"head", "file"} [] tag = "head" -> {"meta"}
      [] tag = "file" -> {"groups", "segments"} [] tag = "groups" -> {"group"}
      [] tag = "segments" -> {"segment"} [] OTHER -> {}

WithText == {"meta", "group", "segment"}

Stands(tag) ==
    IF open_tags = <<>> THEN tag \in {"nzb", "other"}
    ELSE \/ tag \in Children(Last(open_tags))
         \/ tag = "other" /\ Last(open_tags) \notin WithText

Attributes(tag) ==
    CASE tag = "file" -> Subjects [] tag = "segment" -> Numbers \union {Bad} [] OTHER -> {Bad}

(* The weight of a document: its files and what is not the first group or  *)
(* segment of a file.  What stands out of place counts twice; no name and  *)
(* a number beyond the first count once more.                              *)
IsFirst(tag) ==
    \/ tag = "nzb" /\ made[tag] = 0
    \/ tag \in {"groups", "group", "segments", "segment"} /\ made[tag] < made["file"]

IsUnusual(tag, attr) ==
    \/ tag = "file" /\ attr = NoName
    \/ tag = "segment" /\ attr \notin {Bad, 1}

Weight(tag, attr) ==
    (IF ~Stands(tag) THEN 2 ELSE IF IsFirst(tag) THEN 0 ELSE 1)
      + IF IsUnusual(tag, attr) THEN 1 ELSE 0

Add(n) == weight + n <= MaxWeight /\ weight' = weight + n

Written(tag, attr) ==
    CASE tag = "file" -> Append(written, [subject |-> attr, groups |-> <<>>, segments |-> <<>>,
                                          closed |-> FALSE])
      [] tag = "group" -> [written EXCEPT ![Len(written)].groups = Append(@, <<>>)]
      [] tag = "segment" ->
            [written EXCEPT ![Len(written)].segments =
                Append(@, [number |-> attr, message_id |-> <<>>])]
      [] OTHER -> written

StartElement(tag, attr) ==
    /\ verdict = "Parsing" /\ Add(Weight(tag, attr))
    /\ open_tags' = Append(open_tags, tag) /\ spoken' = FALSE
    /\ made' = [made EXCEPT ![tag] = @ + 1]
    /\ plain' = (plain /\ Stands(tag))
    /\ written' = IF plain' THEN Written(tag, attr) ELSE written
    /\ IF StartFails(parser, tag, attr)
       THEN verdict' = "InvalidSegment" /\ UNCHANGED parser
       ELSE parser' = handle_start(parser, tag, attr) /\ UNCHANGED verdict
    /\ UNCHANGED nzb_files

(* <tag/>: the parser passes over it.                                      *)
EmptyElement(tag) ==
    /\ verdict = "Parsing" /\ Add(IF tag = "other" THEN 1 ELSE 2)
    /\ spoken' = FALSE /\ plain' = (plain /\ tag = "other")
    /\ UNCHANGED <<parser, verdict, nzb_files, open_tags, made, written>>

(* A text: which one it is, its place in the document says.                *)
TextIn(tag) ==
    <<tag, Len(written), CASE plain /\ tag = "group" -> Len(Last(written).groups)
                           [] plain /\ tag = "segment" -> Len(Last(written).segments)
                           [] OTHER -> 0>>

TextWritten(tag, word) ==
    CASE tag = "group" ->
            [written EXCEPT ![Len(written)].groups[Len(Last(written).groups)] = Append(@, word)]
      [] tag = "segment" ->
            [written EXCEPT ![Len(written)].segments[Len(Last(written).segments)].message_id =
                Append(@, word)]
      [] OTHER -> written

WriteText ==
    LET tag == Last(open_tags)
    IN /\ verdict = "Parsing" /\ open_tags # <<>> /\ ~spoken /\ spoken' = TRUE
       /\ Add(IF tag \in WithText \union {"other"} THEN 0 ELSE 1)
       /\ parser' = [parser EXCEPT !.text = Append(@, TextIn(tag))]
       /\ written' = IF plain THEN TextWritten(tag, TextIn(tag)) ELSE written
       /\ UNCHANGED <<verdict, nzb_files, open_tags, made, plain>>

EndElement ==
    LET tag == Last(open_tags)
    IN /\ verdict = "Parsing" /\ open_tags # <<>>
       /\ open_tags' = Front(open_tags) /\ spoken' = FALSE
       /\ IF EndFails(parser, tag)
          THEN verdict' = "Malformed" /\ UNCHANGED parser
          ELSE parser' = handle_end(parser, tag) /\ UNCHANGED verdict
       /\ written' = IF plain /\ tag = "file" THEN [written EXCEPT ![Len(written)].closed = TRUE]
                                              ELSE written
       /\ UNCHANGED <<nzb_files, made, weight, plain>>

(* The end of the data, wherever it comes, is not an error of its own.     *)
EndOfData ==
    /\ verdict = "Parsing"
    /\ verdict' = IF ~parser.saw_nzb THEN "MalformedNzb"
                  ELSE IF parser.files = <<>> THEN "NoFiles" ELSE "Ok"
    /\ nzb_files' = IF verdict' = "Ok" THEN build_nzb_info(parser) ELSE <<>>
    /\ parser' = new /\ open_tags' = <<>> /\ spoken' = FALSE
    /\ made' = [tag \in Tags |-> 0] /\ weight' = 0
    /\ UNCHANGED <<plain, written>>

NzbNext ==
    \/ \E tag \in Tags : EmptyElement(tag) \/ \E attr \in Attributes(tag) : StartElement(tag, attr)
    \/ WriteText \/ EndElement \/ EndOfData
-----------------------------------------------------------------------------
(* A document in which every element stands where the format has it is     *)
(* read as it is: its complete files in order, each with its own groups    *)
(* and all its segments by number, and under a name no other file has, its *)
(* own if it is the first to bear it; and it is refused only if a file     *)
(* lacks something.  An element out of place, or a known one without       *)
(* content, spoils no file that was complete before it, and whatever       *)
(* stands where, every file has groups, segments with ids, in order, and a *)
(* name of its own.                                                        *)
Closed == Selected(written, {f \in Range(written) : f.closed})

ReadAs(file, f) ==
    /\ file.groups = f.groups /\ file.par_status = ParOf[f.subject]
    /\ Range(file.segments) = Range(f.segments) /\ Len(file.segments) = Len(f.segments)

(* Its own name, unless a file before it has that.                         *)
NamedFor(i) ==
    /\ Closed[i].subject = NoName <=> nzb_files[i].filename = NoName
    /\ (\A j \in 1..(i - 1) : Closed[j].subject # Closed[i].subject) =>
          nzb_files[i].filename = Closed[i].subject
             \/ \E j \in 1..(i - 1) : nzb_files[j].filename = Closed[i].subject

IsWhole(file) ==
    /\ file.groups # <<>> /\ file.segments # <<>>
    /\ \A i \in DOMAIN file.segments : file.segments[i].message_id # <<>>
    /\ \A i, j \in DOMAIN file.segments : i < j => file.segments[i].number <= file.segments[j].number

LacksSomething(f) ==
    \/ f.groups = <<>> \/ f.segments = <<>>
    \/ \E i \in DOMAIN f.segments : f.segments[i].number = Bad \/ f.segments[i].message_id = <<>>

NzbIsReadRight ==
    /\ verdict = "Ok" =>
          /\ Len(nzb_files) >= Len(Closed) /\ (plain => Len(nzb_files) = Len(Closed))
          /\ \A i \in DOMAIN Closed : ReadAs(nzb_files[i], Closed[i]) /\ NamedFor(i)
          /\ \A i \in DOMAIN nzb_files :
                /\ IsWhole(nzb_files[i])
                /\ \A j \in DOMAIN nzb_files :
                      nzb_files[j].filename = nzb_files[i].filename => i = j \/ nzb_files[i].filename = NoName
    /\ plain /\ verdict \in {"InvalidSegment", "Malformed"} => LacksSomething(Last(written))
=============================================================================
