------------------------------- MODULE MCPost -------------------------------
(* A set of a rar archive and another file, with PAR2 files; the download   *)
(* left them whole, damaged, cut short, too long, renamed or not at all.   *)
EXTENDS PostProcessor

FileNames == {"a.rar", "b.bin", "o.bin", "n.bin", "p.par2", "u.bin", "n.rar"}
Extensions == [n \in FileNames |-> IF n \in {"a.rar", "n.rar"} THEN "rar" ELSE IF n = "p.par2" THEN "par2" ELSE "bin"]
ByNzb == [bin |-> "n.bin", rar |-> "n.rar"]
InArchive == "a.rar" :> "u.bin"
ProtectedFiles == <<"a.rar", "b.bin">>
Contents == "a.rar" :> <<9, 3, 0>> @@ "b.bin" :> <<7, 0>>

(* What is left of a content: all, a word changed, cut short, too long.    *)
Remains(c) ==
    {c, Append(c, 1)} \union {SubSeq(c, 1, k) : k \in 0..(Len(c) - 1)}
      \union {[c EXCEPT ![i] = 8] : i \in {1, Len(c)}}
Found(n, contents) == {<<>>} \union {n :> c : c \in contents}
Par == "p.par2" :> <<>>

Good(e) == [exponent |-> e, data |-> RecoveryData(e)]
Spoilt(e) == [exponent |-> e, data |-> mul_slice_inplace(RecoveryData(e), 2)]
SomeVolumes == {<<>>, <<Good(1)>>, <<Good(0), Good(1)>>, <<Good(0), Good(2), Good(1)>>, <<Good(1), Spoilt(0)>>}
(* Equal exponents; and 5, to which two of the constants have equal powers. *)
LikeVolumes == {<<Good(1), Good(1), Good(0)>>, <<Good(0), Good(5)>>}
Described(d, i) == [main |-> TRUE, descriptions |-> d, ifscs |-> i]
Both == {"a.rar", "b.bin"}
Download(d, s, p) == [dir |-> d, slices |-> s, packets |-> p]

DamagedFiles ==
    {Download(x @@ y @@ Par, s, Described(Both, Both)) :
        x \in Found("a.rar", Remains(Contents["a.rar"])),
        y \in Found("b.bin", {Contents["b.bin"], <<7>>}), s \in SomeVolumes}
LikeSlices ==
    {Download(x @@ y @@ Par, s, Described(Both, Both)) :
        x \in Found("a.rar", {Contents["a.rar"], <<8, 3, 0>>}),
        y \in Found("b.bin", {Contents["b.bin"]}), s \in LikeVolumes}
OddPackets ==
    {Download(x @@ "b.bin" :> Contents["b.bin"] @@ Par, <<Good(0), Good(1)>>, p) :
        x \in Found("a.rar", {Contents["a.rar"], <<8, 3, 0>>, <<9, 3>>}),
        p \in {Described({"b.bin"}, Both), Described(Both, {"b.bin"}),
               [Described(Both, Both) EXCEPT !.main = FALSE]}}
HiddenNames ==
    {Download("a.rar" :> Contents["a.rar"] @@ x @@ "o.bin" :> o @@ p, <<>>, Described(Both, Both)) :
        x \in Found("b.bin", {Contents["b.bin"], <<7, 6>>}), o \in {Contents["b.bin"], <<7, 6>>},
        p \in {<<>>, Par}}
LeftByDownload == DamagedFiles \union LikeSlices \union OddPackets \union HiddenNames

SomeConfigs == {[cleanup |-> TRUE, in_place |-> FALSE, extensions |-> FALSE],
                [cleanup |-> FALSE, in_place |-> TRUE, extensions |-> TRUE]}
PostSpec == PostInit /\ [][PostNext]_postVars
=============================================================================
