------------------------------ MODULE Selection ------------------------------
(* What the standard operators on sequences hide from a proof.  A filter is *)
(* a fold, since proofs can follow a fold place by place; a sequence is one *)
(* by its places, since the elements need not be of one type.               *)
EXTENDS Naturals, SequencesExt

(* The elements of a sequence that are in a set, in their order.            *)
Selected(s, S) == FoldLeft(LAMBDA kept, x : IF x \in S THEN Append(kept, x) ELSE kept, <<>>, s)

IsList(s) == Len(s) \in Nat /\ s = [i \in 1..Len(s) |-> s[i]]
=============================================================================
