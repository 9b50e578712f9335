------------------------------ MODULE MCViews ------------------------------
(* Two files of an article each; a script directory with a program, a    *)
(* directory, a file that is no program, and another program.              *)
EXTENDS StatusViews, TLC

TwoArts == "a1" :> "f1" @@ "a2" :> "f2"
ArtBytes == "a1" :> 1 @@ "a2" :> 2
Program == [file |-> TRUE, executable |-> TRUE]
TwoPrograms ==
    <<Program, [file |-> FALSE, executable |-> TRUE], [file |-> TRUE, executable |-> FALSE], Program>>

RestartedSpec == ViewInit /\ [][ViewNext \/ RestartViews]_viewVars
=============================================================================
