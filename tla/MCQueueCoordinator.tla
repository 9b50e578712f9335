------------------------- MODULE MCQueueCoordinator -------------------------
(* Values for the constants of QueueCoordinator that a .cfg cannot write.  *)
EXTENDS QueueLifecycle

CONSTANTS s1, s2

OneServer == {s1}
TwoServers == {s1, s2}
LevelOne == [s \in {s1} |-> 0]
TwoLevels == [s \in {s1, s2} |-> IF s = s1 THEN 0 ELSE 1]
TwoConnections == [s \in {s1} |-> 2]
OneEach == [s \in {s1, s2} |-> 1]

Normal == 0
MaxPriority == 900
NormalOnly == {Normal}
NormalAndForce == {Normal, MaxPriority}
=============================================================================
