---------------------------- MODULE MCServerPool ----------------------------
(* Values of the constants of ServerPool that a .cfg cannot write.         *)
EXTENDS ServerPool, TLC

CONSTANTS s1, s2

TwoServers == <<s1, s2>>
Levels == s1 :> 0 @@ s2 :> 1
OneEach == s1 :> 1 @@ s2 :> 1
=============================================================================
