------------------------------ MODULE MCRemote ------------------------------
(* Calls of two clients: edits of several ids, of which one is unknown or  *)
(* goes away meanwhile, appends that are duplicates of one another, and a  *)
(* shutdown that may overtake any of them.                                 *)
EXTENDS RemoteControl, TLC

CONSTANTS nzb1, x

Rpc(method, command, param, ids) ==
    [method |-> method, command |-> command, param |-> param, ids |-> ids]
Edit(command, param, ids) == Rpc("editqueue", command, param, ids)

SomeRequests ==
    {Edit("HistoryDelete", 0, <<3, 1>>), Edit("HistoryRedownload", 0, <<3>>),
     Edit("GroupMoveOffset", -1, <<2, 1>>), Edit("GroupDelete", 0, <<1, 4>>),
     Edit("GroupSetDupeKey", nzb1, <<1>>), Edit("Unheard", 0, <<1>>),
     Rpc("append", nzb1, x, <<>>),
     Rpc("shutdown", nzb1, 0, <<>>)}

TwoQueued == <<1, 2>>
OneInHistory == <<3>>
=============================================================================
