--------------------------- MODULE QueueLifecycle ---------------------------
(* The queue coordinator implements DownloadLifecycle.                     *)
EXTENDS QueueCoordinator

PhaseOf(n) ==
    IF InQueue(n) THEN IF nzb[n].post THEN "post" ELSE "queued"
    ELSE IF n \in history THEN "history"
    ELSE IF n < next_nzb_id THEN "gone" ELSE "unborn"

Phase == [n \in NzbIds |-> PhaseOf(n)]

Part(a) == <<a[1], <<a[2], a[3]>>>>
InFlight == {Part(a) : a \in Active}

HasOutcome ==
    {o \in (Range(queue) \union history) \X (Files \X Segments) :
        nzb[o[1]].segs[o[2]] \in Terminal}

Lifecycle == INSTANCE DownloadLifecycle WITH
    Ids <- NzbIds, Parts <- Files \X Segments,
    phase <- Phase, inflight <- InFlight, settled <- HasOutcome, halted <- shutdown

(* Commands, results, removals, post-processing and returns in any order   *)
(* amount to steps of the life cycle: whatever handle_download_complete is *)
(* told and when, an NZB goes to post-processing with its last outcome and *)
(* with nothing of it on its way, and no id or article lives twice.        *)
ImplementsLifecycle == Lifecycle!Spec
=============================================================================
