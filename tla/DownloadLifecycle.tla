-------------------------- MODULE DownloadLifecycle --------------------------
(***************************************************************************)
(* What the download queue promises of an NZB and of its articles, with no *)
(* slots, channels, records or order.  An id is used for one stay: from    *)
(* the queue, by way of post-processing or straight, to the history, or    *)
(* out at the user's word; an NZB that comes back gets the next id.  An    *)
(* article is fetched once at a time, and no more once it has an outcome.  *)
(***************************************************************************)
EXTENDS Integers

CONSTANTS
    Ids,        \* NZB ids, integers allocated in order
    Parts       \* the articles of an NZB

VARIABLES
    phase,      \* where the NZB of an id is
    inflight,   \* articles on their way
    settled,    \* articles of present NZBs that have an outcome
    halted      \* told to stop

vars == <<phase, inflight, settled, halted>>

Articles == Ids \X Parts
Phases == {"unborn", "queued", "post", "history", "gone"}

Of(n, S) == {a \in S : a[1] = n}
Complete(n, S) == \A x \in Parts : <<n, x>> \in S
NextId(n) == phase[n] = "unborn" /\ \A m \in Ids : m < n => phase[m] # "unborn"

Init ==
    /\ phase = [n \in Ids |-> "unborn"]
    /\ inflight = {} /\ settled = {} /\ halted = FALSE

(* A duplicate uses up its id.                                             *)
Add(n) ==
    /\ NextId(n)
    /\ \E p \in {"queued", "gone"} : phase' = [phase EXCEPT ![n] = p]
    /\ UNCHANGED <<inflight, settled, halted>>

Start(a) ==
    /\ phase[a[1]] = "queued" /\ ~halted
    /\ a \notin settled /\ a \notin inflight
    /\ inflight' = inflight \union {a}
    /\ UNCHANGED <<phase, settled, halted>>

(* The result is ignored, or the article goes back to wait.                *)
Drop(a) ==
    /\ a \in inflight /\ inflight' = inflight \ {a}
    /\ UNCHANGED <<phase, settled, halted>>

(* A result for an article of a queued NZB; if the coordinator was halted  *)
(* meanwhile, for one it had forgotten.  The last one completes the NZB,   *)
(* any one may reveal that it is beyond repair.                            *)
Settle(a) ==
    /\ phase[a[1]] = "queued" /\ a \notin settled
    /\ a \in inflight \/ halted
    /\ inflight' = inflight \ {a}
    /\ settled' = settled \union {a}
    /\ \E p \in {"queued", "post", "history"} :
          /\ p = "queued" => ~Complete(a[1], settled')
          /\ p = "post" => Complete(a[1], settled')
          /\ phase' = [phase EXCEPT ![a[1]] = p]
    /\ UNCHANGED halted

Finish(n) ==
    /\ phase[n] = "post" /\ phase' = [phase EXCEPT ![n] = "history"]
    /\ UNCHANGED <<inflight, settled, halted>>

(* The user removes it, wherever it is.                                    *)
Remove(n) ==
    /\ phase[n] \in {"queued", "post", "history"}
    /\ phase' = [phase EXCEPT ![n] = "gone"]
    /\ settled' = settled \ Of(n, settled)
    /\ UNCHANGED <<inflight, halted>>

(* Back from the history: to download what has no outcome, to download all *)
(* of it again, or to be post-processed as it is.                          *)
Return(h, n) ==
    /\ phase[h] = "history" /\ NextId(n)
    /\ \E p \in {"queued", "post"}, S \in {{}, {<<n, a[2]>> : a \in Of(h, settled)}} :
          /\ phase' = [phase EXCEPT ![h] = "gone", ![n] = p]
          /\ settled' = (settled \ Of(h, settled)) \union S
    /\ UNCHANGED <<inflight, halted>>

Halt ==
    /\ halted' = TRUE /\ inflight' = {}
    /\ UNCHANGED <<phase, settled>>

Next ==
    \/ \E n \in Ids : Add(n) \/ Finish(n) \/ Remove(n) \/ \E h \in Ids : Return(h, n)
    \/ \E a \in Articles : Start(a) \/ Drop(a) \/ Settle(a)
    \/ Halt

Spec == Init /\ [][Next]_vars
-----------------------------------------------------------------------------
(* Once an NZB is handed to post-processing none of its articles is on its *)
(* way, so nothing is written below the post-processor's hands.            *)
NothingArrivesLate == \A a \in inflight : phase[a[1]] # "post"

(* An id lives once: it is left for good when its NZB leaves.              *)
IdsLiveOnce ==
    [][\A n \in Ids :
          /\ phase[n] # "unborn" => phase'[n] # "unborn"
          /\ phase[n] = "gone" => phase'[n] = "gone"
          /\ phase[n] = "history" => phase'[n] \in {"history", "gone"}]_vars
=============================================================================
