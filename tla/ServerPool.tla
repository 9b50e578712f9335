----------------------------- MODULE ServerPool -----------------------------
(***************************************************************************)
(* The connection pool of the download worker: fetches compete for the     *)
(* permits of the news servers, reuse idle connections, fall back from one *)
(* server to the next and put failing servers into backoff.                *)
(*                                                                         *)
(* A fetch makes attempts, one per server.  att[f, s] is where the attempt *)
(* of fetch f on server s stands.                                          *)
(***************************************************************************)
EXTENDS Integers, FiniteSets, SequencesExt

CONSTANTS
    Fetches,        \* concurrent calls of fetch_article_targeted
    Configured,     \* configured servers, a sequence of ids
    Rank,           \* [ids -> Nat], orders servers by (level, group)
    Permits,        \* [ids -> Nat], connections.max(1)
    Active,         \* ids of the active servers, the others are left out
    Cleaned,        \* servers whose idle connections are cleaned up
    NoTarget,       \* target_server_id = None
    Targets,        \* targets a fetch may be given
    FailCap         \* 10 in the code

Ids == Range(Configured)

ASSUME PoolAssumption ==
    /\ IsFiniteSet(Fetches) /\ IsInjective(Configured)
    /\ Configured \in Seq(Ids) /\ IsFiniteSet(Ids)
    /\ Rank \in [Ids -> Nat] /\ Permits \in [Ids -> Nat \ {0}]
    /\ NoTarget \notin Ids /\ Targets \subseteq Ids \union {NoTarget}
    /\ Active \subseteq Ids /\ Cleaned \subseteq Active
    /\ FailCap \in Nat \ {0}

VARIABLES
    permits,        \* free permits of each server's semaphore
    waiters,        \* fetches queued at the semaphore
    idle,           \* idle connections, the newest on top
    cleaning,       \* cleanup_idle holds the lock of idle
    fail_count, backoff,
    mode,           \* "off", "targeted", "blast", "done"
    todo,           \* servers a fetch has still to try
    target,         \* its target, until it was tried
    att,            \* where the attempt on a server stands
    counted,        \* the count record_failure is about to store
    outcome         \* result of a finished fetch

servers == <<permits, waiters, idle, cleaning, fail_count, backoff>>
calls == <<mode, todo, target, att, counted, outcome>>
vars == <<servers, calls>>

Status == {"none", "queued", "held", "reading", "returned",
           "data", "missing", "error", "counted", "stored", "reset"}

(* An attempt with one of these holds a permit.                            *)
Holding == {"held", "reading", "returned"}

Holds(f, k) == att[<<f, k>>] \in Holding

Before(s, t) ==
    \/ Rank[s] < Rank[t]
    \/ Rank[s] = Rank[t] /\ \E i, j \in DOMAIN Configured :
          i < j /\ Configured[i] = s /\ Configured[j] = t

TypeOK ==
    /\ permits \in [Ids -> Nat] /\ waiters \in [Ids -> Seq(Fetches)]
    /\ idle \in [Ids -> Nat] /\ cleaning \in [Ids -> BOOLEAN]
    /\ fail_count \in [Ids -> Nat] /\ backoff \in [Ids -> BOOLEAN]
    /\ mode \in [Fetches -> {"off", "targeted", "blast", "done"}]
    /\ todo \in [Fetches -> SUBSET Ids]
    /\ target \in [Fetches -> Ids \union {NoTarget}]
    /\ att \in [Fetches \X Ids -> Status]
    /\ counted \in [Fetches -> Nat]
    /\ outcome \in [Fetches -> {"none", "Data", "Failed", "Blocked"}]

Init ==
    /\ permits = [k \in Ids |-> Permits[k]]
    /\ waiters = [k \in Ids |-> <<>>]
    /\ idle = [k \in Ids |-> 0] /\ cleaning = [k \in Ids |-> FALSE]
    /\ fail_count = [k \in Ids |-> 0] /\ backoff = [k \in Ids |-> FALSE]
    /\ mode = [f \in Fetches |-> "off"]
    /\ todo = [f \in Fetches |-> {}]
    /\ target = [f \in Fetches |-> NoTarget]
    /\ att = [x \in Fetches \X Ids |-> "none"]
    /\ counted = [f \in Fetches |-> 0]
    /\ outcome = [f \in Fetches |-> "none"]
-----------------------------------------------------------------------------
(* The semaphores.  tokio hands a permit that is given back to the first   *)
(* waiter, so permits are free only when nobody waits.                     *)

TryAcquire(f, s) ==
    /\ permits[s] > 0
    /\ permits' = [permits EXCEPT ![s] = @ - 1]
    /\ att' = [att EXCEPT ![<<f, s>>] = "held"]
    /\ UNCHANGED waiters

Enqueue(f, s) ==
    /\ permits[s] = 0
    /\ waiters' = [waiters EXCEPT ![s] = Append(@, f)]
    /\ att' = [att EXCEPT ![<<f, s>>] = "queued"]
    /\ UNCHANGED permits

Without(q, f) ==
    IF f \in Range(q) THEN RemoveAt(q, CHOOSE i \in DOMAIN q : q[i] = f) ELSE q

(* The attempts of f on the servers S drop their permits or their places   *)
(* in the queues and become "to".                                          *)
GiveUp(f, S, to) ==
    LET Freed(k) == k \in S /\ Holds(f, k)
        Left(k) == IF k \in S THEN Without(waiters[k], f) ELSE waiters[k]
        Granted(k, g) == Freed(k) /\ Left(k) # <<>> /\ Head(Left(k)) = g
    IN /\ permits' = [k \in Ids |->
             permits[k] + IF Freed(k) /\ Left(k) = <<>> THEN 1 ELSE 0]
       /\ waiters' = [k \in Ids |->
             IF Freed(k) /\ Left(k) # <<>> THEN Tail(Left(k)) ELSE Left(k)]
       /\ att' = [x \in Fetches \X Ids |->
             IF x[1] = f /\ x[2] \in S THEN to
             ELSE IF Granted(x[2], x[1]) THEN "held" ELSE att[x]]
-----------------------------------------------------------------------------
(* fetch_article_targeted and its two strategies.                          *)

Available == {s \in Active : ~backoff[s]}

(* The target comes first if it is available, then the others by level and *)
(* group, as with_factory sorted them.                                     *)
IsNext(f, s) ==
    /\ s \in todo[f]
    /\ IF target[f] \in todo[f] THEN s = target[f]
       ELSE \A t \in todo[f] \ {s} : Before(s, t)

Finish(f, result) ==
    /\ mode' = [mode EXCEPT ![f] = "done"]
    /\ outcome' = [outcome EXCEPT ![f] = result]
    /\ todo' = [todo EXCEPT ![f] = {}]
    /\ target' = [target EXCEPT ![f] = NoTarget]

StartFetch(f, t) ==
    /\ mode[f] = "off"
    /\ IF Active = {} THEN Finish(f, "Blocked")
       ELSE IF Available = {} THEN Finish(f, "Failed")
       ELSE /\ mode' = [mode EXCEPT ![f] = IF t = NoTarget THEN "blast" ELSE "targeted"]
            /\ todo' = [todo EXCEPT ![f] = Available]
            /\ target' = [target EXCEPT ![f] = t]
            /\ UNCHANGED outcome
    /\ UNCHANGED <<servers, att, counted>>

(* fetch_article: every server at once; each waits for its permit as long  *)
(* as it takes.                                                            *)
BlastAttempt(f) ==
    /\ mode[f] = "blast"
    /\ \E s \in Ids :
          /\ IsNext(f, s) /\ todo' = [todo EXCEPT ![f] = @ \ {s}]
          /\ TryAcquire(f, s) \/ Enqueue(f, s)
    /\ UNCHANGED <<idle, cleaning, fail_count, backoff,
                   mode, target, counted, outcome>>

Pending(f) == {s \in Ids : att[<<f, s>>] # "none"}

(* fetch_article_sequential: the target is waited for, another server only *)
(* used if it has a permit free.                                           *)
NextServer(f) ==
    /\ mode[f] = "targeted" /\ Pending(f) = {}
    /\ \E s \in Ids :
          /\ IsNext(f, s) /\ todo' = [todo EXCEPT ![f] = @ \ {s}]
          /\ \/ TryAcquire(f, s)
             \/ s = target[f] /\ Enqueue(f, s)
             \/ /\ s # target[f] /\ permits[s] = 0
                /\ UNCHANGED <<permits, waiters, att>>
    /\ target' = [target EXCEPT ![f] = NoTarget]
    /\ UNCHANGED <<idle, cleaning, fail_count, backoff,
                   mode, counted, outcome>>

(* PERMIT_WAIT_TIMEOUT.                                                    *)
PermitTimeout(f, s) ==
    /\ mode[f] = "targeted" /\ att[<<f, s>>] = "queued"
    /\ GiveUp(f, {s}, "none")
    /\ UNCHANGED <<idle, cleaning, fail_count, backoff,
                   mode, todo, target, counted, outcome>>

(* No server left: the last error is returned.                             *)
Exhausted(f) ==
    /\ mode[f] \in {"targeted", "blast"}
    /\ todo[f] = {} /\ Pending(f) = {}
    /\ Finish(f, "Failed")
    /\ UNCHANGED <<servers, att, counted>>
-----------------------------------------------------------------------------
(* try_fetch_from_server.                                                  *)

To(f, s, from, to) ==
    /\ att[<<f, s>>] = from /\ att' = [att EXCEPT ![<<f, s>>] = to]

attempt == <<permits, waiters, fail_count, backoff,
             mode, todo, target, counted, outcome>>

(* acquire_connection: the newest idle connection, if it is not too old;   *)
(* else all of them are, and a new one is opened.                          *)
Reuse(f, s) ==
    /\ To(f, s, "held", "reading")
    /\ ~cleaning[s] /\ idle[s] > 0
    /\ idle' = [idle EXCEPT ![s] = @ - 1]
    /\ UNCHANGED <<attempt, cleaning>>

(* Mutant of Open: the idle connections are left open.                     *)
OpenBesideIdle(f, s) ==
    /\ To(f, s, "held", "reading") /\ ~cleaning[s]
    /\ UNCHANGED <<attempt, idle, cleaning>>

Open(f, s) ==
    /\ To(f, s, "held", "reading") /\ ~cleaning[s]
    /\ idle' = [idle EXCEPT ![s] = 0]
    /\ UNCHANGED <<attempt, cleaning>>

(* BODY was read to its end before the lock is asked for.                  *)
ReturnConnection(f, s) ==
    /\ To(f, s, "reading", "returned") /\ ~cleaning[s]
    /\ idle' = [idle EXCEPT ![s] = IF @ < Permits[s] THEN @ + 1 ELSE @]
    /\ UNCHANGED <<attempt, cleaning>>

others == <<idle, cleaning, fail_count, backoff,
            mode, todo, target, counted, outcome>>

EndWith(f, s, result) ==
    /\ GiveUp(f, {s}, result)
    /\ UNCHANGED others

GotData(f, s) == att[<<f, s>>] = "returned" /\ EndWith(f, s, "data")

(* 430: the connection is dropped all the same.                            *)
NotFound(f, s) == att[<<f, s>>] = "reading" /\ EndWith(f, s, "missing")

(* Mutant of FetchError: the timeout does not cover the wait for the lock. *)
FetchErrorUnlessLocked(f, s) ==
    /\ att[<<f, s>>] = "reading" /\ ~cleaning[s]
    /\ EndWith(f, s, "error")

(* Connecting, authenticating or reading fails, or ARTICLE_TIMEOUT passes; *)
(* there is no such timeout in a blast.                                    *)
FetchError(f, s) ==
    /\ \/ att[<<f, s>>] = "reading"
       \/ att[<<f, s>>] = "held" /\ mode[f] = "targeted"
    /\ EndWith(f, s, "error")
-----------------------------------------------------------------------------
(* The result of an attempt.  The fields of the backoff are atomics, read  *)
(* and written one by one.                                                 *)

recording == <<permits, waiters, idle, cleaning,
               mode, todo, target, outcome>>

(* One result is dealt with at a time: the rest of the loop body does not  *)
(* await.                                                                  *)
Settling(f) == \E s \in Ids : att[<<f, s>>] \in {"counted", "stored", "reset"}

Missing(f, s) ==
    /\ ~Settling(f) /\ To(f, s, "missing", "none")
    /\ UNCHANGED <<recording, fail_count, backoff, counted>>

(* record_failure: fetch_add, then two stores.                             *)
CountFailure(f, s) ==
    /\ ~Settling(f) /\ To(f, s, "error", "counted")
    /\ fail_count' = [fail_count EXCEPT ![s] = @ + 1]
    /\ counted' = [counted EXCEPT ![f] =
          IF fail_count[s] < FailCap - 1
          THEN fail_count[s] + 1 ELSE FailCap]
    /\ UNCHANGED <<recording, backoff>>

StoreCount(f, s) ==
    /\ To(f, s, "counted", "stored")
    /\ fail_count' = [fail_count EXCEPT ![s] = counted[f]]
    /\ counted' = [counted EXCEPT ![f] = 0]
    /\ UNCHANGED <<recording, backoff>>

StoreDeadline(f, s) ==
    /\ To(f, s, "stored", "none")
    /\ backoff' = [backoff EXCEPT ![s] = TRUE]
    /\ UNCHANGED <<recording, fail_count, counted>>

(* reset_backoff, two stores; then the result is returned, and a blast     *)
(* drops its other attempts.                                               *)
ResetCount(f, s) ==
    /\ ~Settling(f) /\ To(f, s, "data", "reset")
    /\ fail_count' = [fail_count EXCEPT ![s] = 0]
    /\ UNCHANGED <<recording, backoff, counted>>

(* Mutant of ReturnData: the other futures are not dropped.                *)
ReturnDataKeepsOthers(f, s) ==
    /\ att[<<f, s>>] = "reset"
    /\ backoff' = [backoff EXCEPT ![s] = FALSE]
    /\ GiveUp(f, {s}, "none") /\ Finish(f, "Data")
    /\ UNCHANGED <<idle, cleaning, fail_count, counted>>

ReturnData(f, s) ==
    /\ att[<<f, s>>] = "reset"
    /\ backoff' = [backoff EXCEPT ![s] = FALSE]
    /\ GiveUp(f, Ids, "none") /\ Finish(f, "Data")
    /\ UNCHANGED <<idle, cleaning, fail_count, counted>>

BackoffEnds(k) ==
    /\ backoff[k] /\ backoff' = [backoff EXCEPT ![k] = FALSE]
    /\ UNCHANGED <<permits, waiters, idle, cleaning,
                   fail_count, calls>>
-----------------------------------------------------------------------------
(* cleanup_idle: the lock is held while the old connections say QUIT.      *)
CleanupBegin(k) ==
    /\ ~cleaning[k] /\ k \in Cleaned
    /\ cleaning' = [cleaning EXCEPT ![k] = TRUE]
    /\ UNCHANGED <<permits, waiters, idle, fail_count,
                   backoff, calls>>

CleanupEnd(k) ==
    /\ cleaning[k] /\ cleaning' = [cleaning EXCEPT ![k] = FALSE]
    /\ \E kept \in 0..idle[k] : idle' = [idle EXCEPT ![k] = kept]
    /\ UNCHANGED <<permits, waiters, fail_count, backoff,
                   calls>>

Proceed(f) ==
    \/ BlastAttempt(f) \/ NextServer(f) \/ Exhausted(f)
    \/ \E s \in Ids :
          \/ Reuse(f, s) \/ Open(f, s) \/ ReturnConnection(f, s) \/ GotData(f, s) \/ NotFound(f, s)
          \/ FetchError(f, s) \/ PermitTimeout(f, s) \/ Missing(f, s)
          \/ CountFailure(f, s) \/ StoreCount(f, s) \/ StoreDeadline(f, s)
          \/ ResetCount(f, s) \/ ReturnData(f, s)

Next ==
    \/ \E f \in Fetches : Proceed(f) \/ \E t \in Targets : StartFetch(f, t)
    \/ \E k \in Ids : BackoffEnds(k) \/ CleanupBegin(k) \/ CleanupEnd(k)

Spec == Init /\ [][Next]_vars

(* A fetch that can go on does.  The cleaning of idle connections has no   *)
(* fairness: QUIT is not bounded by a timeout.                             *)
FairSpec == Spec /\ \A f \in Fetches : WF_vars(Proceed(f))
-----------------------------------------------------------------------------
(* Properties.                                                             *)

InUse(k) == {f \in Fetches : att[<<f, k>>] = "reading"}

(* A pool never has more connections open to a server, idle ones included, *)
(* than its configuration allows: idle connections are counted apart from  *)
(* the permits, and an old one is closed before a new one is opened.       *)
ServerConnectionLimit ==
    \A k \in Ids : idle[k] + Cardinality(InUse(k)) <= Permits[k]

(* The failure count is read and stored without a lock; however many       *)
(* fetches fail at once, it exceeds its cap only while they are about to   *)
(* store it, so that the delay 2^count stays within a minute.              *)
FailCountBounded ==
    \A k \in Ids :
       fail_count[k] <= FailCap
          + Cardinality({f \in Fetches : att[<<f, k>>] = "counted"})

(* Both limits of a server, whatever its fetches, their failures and the   *)
(* cleanup of idle connections do at once.                                 *)
ServerLimits == ServerConnectionLimit /\ FailCountBounded

(* A fetch that has returned waits nowhere and holds nothing, whichever of *)
(* its attempts won.                                                       *)
ReturnedHoldsNothing ==
    \A f \in Fetches : mode[f] = "done" =>
       /\ Pending(f) = {}
       /\ \A k \in Ids : f \notin Range(waiters[k])

(* A targeted fetch ends, even when a server hangs and holds the lock of   *)
(* its idle connections.                                                   *)
TargetedFetchEnds ==
    \A f \in Fetches : mode[f] = "targeted" ~> mode[f] = "done"
=============================================================================
