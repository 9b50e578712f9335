-------------------------- MODULE QueueCoordinator --------------------------
(***************************************************************************)
(* The download queue of bergamot: the QueueCoordinator actor, the         *)
(* download worker it feeds through the assignment channel, and the        *)
(* post-processing pipeline it feeds through the completion channel.       *)
(*                                                                         *)
(* The coordinator is one task.  It handles a command to its end, then     *)
(* refills the download slots, then waits again: "pc" is "select" while it *)
(* waits and "fill" inside try_fill_download_slots, whose loop iterations  *)
(* are separate steps because the worker sees every try_send at once.      *)
(***************************************************************************)
EXTENDS Integers, FiniteSets, SequencesExt

CONSTANTS
    Servers,             \* server ids of the scheduler's slots
    NoServer,            \* marks an article that is not being downloaded
    Level,               \* [Servers -> Nat], lower levels are preferred
    ServerConnections,   \* [Servers -> Nat], max_connections of each slot
    MaxConnections,      \* max_connections of the coordinator
    MaxArticlesPerFile,  \* max_articles_per_file of the coordinator
    MaxConcurrent,       \* MAX_CONCURRENT_DOWNLOADS of the worker
    AssignmentCap,       \* places of the assignment channel, the one the
                         \* worker holds while it waits for a permit included
    CompletionCap,       \* capacity of the completion channel
    PostCap,             \* capacity of the post-processing channel
    NumFiles,            \* files of every NZB
    NumSegments,         \* articles of every file
    ParFiles,            \* files the NZB parser classifies as PAR2
    ParNamed,            \* files whose name satisfies is_par_file
    RepairDivisor,       \* 10 in the code: a tenth of the data is repairable
    Priorities,          \* priorities in use
    ForcePriority,       \* Priority::Force
    Strategies,          \* values SetStrategy may send
    Outcomes,            \* outcomes a download may have
    UserCommands,        \* commands the user issues in this instance
    MaxNzbId             \* bound on the NZB ids ever allocated

Files == 1..NumFiles
Segments == 1..NumSegments
NzbIds == 1..MaxNzbId
NoNzb == 0
ArticleIds == NzbIds \X Files \X Segments
Connections == UNION {{s} \X (1..ServerConnections[s]) : s \in Servers}

(* Sequential is the default; the others order data and PAR2 files.        *)
StrategyNames == {"Sequential", "Rocket", "Balanced", "Aggressive"}

ASSUME CoordinatorAssumption ==
    /\ IsFiniteSet(Servers) /\ NoServer \notin Servers
    /\ Level \in [Servers -> Nat]
    /\ ServerConnections \in [Servers -> Nat \ {0}]
    /\ MaxConnections \in Nat \ {0} /\ MaxArticlesPerFile \in Nat \ {0}
    /\ MaxConcurrent \in Nat \ {0}
    /\ AssignmentCap \in Nat \ {0}
    /\ CompletionCap \in Nat \ {0} /\ PostCap \in Nat \ {0}
    /\ NumFiles \in Nat \ {0} /\ NumSegments \in Nat \ {0}
    /\ ParFiles \subseteq ParNamed /\ ParNamed \subseteq Files
    /\ RepairDivisor \in Nat \ {0}
    /\ Priorities \subseteq Int /\ Priorities # {} /\ ForcePriority \in Int
    /\ Strategies \subseteq StrategyNames
    /\ Outcomes \subseteq {"Success", "Failure", "Blocked"}
    /\ MaxNzbId \in Nat \ {0}

VARIABLES
    pc,               \* where the coordinator task is
    queue,            \* ids of the queued NZBs, in queue order
    history,          \* ids of the NZBs in the history
    nzb,              \* [NzbIds -> NzbRecord]
    next_nzb_id,
    paused, shutdown, strategy,
    active,           \* active_downloads: the server of each, or NoServer
    active_per_file,
    active_count,     \* per server, in the scheduler's slots
    assignments,      \* assignment channel
    fetching,         \* articles the worker is fetching
    results,          \* DownloadComplete commands not yet received
    completions,      \* completion channel
    forwarding,       \* the notice forward_completions holds, or NoNzb
    post_requests,    \* post-processing channel
    post_current      \* the NZB the PostProcessor works on, or NoNzb

lists == <<queue, history, nzb, next_nzb_id>>
controls == <<paused, shutdown, strategy>>
slots == <<active, active_per_file, active_count>>
worker == <<assignments, fetching, results>>
pipeline == <<completions, forwarding, post_requests, post_current>>
vars == <<pc, lists, controls, slots, worker, pipeline>>
-----------------------------------------------------------------------------
(* NZBs and their articles.  Every article has the same size, so sizes are *)
(* counted in articles.                                                    *)

SegmentStatus == {"Undefined", "Running", "Finished", "Failed"}
Terminal == {"Finished", "Failed"}

NzbRecord ==
    [segs : [Files \X Segments -> SegmentStatus],
     completed : [Files -> BOOLEAN], file_paused : [Files -> BOOLEAN],
     paused : BOOLEAN, priority : Priorities, post : BOOLEAN,
     delete_status : {"None", "Health"},
     success : Nat, failed : Nat, par_failed : Nat,
     remaining_files : Nat]

NewNzb(priority, add_paused) ==
    [segs |-> [x \in Files \X Segments |-> "Undefined"],
     completed |-> [f \in Files |-> FALSE],
     file_paused |-> [f \in Files |-> FALSE],
     paused |-> add_paused, priority |-> priority, post |-> FALSE,
     delete_status |-> "None",
     success |-> 0, failed |-> 0, par_failed |-> 0,
     remaining_files |-> NumFiles]

(* The record of an id that no NZB has.                                    *)
Blank == NewNzb(CHOOSE p \in Priorities : TRUE, FALSE)

Active == {a \in ArticleIds : active[a] # NoServer}
InQueue(n) == n \in Range(queue)

(* Mutant of Truncated: the subtraction does not saturate.                 *)
Unsaturated(m) == m

Truncated(m) == IF m < 0 THEN 0 ELSE m   \* saturating_sub

DownloadResult == [art : ArticleIds, outcome : Outcomes]

SegsWith(z, st) == {x \in Files \X Segments : z.segs[x] \in st}
(* Mutants of AllTerminal: running articles count as done; failed ones do  *)
(* not.                                                                    *)
NoneUndefined(z, f) == \A s \in Segments : z.segs[<<f, s>>] # "Undefined"
AllFinished(z, f) == \A s \in Segments : z.segs[<<f, s>>] = "Finished"

AllTerminal(z, f) == \A s \in Segments : z.segs[<<f, s>>] \in Terminal
AllCompleted(z) == \A f \in Files : z.completed[f]

(* Health in permille, as calculate_health and calculate_critical_health   *)
(* compute it; the instances use values on which the f64 ratio is exact.   *)
CalculateHealth(total, failed) ==
    IF total = 0 THEN 1000 ELSE (1000 * Truncated(total - failed)) \div total

CalculateCriticalHealth(total, par_size, par_failed) ==
    IF total = 0 \/ par_size = 0 THEN 1000
    ELSE LET usable == Truncated(par_size - par_failed)
             repairable == ((total \div RepairDivisor) * usable) \div par_size
         IN (1000 * Truncated(total - repairable)) \div total

ParSize == NumSegments * Cardinality(ParFiles)
DataTotal == NumSegments * Cardinality(Files \ ParFiles)

(* Mutant of HealthFailed: lost PAR2 articles still count as repair data.  *)
HealthFailedFullRepair(z) ==
    CalculateHealth(DataTotal, Truncated(z.failed - z.par_failed))
        < CalculateCriticalHealth(DataTotal, ParSize, 0)

HealthFailed(z) ==
    CalculateHealth(DataTotal, Truncated(z.failed - z.par_failed))
        < CalculateCriticalHealth(DataTotal, ParSize, z.par_failed)
-----------------------------------------------------------------------------
(* Article selection.                                                      *)

ParSet == ParNamed
DataSet == Files \ ParNamed

Passes(st) ==
    CASE st = "Sequential" -> <<Files>>
      [] st = "Rocket"     -> <<DataSet, Files>>
      [] st = "Balanced"   -> <<DataSet, ParSet>>
      [] st = "Aggressive" -> <<ParSet, DataSet>>

Runnable(S) ==
    {k \in NzbIds \X S :
        LET z == nzb[k[1]] IN
        /\ InQueue(k[1]) /\ ~z.post
        /\ (z.paused \/ z.file_paused[k[2]]) => z.priority = ForcePriority
        /\ \E s \in Segments : z.segs[<<k[2], s>>] = "Undefined"}

(* A lone runnable file may use every connection.                          *)
FileCap(S) ==
    IF Cardinality(Runnable(S)) <= 1 THEN MaxConnections ELSE MaxArticlesPerFile

Dispatchable(S) == {k \in Runnable(S) : active_per_file[k] < FileCap(S)}

(* Mutant of Precedes: the list is walked without having been sorted.      *)
PrecedesUnsorted(k, l) ==
    \/ \E i, j \in DOMAIN queue : i > j /\ queue[i] = k[1] /\ queue[j] = l[1]
    \/ k[1] = l[1] /\ k[2] < l[2]

(* The list is sorted by priority, stably, and walked from its end: among  *)
(* NZBs of one priority the last of the queue comes first.                 *)
Precedes(k, l) ==
    LET p == nzb[k[1]].priority
        q == nzb[l[1]].priority
    IN \/ p > q
       \/ /\ p = q
          /\ \E i, j \in DOMAIN queue :
                i > j /\ queue[i] = k[1] /\ queue[j] = l[1]
       \/ k[1] = l[1] /\ k[2] < l[2]

FirstOf(S, k) ==
    /\ k \in Dispatchable(S)
    /\ \A l \in Dispatchable(S) \ {k} : Precedes(k, l)

(* Mutant of NextArticle: failed articles are picked again.                *)
NextArticleOrFailed(a) ==
    /\ \E i \in DOMAIN Passes(strategy) :
          FirstOf(Passes(strategy)[i], <<a[1], a[2]>>)
    /\ nzb[a[1]].segs[<<a[2], a[3]>>] \in {"Undefined", "Failed"}

NextArticle(a) ==
    /\ \E i \in DOMAIN Passes(strategy) :
          /\ \A j \in 1..(i - 1) : Dispatchable(Passes(strategy)[j]) = {}
          /\ FirstOf(Passes(strategy)[i], <<a[1], a[2]>>)
    /\ nzb[a[1]].segs[<<a[2], a[3]>>] = "Undefined"
    /\ \A s \in 1..(a[3] - 1) : nzb[a[1]].segs[<<a[2], s>>] # "Undefined"

(* Mutant of HasCapacity: one connection too many.                         *)
HasCapacityOrMore(s) == active_count[s] <= ServerConnections[s]

(* The server scheduler: among the servers of the lowest level with room,  *)
(* an idle one if there is any (its WFQ ratio is 0), else the one the      *)
(* observed throughputs favour, which may be any of them.                  *)
HasCapacity(s) == active_count[s] < ServerConnections[s]

SelectServer(s) ==
    /\ HasCapacity(s)
    /\ \A t \in Servers : HasCapacity(t) =>
          /\ Level[s] <= Level[t]
          /\ Level[s] = Level[t] /\ active_count[t] = 0 => active_count[s] = 0
-----------------------------------------------------------------------------
(* try_fill_download_slots: one step per article it sends, one to leave.   *)

CanDispatch ==
    /\ ~paused /\ ~shutdown
    /\ Cardinality(Active) < Cardinality(Connections)
    /\ \E s \in Servers : HasCapacity(s)
    /\ \E a \in ArticleIds : NextArticle(a)

DispatchArticle ==
    /\ pc = "fill" /\ CanDispatch
    /\ Len(assignments) < AssignmentCap
    /\ \E a \in ArticleIds, s \in Servers :
          /\ NextArticle(a) /\ SelectServer(s)
          /\ assignments' = Append(assignments, a)
          /\ nzb' = [nzb EXCEPT ![a[1]].segs[<<a[2], a[3]>>] = "Running"]
          /\ active' = [active EXCEPT ![a] = s]
          /\ active_per_file' = [active_per_file EXCEPT ![<<a[1], a[2]>>] = @ + 1]
          /\ active_count' = [active_count EXCEPT ![s] = @ + 1]
    /\ UNCHANGED <<pc, queue, history, next_nzb_id, controls,
                   fetching, results, pipeline>>

(* Nothing to send, or the channel is full and the server's slot, taken    *)
(* and given back, is as it was.  The loop of run ends after a shutdown,   *)
(* and the results nobody received go with the command channel.            *)
FillDone ==
    /\ pc = "fill"
    /\ CanDispatch => Len(assignments) >= AssignmentCap
    /\ IF shutdown /\ Active = {}
       THEN pc' = "stopped" /\ results' = <<>>
       ELSE pc' = "select" /\ UNCHANGED results
    /\ UNCHANGED <<lists, controls, slots, assignments, fetching, pipeline>>

RefillTick ==
    /\ pc = "select" /\ pc' = "fill"
    /\ UNCHANGED <<lists, controls, slots, worker, pipeline>>
-----------------------------------------------------------------------------
(* The download worker: takes assignments in order, fetches some of them   *)
(* at a time and reports each outcome to the coordinator.                  *)

(* Mutant of StartFetch: the worker leaves when the coordinator does.      *)
StartFetchWhileRunning ==
    /\ pc # "stopped" /\ assignments # <<>>
    /\ Cardinality(fetching) < MaxConcurrent
    /\ fetching' = fetching \union {Head(assignments)}
    /\ assignments' = Tail(assignments)
    /\ UNCHANGED <<pc, lists, controls, slots, results, pipeline>>

StartFetch ==
    /\ assignments # <<>>
    /\ Cardinality(fetching) < MaxConcurrent
    /\ fetching' = fetching \union {Head(assignments)}
    /\ assignments' = Tail(assignments)
    /\ UNCHANGED <<pc, lists, controls, slots, results, pipeline>>

FetchDone(a) ==
    /\ a \in fetching
    /\ fetching' = fetching \ {a}
    /\ IF pc = "stopped"
       THEN UNCHANGED results
       ELSE \E o \in Outcomes : results' = Append(results, [art |-> a, outcome |-> o])
    /\ UNCHANGED <<pc, lists, controls, slots, assignments, pipeline>>
-----------------------------------------------------------------------------
(* Handlers.  A handler leaves the coordinator refilling its slots.        *)

Without(n) == RemoveAt(queue, CHOOSE i \in DOMAIN queue : queue[i] = n)

(* check_nzb_completion on the NZB n whose record has become z.            *)
CheckNzbCompletion(n, z) ==
    /\ nzb' = [nzb EXCEPT ![n] = IF AllCompleted(z) THEN [z EXCEPT !.post = TRUE]
                                                    ELSE z]
    /\ completions' = IF AllCompleted(z) /\ Len(completions) < CompletionCap
                      THEN Append(completions, n) ELSE completions

(* Mutant of Settled: a failed PAR2 article counts as lost data.           *)
SettledParUncounted(z, x, outcome) ==
    IF outcome = "Success"
    THEN [z EXCEPT !.segs[x] = "Finished", !.success = @ + 1]
    ELSE [z EXCEPT !.segs[x] = "Failed", !.failed = @ + 1]

Settled(z, x, outcome) ==
    IF outcome = "Success"
    THEN [z EXCEPT !.segs[x] = "Finished", !.success = @ + 1]
    ELSE [z EXCEPT !.segs[x] = "Failed", !.failed = @ + 1,
                   !.par_failed = IF x[1] \in ParNamed THEN @ + 1 ELSE @]

CheckFileCompletion(z, f) ==
    IF ~z.completed[f] /\ AllTerminal(z, f)
    THEN [z EXCEPT !.completed[f] = TRUE,
                   !.remaining_files = Truncated(@ - 1)]
    ELSE z

(* Mutants of ReleaseSlot: the count of a file, or the entry itself, is    *)
(* only given back while the NZB is queued.                                *)
ReleaseSlotLeaksFile(a) ==
    /\ active' = [active EXCEPT ![a] = NoServer]
    /\ active_per_file' = IF InQueue(a[1])
          THEN [active_per_file EXCEPT ![<<a[1], a[2]>>] = Truncated(@ - 1)]
          ELSE active_per_file
    /\ active_count' = [s \in Servers |-> IF s = active[a]
                                          THEN Truncated(active_count[s] - 1)
                                          ELSE active_count[s]]

ReleaseSlotLeaksEntry(a) ==
    /\ active' = IF InQueue(a[1]) THEN [active EXCEPT ![a] = NoServer] ELSE active
    /\ UNCHANGED <<active_per_file, active_count>>

ReleaseSlot(a) ==
    /\ active' = [active EXCEPT ![a] = NoServer]
    /\ active_per_file' =
          [active_per_file EXCEPT ![<<a[1], a[2]>>] = Truncated(@ - 1)]
    /\ active_count' = [s \in Servers |-> IF s = active[a]
                                          THEN Truncated(active_count[s] - 1)
                                          ELSE active_count[s]]

(* The NZB has left the queue, or the segment already has its outcome.     *)
IgnoreResult(n, x) ==
    /\ ~InQueue(n) \/ nzb[n].segs[x] \in Terminal
    /\ UNCHANGED <<queue, history, nzb, paused, completions>>

(* Mutant of BlockDownloads: the article is not given back.                *)
BlockDownloadsKeepsRunning(n, x) ==
    /\ paused' = TRUE
    /\ UNCHANGED <<queue, history, nzb, completions>>

BlockDownloads(n, x) ==
    /\ nzb' = [nzb EXCEPT ![n].segs[x] = "Undefined"]
    /\ paused' = TRUE
    /\ UNCHANGED <<queue, history, completions>>

SettleArticle(n, x, outcome) ==
    LET z == Settled(nzb[n], x, outcome) IN
    /\ IF HealthFailed(z)
       THEN /\ queue' = Without(n) /\ history' = history \union {n}
            /\ nzb' = [nzb EXCEPT ![n] = [z EXCEPT !.delete_status = "Health"]]
            /\ UNCHANGED completions
       ELSE /\ CheckNzbCompletion(n, CheckFileCompletion(z, x[1]))
            /\ UNCHANGED <<queue, history>>
    /\ UNCHANGED paused

ApplyOutcome(n, x, outcome) ==
    /\ InQueue(n) /\ nzb[n].segs[x] \notin Terminal
    /\ IF outcome = "Blocked" THEN BlockDownloads(n, x)
                              ELSE SettleArticle(n, x, outcome)

HandleDownloadComplete ==
    /\ pc = "select" /\ results # <<>>
    /\ pc' = "fill" /\ results' = Tail(results)
    /\ LET a == Head(results).art
           x == <<a[2], a[3]>>
       IN /\ ReleaseSlot(a)
          /\ \/ IgnoreResult(a[1], x)
             \/ ApplyOutcome(a[1], x, Head(results).outcome)
    /\ UNCHANGED <<next_nzb_id, shutdown, strategy, assignments, fetching,
                   forwarding, post_requests, post_current>>
-----------------------------------------------------------------------------
(* Commands of the user, of the scheduler's tasks and of the API.          *)

Command(name) == pc = "select" /\ name \in UserCommands /\ pc' = "fill"

OthersUnchanged == UNCHANGED <<slots, worker, pipeline>>

(* Only an NZB in the queue or the history can make another a duplicate;   *)
(* the id is spent before the duplicate is noticed.                        *)
AddNzb ==
    /\ Command("AddNzb") /\ next_nzb_id <= MaxNzbId
    /\ next_nzb_id' = next_nzb_id + 1
    /\ \/ \E p \in Priorities, add_paused \in BOOLEAN :
             /\ nzb' = [nzb EXCEPT ![next_nzb_id] = NewNzb(p, add_paused)]
             /\ queue' \in {Append(queue, next_nzb_id), <<next_nzb_id>> \o queue}
       \/ /\ queue # <<>> \/ history # {}
          /\ UNCHANGED <<nzb, queue>>
    /\ UNCHANGED <<history, controls>> /\ OthersUnchanged

RemoveNzb(n) ==
    /\ Command("RemoveNzb") /\ InQueue(n)
    /\ queue' = Without(n)
    /\ nzb' = [nzb EXCEPT ![n] = Blank]
    /\ UNCHANGED <<history, next_nzb_id, controls>> /\ OthersUnchanged

SetNzbPaused(n) ==
    /\ Command("PauseNzb") /\ InQueue(n)
    /\ nzb' = [nzb EXCEPT ![n].paused = ~@]
    /\ UNCHANGED <<queue, history, next_nzb_id, controls>> /\ OthersUnchanged

SetFilePaused(n, f) ==
    /\ Command("PauseFile") /\ InQueue(n)
    /\ nzb' = [nzb EXCEPT ![n].file_paused[f] = ~@]
    /\ UNCHANGED <<queue, history, next_nzb_id, controls>> /\ OthersUnchanged

ParUnpause(n) ==
    /\ Command("ParUnpause") /\ InQueue(n)
    /\ nzb' = [nzb EXCEPT ![n].file_paused =
                  [f \in Files |-> f \notin ParNamed /\ @[f]]]
    /\ UNCHANGED <<queue, history, next_nzb_id, controls>> /\ OthersUnchanged

SetPriority(n, p) ==
    /\ Command("SetPriority") /\ InQueue(n)
    /\ nzb' = [nzb EXCEPT ![n].priority = p]
    /\ UNCHANGED <<queue, history, next_nzb_id, controls>> /\ OthersUnchanged

(* Mutant of MoveNzb: the NZB is taken out and not put back.               *)
MoveNzbWithoutInsert(n) ==
    /\ Command("MoveNzb") /\ InQueue(n)
    /\ queue' = Without(n)
    /\ UNCHANGED <<history, nzb, next_nzb_id, controls>> /\ OthersUnchanged

(* Every target position of Top, Bottom, Up, Down, Before and After.       *)
MoveNzb(n) ==
    /\ Command("MoveNzb") /\ InQueue(n)
    /\ \E i \in DOMAIN queue : queue' = InsertAt(Without(n), i, n)
    /\ UNCHANGED <<history, nzb, next_nzb_id, controls>> /\ OthersUnchanged

(* Before or After an NZB that is not in the rest of the queue: the move   *)
(* fails after the NZB was taken out.                                      *)
MoveToMissing(n) ==
    /\ Command("MoveToMissing") /\ InQueue(n)
    /\ queue' = Without(n)
    /\ nzb' = [nzb EXCEPT ![n] = Blank]
    /\ UNCHANGED <<history, next_nzb_id, controls>> /\ OthersUnchanged

PauseAll ==
    /\ Command("PauseAll") /\ paused' = TRUE
    /\ UNCHANGED <<lists, shutdown, strategy>> /\ OthersUnchanged

ResumeAll ==
    /\ Command("PauseAll") /\ paused' = FALSE
    /\ nzb' = [n \in NzbIds |-> IF InQueue(n) THEN [nzb[n] EXCEPT !.paused = FALSE]
                                              ELSE nzb[n]]
    /\ UNCHANGED <<queue, history, next_nzb_id, shutdown, strategy>>
    /\ OthersUnchanged

SetStrategy ==
    /\ Command("SetStrategy") /\ strategy' \in Strategies
    /\ UNCHANGED <<lists, paused, shutdown>> /\ OthersUnchanged

Shutdown ==
    /\ Command("Shutdown") /\ shutdown' = TRUE
    /\ active' = [a \in ArticleIds |-> NoServer]
    /\ active_per_file' = [k \in NzbIds \X Files |-> 0]
    /\ UNCHANGED <<lists, paused, strategy, active_count, worker, pipeline>>
-----------------------------------------------------------------------------
(* History.  An NZB that comes back to the queue gets a new id.            *)

(* Mutants of Requeued: the NZB keeps its old id; the entry stays in the   *)
(* history.                                                                *)
RequeuedUnderOldId(h, z) ==
    /\ h \in history /\ history' = history \ {h}
    /\ queue' = Append(queue, h)
    /\ nzb' = [nzb EXCEPT ![h] = z]
    /\ UNCHANGED next_nzb_id

RequeuedWithoutNewId(h, z) ==
    /\ h \in history /\ next_nzb_id <= MaxNzbId
    /\ queue' = Append(queue, h)
    /\ nzb' = [nzb EXCEPT ![h] = z]
    /\ UNCHANGED <<history, next_nzb_id>>

Requeued(h, z) ==
    /\ h \in history /\ next_nzb_id <= MaxNzbId
    /\ next_nzb_id' = next_nzb_id + 1
    /\ history' = history \ {h}
    /\ queue' = Append(queue, next_nzb_id)
    /\ nzb' = [nzb EXCEPT ![h] = Blank, ![next_nzb_id] = z]

HistoryReturn(h) ==
    /\ Command("HistoryReturn")
    /\ Requeued(h, [nzb[h] EXCEPT !.paused = FALSE])
    /\ UNCHANGED controls /\ OthersUnchanged

(* All files count as completed, so post-processing starts at once.        *)
HistoryProcess(h) ==
    /\ Command("HistoryProcess")
    /\ Requeued(h, [nzb[h] EXCEPT !.paused = FALSE, !.delete_status = "None",
                                  !.completed = [f \in Files |-> TRUE],
                                  !.remaining_files = 0, !.post = TRUE])
    /\ completions' = IF Len(completions) < CompletionCap
                      THEN Append(completions, next_nzb_id) ELSE completions
    /\ UNCHANGED <<controls, slots, worker, forwarding, post_requests,
                   post_current>>

(* remaining_files and par_failed keep the values of the first download.   *)
Redownloaded(z) ==
    [z EXCEPT !.paused = FALSE, !.delete_status = "None",
              !.success = 0, !.failed = 0,
              !.completed = [f \in Files |-> FALSE],
              !.file_paused = [f \in Files |-> FALSE],
              !.segs = [x \in Files \X Segments |-> "Undefined"]]

HistoryRedownload(h) ==
    /\ Command("HistoryRedownload")
    /\ Requeued(h, Redownloaded(nzb[h]))
    /\ UNCHANGED controls /\ OthersUnchanged

HistoryDelete(h) ==
    /\ Command("HistoryDelete") /\ h \in history
    /\ history' = history \ {h}
    /\ nzb' = [nzb EXCEPT ![h] = Blank]
    /\ UNCHANGED <<queue, next_nzb_id, controls>> /\ OthersUnchanged
-----------------------------------------------------------------------------
(* The post-processing pipeline.  forward_completions holds one notice     *)
(* while it flushes the writers and waits for room; the PostProcessor      *)
(* works on one request at a time and reports through the coordinator.     *)

ForwardTake ==
    /\ forwarding = NoNzb /\ completions # <<>>
    /\ forwarding' = Head(completions)
    /\ completions' = Tail(completions)
    /\ UNCHANGED <<pc, lists, controls, slots, worker, post_requests,
                   post_current>>

(* Mutant of ForwardSend: it does not wait for room.                       *)
ForwardSendTry ==
    /\ forwarding # NoNzb
    /\ post_requests' = IF Len(post_requests) < PostCap
                        THEN Append(post_requests, forwarding) ELSE post_requests
    /\ forwarding' = NoNzb
    /\ UNCHANGED <<pc, lists, controls, slots, worker, completions,
                   post_current>>

ForwardSend ==
    /\ forwarding # NoNzb /\ Len(post_requests) < PostCap
    /\ post_requests' = Append(post_requests, forwarding)
    /\ forwarding' = NoNzb
    /\ UNCHANGED <<pc, lists, controls, slots, worker, completions,
                   post_current>>

PostTake ==
    /\ post_current = NoNzb /\ post_requests # <<>>
    /\ post_current' = Head(post_requests)
    /\ post_requests' = Tail(post_requests)
    /\ UNCHANGED <<pc, lists, controls, slots, worker, completions,
                   forwarding>>

(* report_stage: the coordinator creates post_info if there is none.       *)
UpdatePostStage ==
    /\ pc = "select" /\ pc' = "fill" /\ post_current # NoNzb
    /\ nzb' = IF InQueue(post_current)
              THEN [nzb EXCEPT ![post_current].post = TRUE] ELSE nzb
    /\ UNCHANGED <<queue, history, next_nzb_id, controls>> /\ OthersUnchanged

(* report_done: to the history if the NZB is still queued.                 *)
FinishPostProcessing ==
    /\ pc = "select" /\ pc' = "fill" /\ post_current # NoNzb
    /\ post_current' = NoNzb
    /\ IF InQueue(post_current)
       THEN /\ queue' = Without(post_current)
            /\ history' = history \union {post_current}
            /\ nzb' = [nzb EXCEPT ![post_current].post = FALSE]
       ELSE UNCHANGED <<queue, history, nzb>>
    /\ UNCHANGED <<next_nzb_id, controls, slots, worker, completions,
                   forwarding, post_requests>>

(* The coordinator is gone and the report fails.                           *)
FinishUnreported ==
    /\ pc = "stopped" /\ post_current # NoNzb /\ post_current' = NoNzb
    /\ UNCHANGED <<pc, lists, controls, slots, worker, completions,
                   forwarding, post_requests>>
-----------------------------------------------------------------------------
Init ==
    /\ pc = "fill"
    /\ queue = <<>> /\ history = {} /\ next_nzb_id = 1
    /\ nzb = [n \in NzbIds |-> Blank]
    /\ paused = FALSE /\ shutdown = FALSE /\ strategy = "Sequential"
    /\ active = [a \in ArticleIds |-> NoServer]
    /\ active_per_file = [k \in NzbIds \X Files |-> 0]
    /\ active_count = [s \in Servers |-> 0]
    /\ assignments = <<>> /\ fetching = {} /\ results = <<>>
    /\ completions = <<>> /\ forwarding = NoNzb
    /\ post_requests = <<>> /\ post_current = NoNzb

FillDownloadSlots == DispatchArticle \/ FillDone
Worker == StartFetch \/ \E a \in ArticleIds : FetchDone(a)
QueueCommand ==
    \/ AddNzb \/ PauseAll \/ ResumeAll \/ SetStrategy
    \/ \E n \in NzbIds :
          \/ RemoveNzb(n) \/ SetNzbPaused(n) \/ ParUnpause(n)
          \/ MoveNzb(n) \/ MoveToMissing(n)
          \/ \E f \in Files : SetFilePaused(n, f)
          \/ \E p \in Priorities : SetPriority(n, p)
HistoryCommand ==
    \E h \in NzbIds : \/ HistoryReturn(h) \/ HistoryProcess(h)
                      \/ HistoryRedownload(h) \/ HistoryDelete(h)
PostProcessing ==
    \/ ForwardTake \/ ForwardSend \/ PostTake
    \/ UpdatePostStage \/ FinishPostProcessing \/ FinishUnreported

Next ==
    \/ FillDownloadSlots \/ RefillTick
    \/ Worker \/ HandleDownloadComplete
    \/ QueueCommand \/ HistoryCommand \/ Shutdown
    \/ PostProcessing

Spec == Init /\ [][Next]_vars

(* The coordinator's task runs; a command that is sent is received, since  *)
(* the command channel is a FIFO and select! prefers it to the tick; a     *)
(* fetch ends, since the pool bounds it by a timeout; the post-processor   *)
(* ends each request.  Users owe nothing.                                  *)
Fairness ==
    /\ WF_vars(FillDownloadSlots)
    /\ SF_vars(HandleDownloadComplete)
    /\ WF_vars(StartFetch)
    /\ \A a \in ArticleIds : WF_vars(FetchDone(a))
    /\ WF_vars(ForwardTake) /\ WF_vars(ForwardSend) /\ WF_vars(PostTake)
    /\ SF_vars(FinishPostProcessing) /\ WF_vars(FinishUnreported)

FairSpec == Spec /\ Fairness
-----------------------------------------------------------------------------
(* Properties.                                                             *)

PerFile(k) == {a \in Active : <<a[1], a[2]>> = k}
OnServer(s) == {a \in Active : active[a] = s}
Reported == {results[i].art : i \in DOMAIN results}

(* Type correctness of the coordinator, the worker and the pipeline.       *)
TypeOK ==
    /\ pc \in {"select", "fill", "stopped"}
    /\ queue \in Seq(NzbIds) /\ history \subseteq NzbIds
    /\ nzb \in [NzbIds -> NzbRecord]
    /\ next_nzb_id \in 1..(MaxNzbId + 1)
    /\ paused \in BOOLEAN /\ shutdown \in BOOLEAN /\ strategy \in StrategyNames
    /\ active \in [ArticleIds -> Servers \union {NoServer}]
    /\ active_per_file \in [NzbIds \X Files -> Nat]
    /\ active_count \in [Servers -> Nat]
    /\ assignments \in Seq(ArticleIds) /\ fetching \subseteq ArticleIds
    /\ results \in Seq(DownloadResult)
    /\ completions \in Seq(NzbIds) /\ post_requests \in Seq(NzbIds)
    /\ forwarding \in NzbIds \union {NoNzb}
    /\ post_current \in NzbIds \union {NoNzb}

(* The three records of what is being downloaded agree: active_downloads,  *)
(* active_per_file and the scheduler's active_count are changed apart, in  *)
(* try_fill_download_slots and handle_download_complete, and results keep  *)
(* arriving for NZBs that were removed, failed or returned meanwhile.  A   *)
(* leaked count would close a file or a server for good.                   *)
SlotAccounting ==
    ~shutdown =>
       /\ \A k \in NzbIds \X Files : active_per_file[k] = Cardinality(PerFile(k))
       /\ \A s \in Servers : active_count[s] = Cardinality(OnServer(s))

(* Every active download is in exactly one place on its way back to the    *)
(* coordinator, and nothing else is: the download loop can lose no slot,   *)
(* and no article is fetched twice at a time.                              *)
InFlightConserved ==
    ~shutdown =>
       /\ Active = Range(assignments) \union fetching \union Reported
       /\ Cardinality(Active)
             = Len(assignments) + Cardinality(fetching) + Len(results)

(* No server ever serves more articles than it has connections, whatever   *)
(* the interleaving of completions, removals and refills.                  *)
ConnectionLimit ==
    \A s \in Servers : Cardinality(OnServer(s)) <= ServerConnections[s]

(* An article of a queued NZB that is being downloaded is marked Running:  *)
(* next_article cannot pick it again.                                      *)
ActiveIsRunning ==
    \A a \in Active : InQueue(a[1]) => nzb[a[1]].segs[<<a[2], a[3]>>] = "Running"

(* Conversely, an article marked Running in an NZB that still downloads is *)
(* being downloaded; if it is not, nothing will ever settle it.            *)
RunningIsTracked ==
    ~shutdown =>
       \A n \in Range(queue) : ~nzb[n].post =>
          \A x \in Files \X Segments :
             nzb[n].segs[x] = "Running" => active[<<n, x[1], x[2]>>] # NoServer

(* The counters of a queued or finished NZB count its articles and files.  *)
ArticleCounters(z) ==
    /\ z.success = Cardinality(SegsWith(z, {"Finished"}))
    /\ z.failed = Cardinality(SegsWith(z, {"Failed"}))
    /\ z.par_failed = Cardinality({x \in SegsWith(z, {"Failed"}) : x[1] \in ParNamed})

CountersMatch ==
    \A n \in Range(queue) \union history :
       /\ ArticleCounters(nzb[n])
       /\ nzb[n].remaining_files
             = Cardinality({f \in Files : ~nzb[n].completed[f]})

(* Each NZB id is in one place: queued once, or in the history, or gone.   *)
IdsAreUnique ==
    /\ IsInjective(queue)
    /\ Range(queue) \intersect history = {}
    /\ \A n \in Range(queue) \union history : n < next_nzb_id

(* The NZBs the post-processor has been told of: none is told twice.       *)
Notices ==
    completions \o (IF forwarding = NoNzb THEN <<>> ELSE <<forwarding>>)
    \o post_requests \o (IF post_current = NoNzb THEN <<>> ELSE <<post_current>>)

PostProcessedOnce == IsInjective(Notices)

(* The pipeline loses no notice: an NZB waits for post-processing unknown  *)
(* to it only if the completion channel was full when its last article, or *)
(* process_history_item, announced it (try_send), never after its notice   *)
(* was sent.                                                               *)
Unnoticed(n) == InQueue(n) /\ nzb[n].post /\ n \notin Range(Notices)

NoticesAreKept ==
    [][\A n \in NzbIds :
          Unnoticed(n)' /\ ~Unnoticed(n) /\ pc # "stopped"
          => n \notin Range(Notices) /\ Len(completions) >= CompletionCap]_vars

(* The outcome of an article is final while its NZB keeps its id.          *)
OutcomesAreFinal ==
    [][\A n \in Range(queue) \intersect (Range(queue') \union history') :
          \A x \in Files \X Segments :
             nzb[n].segs[x] \in Terminal => nzb'[n].segs[x] = nzb[n].segs[x]]_vars

(* The health check gives up only on an NZB that lost more of its data in  *)
(* this download than its remaining PAR2 articles repair.                  *)
LostData(z) == Cardinality({x \in SegsWith(z, {"Failed"}) : x[1] \notin ParFiles})
LostPar(z) == Cardinality({x \in SegsWith(z, {"Failed"}) : x[1] \in ParFiles})

Hopeless(z) ==
    CalculateHealth(DataTotal, LostData(z))
        < CalculateCriticalHealth(DataTotal, ParSize, LostPar(z))

HealthVerdictIsSound ==
    [][\A n \in history' \ history :
          nzb'[n].delete_status = "Health" => Hopeless(nzb'[n])]_vars

(* And it does give up: no queued NZB has lost more than can be repaired.  *)
HopelessIsGivenUp == \A n \in Range(queue) : ~Hopeless(nzb[n])

(* An NZB leaves the queue for the history, or because the user removes it.*)
NoNzbIsLost ==
    [][\A n \in Range(queue) \ Range(queue') :
          n \in history' \/ \E m \in NzbIds : RemoveNzb(m)]_vars

(* "Priority::Force ... is always scheduled first": while an NZB of that   *)
(* priority has an article to download in a file below its cap, no article *)
(* of another NZB is dispatched.                                           *)
ForceIsFirst ==
    [][\A a \in ArticleIds :
          active[a] = NoServer /\ active'[a] # NoServer
             /\ nzb[a[1]].priority # ForcePriority
          => \A k \in Dispatchable(Files) : nzb[k[1]].priority # ForcePriority]_vars

(* Every NZB that is not paused leaves the queue, where no command pauses  *)
(* it: for the history, because the user removes it, or on a shutdown.     *)
EventuallyInHistory ==
    \A n \in NzbIds : InQueue(n) /\ ~nzb[n].paused ~> ~InQueue(n) \/ shutdown

(* After a shutdown the worker empties the channel and comes to rest.      *)
ShutdownDrains ==
    shutdown ~> [](pc = "stopped" /\ fetching = {} /\ assignments = <<>>)
=============================================================================
