------------------------ MODULE BackgroundServices ------------------------
(***************************************************************************)
(* The background services that act on the queue from outside: scheduled   *)
(* tasks, the disk space monitor, the quota check of the statistics        *)
(* updater and the history cleanup, beside the commands of the RPC server. *)
(* Each is a task of its own; between two awaits of one, others run.       *)
(***************************************************************************)
EXTENDS Naturals, Sequences, FiniteSets

CONSTANTS
    TaskOptions,    \* [numbers -> [time, weekdays : sequence of <<first, last>>,
                    \* command]]; "Broken": one whose parameter cannot be parsed
    DayMinutes,     \* minutes of a day
    Days,           \* bound: days that pass
    MaxSetBacks,    \* bound: times the clock is set back
    Entries,        \* ids of history entries
    OldEntries,     \* those that are older than KeepHistory
    Never, Idle

Moments == 0..(DayMinutes * Days - 1)

ASSUME ServicesAssumption ==
    /\ DayMinutes \in Nat \ {0} /\ 0 \in Moments
    /\ Never \notin Moments /\ Idle \notin Moments

(* The tasks are numbered from 1 to the first gap; an option that cannot   *)
(* be parsed fails them all, and the program does not start.               *)
parse_weekdays(parts) ==
    IF \A i \in DOMAIN parts : {parts[i][1], parts[i][2]} \subseteq 1..7 /\ parts[i][1] <= parts[i][2]
    THEN UNION {parts[i][1]..parts[i][2] : i \in DOMAIN parts}
    ELSE Never

parse_scheduler_tasks ==
    LET count == CHOOSE n \in 0..Cardinality(DOMAIN TaskOptions) :
                    1..n \subseteq DOMAIN TaskOptions /\ n + 1 \notin DOMAIN TaskOptions
    IN [i \in 1..count |-> [time |-> TaskOptions[i].time,
                            weekdays |-> parse_weekdays(TaskOptions[i].weekdays),
                            command |-> TaskOptions[i].command]]

Tasks == DOMAIN parse_scheduler_tasks

VARIABLES
    now,            \* the wall clock, in minutes
    set_backs,
    last_executed,  \* [Tasks -> Moments or Never]
    tick_now,       \* the clock as the running tick read it, or Idle
    cursor,         \* next task of the running tick
    runs,           \* ghost: [Tasks -> sequence of moments it ran for]
    paused,         \* the queue is paused
    download_paused,    \* the flag that the status shows
    postproc_paused, scan_paused,
    speed_rate,
    low,            \* disk space is below the threshold
    paused_by_us,   \* DiskSpaceMonitor paused
    reached,        \* a quota is set and reached
    quota_paused,   \* the updater paused
    updater, rpc,   \* what they have still to do
    requested,      \* ghost: the last command of a user or task was a pause
    history, listed \* history entries, and those a cleanup still has to look at

taskVars == <<now, set_backs, last_executed, tick_now, cursor, runs>>
flagVars == <<postproc_paused, scan_paused, speed_rate>>
monitorVars == <<low, paused_by_us, reached, quota_paused, updater, rpc>>
queueVars == <<paused, download_paused, requested>>
cleanupVars == <<history, listed>>
serviceVars == <<taskVars, flagVars, monitorVars, queueVars, cleanupVars>>

ServiceInit ==
    /\ \A t \in Tasks : parse_scheduler_tasks[t].weekdays # Never
    /\ now = 0 /\ set_backs = 0 /\ tick_now = Idle /\ cursor = 1
    /\ last_executed = [t \in Tasks |-> Never] /\ runs = [t \in Tasks |-> <<>>]
    /\ paused = FALSE /\ download_paused = FALSE /\ requested = FALSE
    /\ postproc_paused = FALSE /\ scan_paused = FALSE /\ speed_rate = 0
    /\ low = FALSE /\ paused_by_us = FALSE /\ reached = FALSE /\ quota_paused = FALSE
    /\ updater = Idle /\ rpc = Idle
    /\ history = Entries /\ listed = {}
-----------------------------------------------------------------------------
(* The clock: time goes by, and the clock may be set back within a day.    *)
Day(m) == m \div DayMinutes
Weekday(m) == (Day(m) % 7) + 1
TimeOfDay(m) == m % DayMinutes

TimePasses ==
    /\ now + 1 \in Moments /\ now' = now + 1
    /\ UNCHANGED <<set_backs, last_executed, tick_now, cursor, runs, flagVars, monitorVars,
                   queueVars, cleanupVars>>

SetBack ==
    /\ set_backs < MaxSetBacks /\ set_backs' = set_backs + 1
    /\ now' \in {m \in Moments : m < now /\ Day(m) = Day(now)}
    /\ UNCHANGED <<last_executed, tick_now, cursor, runs, flagVars, monitorVars, queueVars,
                   cleanupVars>>
-----------------------------------------------------------------------------
(* Scheduler: a tick twice a minute, which walks the tasks.  The first     *)
(* error ends it.                                                          *)

(* Mutant: the last execution does not count.                              *)
should_execute_again(t, m) ==
    /\ Weekday(m) \in parse_scheduler_tasks[t].weekdays
    /\ TimeOfDay(m) = parse_scheduler_tasks[t].time

should_execute(t, m) ==
    /\ Weekday(m) \in parse_scheduler_tasks[t].weekdays
    /\ TimeOfDay(m) = parse_scheduler_tasks[t].time
    /\ last_executed[t] # m

(* What a command does: the queue has a command channel of its own, the    *)
(* flags are shared.  Activating a server, scanning and extensions change  *)
(* nothing: the application gives the executor no pool and no trigger.     *)
execute(c) ==
    /\ paused' = CASE c = "PauseDownload" -> TRUE [] c = "UnpauseDownload" -> FALSE
                   [] OTHER -> paused
    /\ requested' = CASE c = "PauseDownload" -> TRUE [] c = "UnpauseDownload" -> FALSE
                      [] OTHER -> requested
    /\ postproc_paused' = CASE c = "PausePostProcess" -> TRUE
                            [] c = "UnpausePostProcess" -> FALSE [] OTHER -> postproc_paused
    /\ scan_paused' = CASE c = "PauseScan" -> TRUE [] c = "UnpauseScan" -> FALSE
                        [] OTHER -> scan_paused
    /\ speed_rate' = IF c = "DownloadRate" THEN 1 ELSE speed_rate
    /\ UNCHANGED download_paused

BeginTick ==
    /\ tick_now = Idle /\ tick_now' = now /\ cursor' = 1
    /\ UNCHANGED <<now, set_backs, last_executed, runs, flagVars, monitorVars, queueVars,
                   cleanupVars>>

NextTask ==
    IF cursor = Len(parse_scheduler_tasks) THEN tick_now' = Idle /\ cursor' = 1
    ELSE cursor' = cursor + 1 /\ UNCHANGED tick_now

SkipTask ==
    /\ tick_now # Idle /\ ~should_execute(cursor, tick_now)
    /\ NextTask
    /\ UNCHANGED <<now, set_backs, last_executed, runs, flagVars, monitorVars, queueVars,
                   cleanupVars>>

RunTask ==
    /\ tick_now # Idle /\ should_execute(cursor, tick_now)
    /\ parse_scheduler_tasks[cursor].command # "Broken"
    /\ execute(parse_scheduler_tasks[cursor].command)
    /\ last_executed' = [last_executed EXCEPT ![cursor] = tick_now]
    /\ runs' = [runs EXCEPT ![cursor] = Append(@, tick_now)]
    /\ NextTask
    /\ UNCHANGED <<now, set_backs, monitorVars, cleanupVars>>

TaskFails ==
    /\ tick_now # Idle /\ should_execute(cursor, tick_now)
    /\ parse_scheduler_tasks[cursor].command = "Broken"
    /\ tick_now' = Idle /\ cursor' = 1
    /\ UNCHANGED <<now, set_backs, last_executed, runs, flagVars, monitorVars, queueVars,
                   cleanupVars>>
-----------------------------------------------------------------------------
(* DiskSpaceMonitor.                                                       *)
SpaceChanges ==
    /\ low' = ~low
    /\ UNCHANGED <<paused_by_us, reached, quota_paused, updater, rpc, taskVars, flagVars,
                   queueVars, cleanupVars>>

DiskSpaceLow ==
    /\ low /\ ~paused_by_us
    /\ paused' = TRUE /\ paused_by_us' = TRUE
    /\ UNCHANGED <<low, reached, quota_paused, updater, rpc, taskVars, flagVars,
                   download_paused, requested, cleanupVars>>

(* Mutant: the monitor forgets that it paused, and does not resume.        *)
DiskSpaceForgotten ==
    /\ ~low /\ paused_by_us
    /\ paused_by_us' = FALSE
    /\ UNCHANGED <<paused, low, reached, quota_paused, updater, rpc, taskVars, flagVars,
                   download_paused, requested, cleanupVars>>

DiskSpaceRecovered ==
    /\ ~low /\ paused_by_us
    /\ paused' = FALSE /\ paused_by_us' = FALSE
    /\ UNCHANGED <<low, reached, quota_paused, updater, rpc, taskVars, flagVars,
                   download_paused, requested, cleanupVars>>
-----------------------------------------------------------------------------
(* The updater: first the flag, then the queue.                            *)
QuotaChanges ==
    /\ reached' = ~reached
    /\ UNCHANGED <<low, paused_by_us, quota_paused, updater, rpc, taskVars, flagVars,
                   queueVars, cleanupVars>>

QuotaReached ==
    /\ updater = Idle /\ reached /\ ~quota_paused
    /\ download_paused' = TRUE /\ updater' = "Pause"
    /\ UNCHANGED <<low, paused_by_us, reached, quota_paused, rpc, taskVars, flagVars,
                   paused, requested, cleanupVars>>

QuotaReset ==
    /\ updater = Idle /\ ~reached /\ quota_paused
    /\ download_paused' = FALSE /\ updater' = "Resume"
    /\ UNCHANGED <<low, paused_by_us, reached, quota_paused, rpc, taskVars, flagVars,
                   paused, requested, cleanupVars>>

UpdateQueue ==
    /\ updater # Idle
    /\ paused' = (updater = "Pause") /\ quota_paused' = (updater = "Pause")
    /\ updater' = Idle
    /\ UNCHANGED <<low, paused_by_us, reached, rpc, taskVars, flagVars, download_paused,
                   requested, cleanupVars>>
-----------------------------------------------------------------------------
(* RPC: first the queue, then the flag.                                    *)
rpc_pausedownload ==
    /\ rpc = Idle /\ paused' = TRUE /\ requested' = TRUE /\ rpc' = "Paused"
    /\ UNCHANGED <<low, paused_by_us, reached, quota_paused, updater, taskVars, flagVars,
                   download_paused, cleanupVars>>

rpc_resumedownload ==
    /\ rpc = Idle /\ paused' = FALSE /\ requested' = FALSE /\ rpc' = "Resumed"
    /\ UNCHANGED <<low, paused_by_us, reached, quota_paused, updater, taskVars, flagVars,
                   download_paused, cleanupVars>>

RpcSetsFlag ==
    /\ rpc # Idle /\ download_paused' = (rpc = "Paused") /\ rpc' = Idle
    /\ UNCHANGED <<low, paused_by_us, reached, quota_paused, updater, taskVars, flagVars,
                   paused, requested, cleanupVars>>
-----------------------------------------------------------------------------
(* HistoryCleanup lists the history, then deletes what is old of the list, *)
(* one command at a time; a user may have returned an entry meanwhile, and *)
(* the delete then fails.                                                  *)
ListHistory ==
    /\ listed = {} /\ history # {} /\ listed' = history
    /\ UNCHANGED <<history, taskVars, flagVars, monitorVars, queueVars>>

CleanEntry(e) ==
    /\ e \in listed /\ listed' = listed \ {e}
    /\ history' = IF e \in OldEntries THEN history \ {e} ELSE history
    /\ UNCHANGED <<taskVars, flagVars, monitorVars, queueVars>>

UserReturns(e) ==
    /\ e \in history /\ history' = history \ {e}
    /\ UNCHANGED <<listed, taskVars, flagVars, monitorVars, queueVars>>

Cleanup ==
    \/ ListHistory
    \/ \E e \in Entries : CleanEntry(e) \/ UserReturns(e)

ServiceStep ==
    \/ TimePasses \/ SetBack \/ BeginTick \/ SkipTask \/ RunTask \/ TaskFails
    \/ SpaceChanges \/ DiskSpaceLow \/ DiskSpaceRecovered
    \/ QuotaChanges \/ QuotaReached \/ QuotaReset \/ UpdateQueue
    \/ rpc_pausedownload \/ rpc_resumedownload \/ RpcSetsFlag
-----------------------------------------------------------------------------
(* A task runs at most once for a minute of the clock: not at the second   *)
(* tick of the minute, not when an earlier task failed and the tick is     *)
(* tried again, and not when the clock is set back.                        *)
TaskRunsOncePerMinute ==
    \A t \in Tasks : \A i, j \in DOMAIN runs[t] : runs[t][i] = runs[t][j] => i = j

(* A paused queue has somebody who asked for it or who will resume it, in  *)
(* whatever order pauses and resumptions of the four parties come.         *)
PauseHasAnOwner ==
    paused => requested \/ paused_by_us \/ quota_paused
=============================================================================
