---------------------------- MODULE StatusViews ----------------------------
(***************************************************************************)
(* What clients are shown of an NZB: the rows of listgroups, listfiles and *)
(* history, and what status sums up.  The coordinator updates the NZB      *)
(* while it downloads; the post-processor, its progress poller and the     *)
(* extensions report to it through its inbox, in the order of sending;     *)
(* the user marks it, and has it returned, processed or downloaded again.  *)
(* One NZB is followed under the ids it is given.                          *)
(***************************************************************************)
EXTENDS Integers, SequencesExt, FiniteSetsExt, Selection

CONSTANTS
    Arts,           \* articles
    ArtFile,        \* [Arts -> files]
    ArtSize,        \* [Arts -> Nat], bytes
    Tolerated,      \* failed articles the health stands
    ScriptDir,      \* directory entries: sequence of [file, executable : BOOLEAN]
    ReportCap,      \* what the coordinator's inbox has room for
    MaxViewId       \* bound on the ids given out

ASSUME ViewAssumption ==
    /\ IsFiniteSet(Arts) /\ Arts # {} /\ ArtSize \in [Arts -> Nat] /\ Tolerated \in Nat
    /\ ScriptDir \in Seq([file : BOOLEAN, executable : BOOLEAN])

VARIABLES
    place,          \* "queue", "history" or "gone"
    nzb,          \* NzbInfo
    in_flight,      \* active_downloads: set of <<id, article>>
    inbox,          \* the post-processor's reports
    job,            \* what the post-processor is at
    pollers,        \* [stages with a poller -> [state : "off", "asleep", "woken" or "sent", id]]
    truth           \* ghost: what befell the NZB since it was added or reset

viewVars == <<place, nzb, in_flight, inbox, job, pollers, truth>>

ViewFiles == {ArtFile[a] : a \in Arts}
SizeOf(arts) == MapThenSumSet(LAMBDA a : ArtSize[a], arts)
OfFile(f) == {a \in Arts : ArtFile[a] = f}
-----------------------------------------------------------------------------
(* Post-processing.                                                        *)
Stages == <<"Queued", "ParRenaming", "ParVerifying", "ParRepairing", "Unpacking", "Moving",
            "Executing">>
Polled == {"ParVerifying", "ParRepairing"}

NoRun == [par |-> "None", unpack |-> "None", move |-> "None", told |-> "None", ran |-> <<>>]
NoJob == [id |-> 0, at |-> "none", run |-> NoRun]
Notified(id) == [id |-> id, at |-> "notified", run |-> NoRun]
NoPoller == [state |-> "off", id |-> 0]
NoStatuses == [par |-> "None", unpack |-> "None", move |-> "None"]

(* Programs of the script directory, in the order it lists them.           *)
scan_script_dir ==
    Selected([i \in DOMAIN ScriptDir |-> i],
             {i \in DOMAIN ScriptDir : ScriptDir[i].file /\ ScriptDir[i].executable})

ParStatusOf(result) ==
    CASE result \in {"AllFilesOk", "RepairComplete"} -> "Success"
      [] result \in {"RepairNeeded", "RepairFailed"} -> "Failure"
      [] result = "None" -> "None"

(* An NZB of the queue: as it was added, or as it was restored.            *)
NewEntry(id, done) ==
    [id |-> id, paused |-> FALSE, stage |-> "None", progress |-> FALSE,
     statuses |-> NoStatuses, delete |-> "None", mark |-> "None",
     arts |-> [a \in Arts |-> IF a \in done THEN "finished" ELSE "undefined"],
     file_remaining |-> [f \in ViewFiles |-> SizeOf(OfFile(f) \ done)],
     completed |-> {f \in ViewFiles : OfFile(f) \subseteq done},
     remaining |-> SizeOf(Arts \ done), success |-> SizeOf(done), failed_articles |-> 0]

NothingYet == [run |-> NoRun, health |-> FALSE, mark |-> "None"]

ViewInit ==
    /\ place = "queue"
    /\ \E done \in {{}, {CHOOSE a \in Arts : TRUE}} : nzb = NewEntry(1, done)
    /\ in_flight = {} /\ inbox = <<>> /\ job = NoJob
    /\ pollers = [s \in Polled |-> NoPoller]
    /\ truth = NothingYet

Pipeline == <<inbox, job, pollers>>
-----------------------------------------------------------------------------
(* Downloading.                                                            *)
AssignArticle(a) ==
    /\ place = "queue" /\ nzb.stage = "None" /\ ~nzb.paused
    /\ nzb.arts[a] = "undefined"
    /\ nzb' = [nzb EXCEPT !.arts[a] = "running"]
    /\ in_flight' = in_flight \union {<<nzb.id, a>>}
    /\ UNCHANGED <<place, Pipeline, truth>>

SettledEntry(a, outcome) ==
    [nzb EXCEPT !.arts[a] = outcome,
        !.file_remaining[ArtFile[a]] = @ - ArtSize[a], !.remaining = @ - ArtSize[a],
        !.success = IF outcome = "finished" THEN @ + ArtSize[a] ELSE @,
        !.failed_articles = IF outcome = "failed" THEN @ + 1 ELSE @]

(* check_file_completion, check_nzb_completion.                            *)
Completed(z) ==
    [z EXCEPT !.completed = @ \union
        {f \in ViewFiles : \A a \in OfFile(f) : z.arts[a] \in {"finished", "failed"}}]
QueuedForPost(z) == [z EXCEPT !.stage = "Queued", !.progress = FALSE]

(* A result of an id the NZB had before, or of an NZB that is no longer    *)
(* queued, counts for nothing.                                             *)
ArticleSettled(id, a, outcome) ==
    /\ <<id, a>> \in in_flight /\ in_flight' = in_flight \ {<<id, a>>}
    /\ IF place # "queue" \/ id # nzb.id
       THEN UNCHANGED <<place, nzb, Pipeline, truth>>
       ELSE LET z == SettledEntry(a, outcome)
                done == Completed(z)
            IN IF z.failed_articles > Tolerated
               THEN /\ place' = "history" /\ nzb' = [z EXCEPT !.delete = "Health"]
                    /\ truth' = [truth EXCEPT !.health = TRUE]
                    /\ UNCHANGED Pipeline
               ELSE IF done.completed = ViewFiles
               THEN /\ nzb' = QueuedForPost(done) /\ job' = Notified(nzb.id)
                    /\ UNCHANGED <<place, inbox, pollers, truth>>
               ELSE nzb' = done /\ UNCHANGED <<place, Pipeline, truth>>
-----------------------------------------------------------------------------
(* The post-processor.  Its reports are sent, when there is room, and not  *)
(* waited for.                                                             *)
Room == Len(inbox) < ReportCap
StageReport(stage) == [kind |-> "stage", id |-> job.id, stage |-> stage]
DoneReport(run) == [kind |-> "done", id |-> job.id, run |-> run]

Stopped(stage) == [pollers EXCEPT ![stage] = IF @.state = "woken" THEN @ ELSE NoPoller]

(* From one stage to another, with what the stage came to.                 *)
Proceed(from, to, run) ==
    /\ job.at = from /\ Room
    /\ job' = [job EXCEPT !.at = to, !.run = run]
    /\ inbox' = Append(inbox, StageReport(to))
    /\ LET stopped == IF from \in Polled THEN Stopped(from) ELSE pollers
       IN pollers' = IF to \in Polled THEN [stopped EXCEPT ![to] = [state |-> "asleep", id |-> job.id]]
                     ELSE stopped
    /\ UNCHANGED <<place, nzb, in_flight, truth>>

Finish(from, run) ==
    /\ job.at = from /\ Room
    /\ job' = NoJob /\ inbox' = Append(inbox, DoneReport(run))
    /\ truth' = [truth EXCEPT !.run = run]
    /\ UNCHANGED <<place, nzb, in_flight, pollers>>

process ==
    \/ Proceed("notified", "Queued", job.run)
    \/ Proceed("Queued", "ParRenaming", job.run)
    \/ Proceed("ParRenaming", "ParVerifying", job.run)
    \/ Proceed("ParVerifying", "ParRepairing", [job.run EXCEPT !.par = "RepairNeeded"])
    \/ \E result \in {"AllFilesOk", "None"} :
          Proceed("ParVerifying", "Unpacking", [job.run EXCEPT !.par = result])
    \/ \E result \in {"RepairComplete", "RepairFailed", "RepairNeeded"} :
          Proceed("ParRepairing", "Unpacking", [job.run EXCEPT !.par = result])
    \/ \E result \in {"Success", "Failure", "Password"} :
          Proceed("Unpacking", "Moving", [job.run EXCEPT !.unpack = result])
    \/ \E result \in {"Success", "Failure"} :
          LET run == [job.run EXCEPT !.move = result]
          IN IF scan_script_dir = <<>> THEN Finish("Moving", run)
             ELSE Proceed("Moving", "Executing", [run EXCEPT !.told = ParStatusOf(run.par)])

(* One script after another, whatever they return.                         *)
run_extensions ==
    LET ran == job.run.ran
        next == scan_script_dir[Len(ran) + 1]
        run == [job.run EXCEPT !.ran = Append(ran, next)]
    IN /\ job.at = "Executing"
       /\ IF Len(run.ran) = Len(scan_script_dir) THEN Finish("Executing", run)
          ELSE /\ job' = [job EXCEPT !.run = run]
               /\ UNCHANGED <<place, nzb, in_flight, inbox, pollers, truth>>

(* A poller that has woken is not stopped before it has sent: what it      *)
(* sends may come after the report of the next stage.                      *)
PollerWakes(stage) ==
    /\ pollers[stage].state = "asleep" /\ pollers' = [pollers EXCEPT ![stage].state = "woken"]
    /\ UNCHANGED <<place, nzb, in_flight, inbox, job, truth>>

PollerSends(stage) ==
    /\ pollers[stage].state = "woken" /\ Room
    /\ pollers' = [pollers EXCEPT ![stage] =
                      IF job.at = stage /\ job.id = @.id THEN [@ EXCEPT !.state = "sent"]
                      ELSE NoPoller]
    /\ inbox' = Append(inbox, [kind |-> "progress", id |-> pollers[stage].id])
    /\ UNCHANGED <<place, nzb, in_flight, job, truth>>
-----------------------------------------------------------------------------
(* The coordinator takes the reports.  Those of an NZB that is not in the  *)
(* queue change nothing.                                                   *)
update_post_stage(stage) == [nzb EXCEPT !.stage = stage, !.progress = FALSE]
update_post_progress == [nzb EXCEPT !.progress = (nzb.stage # "None")]

FinishedEntry(run) ==
    [nzb EXCEPT !.stage = "None", !.progress = FALSE,
        !.statuses = [par |-> ParStatusOf(run.par), unpack |-> run.unpack, move |-> run.move]]

TakeReport ==
    /\ inbox # <<>> /\ inbox' = Tail(inbox)
    /\ LET report == Head(inbox) IN
       IF place # "queue" \/ report.id # nzb.id THEN UNCHANGED <<place, nzb>>
       ELSE CASE report.kind = "stage" ->
                    nzb' = update_post_stage(report.stage) /\ UNCHANGED place
              [] report.kind = "progress" -> nzb' = update_post_progress /\ UNCHANGED place
              [] report.kind = "done" ->
                    nzb' = FinishedEntry(report.run) /\ place' = "history"
    /\ UNCHANGED <<in_flight, job, pollers, truth>>
-----------------------------------------------------------------------------
(* The user.                                                               *)
PauseGroup ==
    /\ place = "queue" /\ nzb' = [nzb EXCEPT !.paused = TRUE]
    /\ UNCHANGED <<place, in_flight, Pipeline, truth>>

DeleteGroup ==
    /\ place = "queue" /\ place' = "gone" /\ nzb' = NewEntry(nzb.id, {})
    /\ UNCHANGED <<in_flight, Pipeline, truth>>

FromHistory(z) ==
    /\ place = "history" /\ nzb.id < MaxViewId /\ place' = "queue"
    /\ nzb' = [z EXCEPT !.id = @ + 1, !.paused = FALSE]
    /\ UNCHANGED <<in_flight, inbox, pollers>>

(* All statuses stay, those of a failed health and of a mark too.          *)
history_return == FromHistory(nzb) /\ UNCHANGED <<job, truth>>

Unjudged(z) == [z EXCEPT !.statuses = NoStatuses, !.delete = "None", !.mark = "None"]

history_process ==
    /\ FromHistory(QueuedForPost([Unjudged(nzb) EXCEPT !.completed = ViewFiles]))
    /\ job' = Notified(nzb.id + 1) /\ truth' = NothingYet

(* Mutant: the statuses of the failed download stay.                       *)
RedownloadedJudged(z) ==
    [z EXCEPT !.arts = [a \in Arts |-> "undefined"], !.completed = {},
        !.file_remaining = [f \in ViewFiles |-> SizeOf(OfFile(f))],
        !.remaining = SizeOf(Arts), !.success = 0, !.failed_articles = 0]

RedownloadedEntry(z) ==
    [Unjudged(z) EXCEPT !.arts = [a \in Arts |-> "undefined"], !.completed = {},
        !.file_remaining = [f \in ViewFiles |-> SizeOf(OfFile(f))],
        !.remaining = SizeOf(Arts), !.success = 0, !.failed_articles = 0]

history_redownload ==
    FromHistory(RedownloadedEntry(nzb)) /\ truth' = NothingYet /\ UNCHANGED job

history_mark(mark) ==
    /\ place = "history"
    /\ nzb' = [nzb EXCEPT !.mark = mark] /\ truth' = [truth EXCEPT !.mark = mark]
    /\ UNCHANGED <<place, in_flight, Pipeline>>
-----------------------------------------------------------------------------
(* The views.                                                              *)
GetStatus == IF place = "queue" THEN nzb.remaining ELSE 0

(* What the coordinator hands out of an NZB of the queue, of its files,    *)
(* and of one of the history.                                              *)
build_snapshot ==
    [stage |-> nzb.stage, paused |-> nzb.paused, progress |-> nzb.progress,
     total_size |-> SizeOf(Arts), downloaded_size |-> nzb.success,
     active_downloads |-> Cardinality({d \in in_flight : d[1] = nzb.id})]

build_file_list ==
    [f \in ViewFiles |-> [size |-> SizeOf(OfFile(f)), remaining_size |-> nzb.file_remaining[f]]]

build_history_list ==
    [par_status |-> nzb.statuses.par, unpack_status |-> nzb.statuses.unpack,
     move_status |-> nzb.statuses.move, delete_status |-> nzb.delete,
     mark_status |-> nzb.mark, script_status |-> "None"]

rpc_listgroups ==
    LET entry == build_snapshot
    IN [status |-> CASE entry.stage # "None" -> entry.stage
                     [] entry.stage = "None" /\ entry.paused -> "PAUSED"
                     [] entry.stage = "None" /\ ~entry.paused /\ entry.active_downloads > 0 ->
                            "DOWNLOADING"
                     [] OTHER -> "QUEUED",
        remaining_size |-> entry.total_size - entry.downloaded_size,
        progress |-> entry.progress, active_downloads |-> entry.active_downloads]

rpc_listfiles == [f \in ViewFiles |-> build_file_list[f].remaining_size]

(* The first that applies.                                                 *)
format_history_status ==
    LET entry == build_history_list
        applies ==
            <<[when |-> entry.mark_status = "Bad", text |-> "FAILURE/BAD"],
              [when |-> entry.mark_status = "Good", text |-> "SUCCESS/GOOD"],
              [when |-> entry.mark_status = "Success", text |-> "SUCCESS/MARK"],
              [when |-> entry.delete_status = "Health", text |-> "FAILURE/HEALTH"],
              [when |-> entry.par_status = "Failure", text |-> "FAILURE/PAR"],
              [when |-> entry.unpack_status = "Failure", text |-> "FAILURE/UNPACK"],
              [when |-> entry.move_status = "Failure", text |-> "FAILURE/MOVE"],
              [when |-> entry.unpack_status = "Password", text |-> "WARNING/PASSWORD"],
              [when |-> entry.unpack_status = "Success", text |-> "SUCCESS/UNPACK"],
              [when |-> entry.par_status = "Success", text |-> "SUCCESS/PAR"],
              [when |-> TRUE, text |-> "SUCCESS/HEALTH"]>>
    IN applies[SelectInSeq(applies, LAMBDA row : row.when)].text

rpc_history ==
    [status |-> format_history_status, par_status |-> build_history_list.par_status,
     script_status |-> build_history_list.script_status]
-----------------------------------------------------------------------------
ViewNext ==
    \/ \E a \in Arts : AssignArticle(a)
    \/ \E d \in in_flight, outcome \in {"finished", "failed"} : ArticleSettled(d[1], d[2], outcome)
    \/ process \/ run_extensions
    \/ \E s \in Polled : PollerWakes(s) \/ PollerSends(s)
    \/ TakeReport
    \/ PauseGroup \/ DeleteGroup \/ history_return \/ history_process \/ history_redownload
    \/ \E mark \in {"Good", "Bad", "Success"} : history_mark(mark)

(* A stop and a start: what is not downloaded is to be downloaded; the     *)
(* history is restored without the statuses, which are not saved.          *)
RestartViews ==
    /\ place \in {"queue", "history"} /\ job = NoJob /\ inbox = <<>>
    /\ in_flight' = {}
    /\ nzb' = IF place = "queue"
                THEN NewEntry(nzb.id, {a \in Arts : nzb.arts[a] = "finished"})
                ELSE Unjudged(nzb)
    /\ UNCHANGED <<place, Pipeline, truth>>
-----------------------------------------------------------------------------
(* What a row of the history says is what became of the NZB: the last mark *)
(* of the user, or that its health failed, or else what the stages of its  *)
(* last post-processing came to; a success only if no stage found fault,   *)
(* all scripts were run, and they were told of the PAR2 files what the row *)
(* shows.  A post-processing that could not verify is no fault.            *)
MarkText == [Good |-> "SUCCESS/GOOD", Bad |-> "FAILURE/BAD", Success |-> "SUCCESS/MARK"]
Successes == {"SUCCESS/UNPACK", "SUCCESS/PAR", "SUCCESS/HEALTH"}

HistoryIsTrue ==
    place = "history" =>
        LET shown == rpc_history.status
            run == truth.run
        IN IF truth.mark # "None" THEN shown = MarkText[truth.mark]
           ELSE IF truth.health THEN shown = "FAILURE/HEALTH"
           ELSE /\ shown \in Successes <=>
                      /\ run.par \in {"AllFilesOk", "RepairComplete", "None"}
                      /\ run.unpack = "Success" /\ run.move = "Success"
                /\ run.ran = scan_script_dir
                /\ scan_script_dir # <<>> => run.told = rpc_history.par_status

(* A group shows a stage only while a post-processing of its own is under  *)
(* way that has come this far, and no article of it is downloaded then.    *)
RankOf(stage) == IF stage \in Range(Stages) THEN CHOOSE i \in DOMAIN Stages : Stages[i] = stage
                 ELSE 0
Finishing == \E i \in DOMAIN inbox : inbox[i].kind = "done" /\ inbox[i].id = nzb.id

StageIsTrue ==
    place = "queue" /\ (nzb.stage # "None" \/ nzb.progress) =>
        /\ rpc_listgroups.active_downloads = 0
        /\ \/ Finishing
           \/ job.id = nzb.id /\ RankOf(rpc_listgroups.status) <= 1 + RankOf(job.at)

(* The sizes agree, whatever was downloaded, failed, and was begun again:  *)
(* the files' rests are the rest of the group without what failed, and     *)
(* what status says.                                                       *)
SizesAgree ==
    place = "queue" =>
        LET failed == SizeOf({a \in Arts : nzb.arts[a] = "failed"})
            rests == MapThenSumSet(LAMBDA f : rpc_listfiles[f], ViewFiles)
        IN rests = rpc_listgroups.remaining_size - failed /\ rests = GetStatus

ShownAsItIs == HistoryIsTrue /\ StageIsTrue /\ SizesAgree
=============================================================================
