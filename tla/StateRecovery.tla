--------------------------- MODULE StateRecovery ---------------------------
(***************************************************************************)
(* What bergamot keeps on disk and what a restart makes of it: NZBs taken  *)
(* from the NZB directory and from the append call, the periodic flush of  *)
(* the queue, the save of an orderly stop, crashes between any two steps   *)
(* of these, and restore_queue.  Every NZB has one file.  The queue itself *)
(* is QueueCoordinator; here an article is done or not, a failed one being *)
(* kept on disk like one that was never tried.                             *)
(*                                                                         *)
(* atomic_write leaves the old file or the new one, so a save is one step. *)
(***************************************************************************)
EXTENDS Naturals, FiniteSets

CONSTANTS
    Sources,    \* NZBs, by the name that is their duplicate key
    NoSource,
    Articles,   \* articles of an NZB
    Ingesters,  \* "scanner", and "append" for the call of the API
    MaxId,      \* bound on the ids given out
    MaxRuns     \* bound on the times the program is started

ASSUME RecoveryAssumption == MaxId \in Nat \ {0}

Ids == 1..MaxId
NoDir == 0      \* an empty path

VARIABLES
    phase,          \* "down", "up" or "saved"
    run,            \* times the program was started
    queue,          \* NZBs in the queue
    history,        \* NZBs in the history
    next_nzb_id, next_file_id,
    ingest,         \* what the directory scanner and append are at
    flush,          \* the save under way
    inbox,          \* sources still named *.nzb in the directory
    disk_queue,     \* queue.json
    disk_history,   \* history.json
    nzb_files,      \* nzb/{id}.nzb
    file_states     \* file/{id}.state

memory == <<queue, history, next_nzb_id, next_file_id>>
disk == <<disk_queue, disk_history, nzb_files, file_states>>
vars == <<phase, run, memory, ingest, flush, inbox, disk>>
-----------------------------------------------------------------------------
(* NZB: id, the id of its file (0 when it has none), its name, the source  *)
(* its articles are of, the run that took it, done articles, whether       *)
(* post-processing was asked for, and temp_dir.                            *)

(* What queue.json keeps of an NZB, and its article states.                *)
Kept(z) == [id |-> z.id, file |-> z.file, src |-> z.src, run |-> z.run]
OwnerOf(z) == <<z.run, z.id>>
NoState == [owner |-> <<0, 0>>, done |-> {}]
StateOf(z) == [owner |-> OwnerOf(z), done |-> z.done]

(* Downloads under way are forgotten; ids start at 1.                      *)
EmptyQueue == [nzbs |-> {}, next_nzb_id |-> 1, next_file_id |-> 1]

NotSaving == [step |-> "idle", stop |-> FALSE, queue |-> EmptyQueue,
              history |-> {}, states |-> {}]
NotIngesting == [step |-> "idle", id |-> 0, src |-> NoSource]

Init ==
    /\ phase = "down" /\ run = 0
    /\ queue = {} /\ history = {} /\ next_nzb_id = 1 /\ next_file_id = 1
    /\ ingest = [i \in Ingesters |-> NotIngesting]
    /\ flush = NotSaving
    /\ inbox = Sources
    /\ disk_queue = EmptyQueue /\ disk_history = {}
    /\ nzb_files = [i \in Ids |-> NoSource]
    /\ file_states = [f \in Ids |-> NoState]
-----------------------------------------------------------------------------
(* Taking an NZB: queued, then its content saved under its id, then, by    *)
(* the scanner, the source renamed.                                        *)

Running == phase \in {"up", "saved"}
ScannerRuns == phase = "up" /\ ~flush.stop

Duplicate(s) == \E z \in queue \union history : z.src = s

MayStart(i, s) ==
    /\ ingest[i].step = "idle"
    /\ IF i = "scanner" THEN ScannerRuns /\ s \in inbox ELSE Running
    /\ next_nzb_id < MaxId /\ next_file_id < MaxId

IngestNzb(i, s) ==
    /\ MayStart(i, s) /\ ~Duplicate(s)
    /\ queue' = queue \union
          {[id |-> next_nzb_id, file |-> next_file_id, src |-> s, content |-> s, run |-> run,
            done |-> {}, post |-> FALSE, dir |-> next_nzb_id]}
    /\ next_nzb_id' = next_nzb_id + 1 /\ next_file_id' = next_file_id + 1
    /\ ingest' = [ingest EXCEPT ![i] = [step |-> "save", id |-> next_nzb_id, src |-> s]]
    /\ UNCHANGED <<phase, run, history, flush, inbox, disk>>

(* A duplicate uses up an id; the source stays where it is.                *)
RejectDuplicate(i, s) ==
    /\ MayStart(i, s) /\ Duplicate(s)
    /\ next_nzb_id' = next_nzb_id + 1
    /\ UNCHANGED <<phase, run, queue, history, next_file_id, ingest, flush, inbox, disk>>

(* A save that fails is only logged.                                       *)
SaveNzbFile(i) ==
    /\ Running /\ ingest[i].step = "save"
    /\ \/ nzb_files' = [nzb_files EXCEPT ![ingest[i].id] = ingest[i].src]
       \/ UNCHANGED nzb_files
    /\ ingest' = [ingest EXCEPT ![i] =
          IF i = "scanner" THEN [@ EXCEPT !.step = "rename"] ELSE NotIngesting]
    /\ UNCHANGED <<phase, run, memory, flush, inbox, disk_queue, disk_history, file_states>>

RenameSource ==
    /\ Running /\ ingest["scanner"].step = "rename"
    /\ inbox' = inbox \ {ingest["scanner"].src}
    /\ ingest' = [ingest EXCEPT !["scanner"] = NotIngesting]
    /\ UNCHANGED <<phase, run, memory, flush, disk>>
-----------------------------------------------------------------------------
(* The coordinator.                                                        *)

Replace(z, y) == (queue \ {z}) \union {y}

(* A result arrives; the last one sends the NZB to post-processing.        *)
DownloadComplete(z, a) ==
    /\ Running /\ z \in queue /\ z.file # 0 /\ a \in Articles \ z.done /\ ~z.post
    /\ queue' = Replace(z, [z EXCEPT !.done = @ \union {a},
                                     !.post = (Articles \subseteq z.done \union {a})])
    /\ UNCHANGED <<phase, run, history, next_nzb_id, next_file_id, ingest, flush, inbox, disk>>

FinishPostProcessing(z) ==
    /\ Running /\ z \in queue /\ z.post
    /\ queue' = queue \ {z} /\ history' = history \union {z}
    /\ UNCHANGED <<phase, run, next_nzb_id, next_file_id, ingest, flush, inbox, disk>>

(* The NZB comes back under a new id, for which no NZB file is saved; its  *)
(* temp_dir still names the old one.                                       *)
HistoryRedownload(z) ==
    /\ Running /\ z \in history /\ next_nzb_id < MaxId
    /\ history' = history \ {z}
    /\ queue' = queue \union {[z EXCEPT !.id = next_nzb_id, !.run = run, !.done = {}, !.post = FALSE]}
    /\ next_nzb_id' = next_nzb_id + 1
    /\ UNCHANGED <<phase, run, next_file_id, ingest, flush, inbox, disk>>

HistoryDelete(z) ==
    /\ Running /\ z \in history
    /\ history' = history \ {z}
    /\ UNCHANGED <<phase, run, queue, next_nzb_id, next_file_id, ingest, flush, inbox, disk>>

DeleteNzb(z) ==
    /\ Running /\ z \in queue
    /\ queue' = queue \ {z}
    /\ UNCHANGED <<phase, run, history, next_nzb_id, next_file_id, ingest, flush, inbox, disk>>
-----------------------------------------------------------------------------
(* DiskStateFlush and the save of an orderly stop: a snapshot of the       *)
(* queue, then the article states, then one file after the other.          *)

QueueSnapshot ==
    [nzbs |-> {Kept(z) : z \in queue},
     next_nzb_id |-> next_nzb_id, next_file_id |-> next_file_id]

TakeSnapshot(stop) ==
    /\ flush.step = "idle"
    /\ flush' = [step |-> "states", stop |-> stop, queue |-> QueueSnapshot,
                 history |-> history, states |-> {}]
    /\ UNCHANGED <<run, memory, ingest, inbox, disk>>

FlushTick == phase = "up" /\ TakeSnapshot(FALSE) /\ UNCHANGED phase

(* shutdown_services has waited for the scanner and the flush.             *)
StopSnapshot ==
    /\ phase = "up" /\ ("scanner" \in Ingesters => ingest["scanner"].step = "idle")
    /\ TakeSnapshot(TRUE) /\ UNCHANGED phase

(* Files without a finished article have no state.                         *)
build_all_file_article_states ==
    {[file |-> z.file, state |-> StateOf(z)] : z \in {y \in queue : y.done # {}}}

TakeStates ==
    /\ Running /\ flush.step = "states"
    /\ flush' = [flush EXCEPT !.step = "queue", !.states = build_all_file_article_states]
    /\ UNCHANGED <<phase, run, memory, ingest, inbox, disk>>

SaveQueue ==
    /\ Running /\ flush.step = "queue"
    /\ disk_queue' = flush.queue
    /\ flush' = [flush EXCEPT !.step = "history"]
    /\ UNCHANGED <<phase, run, memory, ingest, inbox, disk_history, nzb_files, file_states>>

(* Mutant: the history as it is by now, newer than the queue's snapshot.   *)
SaveHistoryNow ==
    /\ Running /\ flush.step = "history"
    /\ disk_history' = history
    /\ flush' = [flush EXCEPT !.step = "files"]
    /\ UNCHANGED <<phase, run, memory, ingest, inbox, disk_queue, nzb_files, file_states>>

SaveHistory ==
    /\ Running /\ flush.step = "history"
    /\ disk_history' = flush.history
    /\ flush' = [flush EXCEPT !.step = "files"]
    /\ UNCHANGED <<phase, run, memory, ingest, inbox, disk_queue, nzb_files, file_states>>

SaveFileState(s) ==
    /\ Running /\ flush.step = "files" /\ s \in flush.states
    /\ file_states' = [file_states EXCEPT ![s.file] = s.state]
    /\ flush' = [flush EXCEPT !.states = @ \ {s}]
    /\ UNCHANGED <<phase, run, memory, ingest, inbox, disk_queue, disk_history, nzb_files>>

(* The states of files the snapshot does not have are deleted, except when *)
(* the program stops.                                                      *)
ActiveFiles == {z.file : z \in flush.queue.nzbs}

SweepStates ==
    /\ Running /\ flush.step = "files" /\ flush.states = {}
    /\ file_states' = IF flush.stop THEN file_states
                      ELSE [f \in Ids |-> IF f \in ActiveFiles THEN file_states[f] ELSE NoState]
    /\ flush' = NotSaving
    /\ phase' = IF flush.stop THEN "saved" ELSE phase
    /\ UNCHANGED <<run, memory, ingest, inbox, disk_queue, disk_history, nzb_files>>

(* A save that fails ends the tick, or the stop's saving.                  *)
SaveFails ==
    /\ Running /\ flush.step \in {"queue", "history", "files"}
    /\ flush' = NotSaving
    /\ phase' = IF flush.stop THEN "saved" ELSE phase
    /\ UNCHANGED <<run, memory, ingest, inbox, disk>>
-----------------------------------------------------------------------------
(* Exit, crash and restart.                                                *)

Down ==
    /\ phase' = "down"
    /\ queue' = {} /\ history' = {} /\ next_nzb_id' = 1 /\ next_file_id' = 1
    /\ ingest' = [i \in Ingesters |-> NotIngesting] /\ flush' = NotSaving
    /\ UNCHANGED <<run, inbox, disk>>

Exit == phase = "saved" /\ Down
Crash == Running /\ Down

(* NZBs whose NZB file is missing are skipped; an article is done when the *)
(* state of its file says so.  No directory is restored, and no download   *)
(* will report an NZB complete that already is.  What the NZB file holds   *)
(* is what is downloaded, whatever NZB had that id when it was saved.      *)
Loadable == {k \in disk_queue.nzbs : nzb_files[k.id] # NoSource}
Fileless == {k \in Loadable : k.file = 0}
FileOf(k) ==
    IF k.file # 0 THEN k.file
    ELSE disk_queue.next_file_id + Cardinality({y \in Fileless : y.id < k.id})

(* Mutant of Restored: article states are not read.                        *)
RestoredFresh(k) ==
    [id |-> k.id, file |-> FileOf(k), src |-> k.src, content |-> nzb_files[k.id],
     run |-> k.run, done |-> {}, post |-> FALSE, dir |-> NoDir]

Restored(k) ==
    [id |-> k.id, file |-> FileOf(k), src |-> k.src, content |-> nzb_files[k.id],
     run |-> k.run, done |-> file_states[FileOf(k)].done, post |-> FALSE, dir |-> NoDir]

(* The history keeps no files.                                             *)
RestoredHistory(z) == [z EXCEPT !.file = 0, !.done = {}, !.dir = NoDir]

Restart ==
    /\ phase = "down" /\ run < MaxRuns
    /\ phase' = "up" /\ run' = run + 1
    /\ queue' = {Restored(k) : k \in Loadable}
    /\ history' = {RestoredHistory(z) : z \in disk_history}
    /\ next_nzb_id' = disk_queue.next_nzb_id
    /\ next_file_id' = disk_queue.next_file_id + Cardinality(Fileless)
    /\ UNCHANGED <<ingest, flush, inbox, disk>>
-----------------------------------------------------------------------------
Next ==
    \/ \E i \in Ingesters, s \in Sources : IngestNzb(i, s) \/ RejectDuplicate(i, s)
    \/ \E i \in Ingesters : SaveNzbFile(i)
    \/ RenameSource
    \/ \E z \in queue, a \in Articles : DownloadComplete(z, a)
    \/ \E z \in queue : FinishPostProcessing(z) \/ DeleteNzb(z)
    \/ \E z \in history : HistoryRedownload(z) \/ HistoryDelete(z)
    \/ FlushTick \/ TakeStates \/ SaveQueue \/ SaveHistory
    \/ \E s \in flush.states : SaveFileState(s)
    \/ SweepStates \/ SaveFails
    \/ StopSnapshot \/ Exit \/ Crash \/ Restart

Spec == Init /\ [][Next]_vars

(* The program is started again, downloads and a save under way go on,     *)
(* post-processing and an orderly stop end.                                *)
FairSpec ==
    /\ Spec
    /\ WF_vars(Restart) /\ WF_vars(Exit)
    /\ WF_vars(\E z \in queue, a \in Articles : DownloadComplete(z, a))
    /\ WF_vars(\E z \in queue : FinishPostProcessing(z))
    /\ WF_vars(\/ TakeStates \/ SaveQueue \/ SaveHistory \/ SweepStates
               \/ \E s \in flush.states : SaveFileState(s))
-----------------------------------------------------------------------------
(* An id names one NZB of the queue and the history, however the program   *)
(* was stopped: an id of the saved history is never given out again.       *)
IdsAreUnique ==
    /\ \A y, z \in queue \union history : y.id = z.id => y = z
    /\ Running => \A z \in queue \union history : z.id < next_nzb_id

(* The articles saved as done of an NZB that stays in queue.json are never *)
(* fewer than they were, across flushes, stops, crashes and restarts.      *)
ProgressIsKept ==
    [][\A k \in disk_queue.nzbs \intersect disk_queue'.nzbs :
          (/\ k.file # 0 /\ file_states[k.file].owner = OwnerOf(k)
           /\ file_states'[k.file].owner \in {OwnerOf(k), NoState.owner}) =>
             file_states[k.file].done \subseteq file_states'[k.file].done]_vars

(* An NZB whose articles are all done leaves the queue.                    *)
CompletedLeavesQueue ==
    \A i \in Ids :
        (\E z \in queue : z.id = i /\ z.done = Articles)
            ~> ~(\E z \in queue : z.id = i /\ z.done = Articles)

=============================================================================
