------------------------ MODULE StateRecoveryProofs -------------------------
(* What the disk state is worth after a crash, for any number of sources,  *)
(* ids and runs: ids stay unique, and what was saved of an NZB's progress  *)
(* is not lost.                                                            *)
EXTENDS StateRecovery, SequenceLemmas

File == {0} \union Ids
Nzb == [id : Ids, file : File, src : Sources, content : Sources \union {NoSource},
        run : Nat \ {0}, done : SUBSET Articles, post : BOOLEAN, dir : Nat]
QueueFile ==
    [nzbs : SUBSET [id : Ids, file : File, src : Sources, run : Nat \ {0}],
     next_nzb_id : Ids, next_file_id : Ids]
FileState == [owner : Nat \X Nat, done : SUBSET Articles]

RecoveryTypeOK ==
    /\ phase \in {"down", "up", "saved"} /\ run \in Nat /\ (Running => run > 0)
    /\ queue \in SUBSET Nzb /\ history \in SUBSET Nzb
    /\ next_nzb_id \in Ids /\ next_file_id \in Ids
    /\ ingest \in [Ingesters -> [step : {"idle", "save", "rename"}, id : File,
                                 src : Sources \union {NoSource}]]
    /\ flush \in [step : {"idle", "states", "queue", "history", "files"}, stop : BOOLEAN,
                  queue : QueueFile, history : SUBSET Nzb,
                  states : SUBSET [file : Ids, state : FileState]]
    /\ disk_queue \in QueueFile /\ disk_history \in SUBSET Nzb
    /\ nzb_files \in [Ids -> Sources \union {NoSource}]
    /\ file_states \in [Ids -> FileState]

-----------------------------------------------------------------------------
(* Ids.                                                                    *)

Apart(S, T) == \A y \in S, z \in T : y.id # z.id
OnePerId(S) == \A y, z \in S : y.id = z.id => y = z
Below(S, n) == \A z \in S : z.id < n

(* A queue and a history that a restart may begin with.                    *)
Sound(q, h) ==
    /\ OnePerId(q.nzbs) /\ OnePerId(h) /\ Apart(q.nzbs, h)
    /\ Below(q.nzbs, q.next_nzb_id) /\ Below(h, q.next_nzb_id)

MemoryInv ==
    /\ OnePerId(queue) /\ OnePerId(history) /\ Apart(queue, history)
    /\ Below(queue \union history, next_nzb_id)
    /\ \A z \in queue : z.file = 0 => z.done = {}
    /\ ~Running => queue = {} /\ history = {} /\ flush = NotSaving

(* An NZB of the saved history has left the queue for good, and no id that *)
(* is saved is given out again.                                            *)
DiskInv ==
    /\ Sound(disk_queue, disk_history)
    /\ Running => disk_queue.next_nzb_id <= next_nzb_id
    /\ Apart(queue, disk_history)

(* The save under way is of a queue and a history that belong together,    *)
(* and may replace those on disk one after the other.                      *)
Saving == flush.step # "idle"
FlushInv ==
    Saving =>
       /\ Sound(flush.queue, flush.history)
       /\ flush.queue.next_nzb_id <= next_nzb_id
       /\ disk_queue.next_nzb_id <= flush.queue.next_nzb_id
       /\ Apart(queue, flush.history)
       /\ Apart(flush.queue.nzbs, disk_history)
       /\ flush.step \in {"history", "files"} => disk_queue = flush.queue

(* Restored NZBs that had no file get new ids of files; there are as many  *)
(* left as NZBs without one.                                               *)
EnoughIds(S, file_id, nzb_id) ==
    /\ IsFiniteSet(S)
    /\ file_id + Cardinality({z \in S : z.file = 0}) <= nzb_id

FilesInv ==
    /\ EnoughIds(queue, next_file_id, next_nzb_id)
    /\ EnoughIds(disk_queue.nzbs, disk_queue.next_file_id, disk_queue.next_nzb_id)
    /\ EnoughIds(flush.queue.nzbs, flush.queue.next_file_id, flush.queue.next_nzb_id)

IdInv == RecoveryTypeOK /\ MemoryInv /\ DiskInv /\ FlushInv /\ FilesInv

-----------------------------------------------------------------------------
(* Progress.                                                               *)

(* An owner is an NZB of this run under an id that was given out, or of an *)
(* earlier one.                                                            *)
Known(owner) ==
    /\ owner[1] <= run
    /\ Running /\ owner[1] = run => owner[2] < next_nzb_id

OwnersInv ==
    /\ \A z \in queue \union history : z.run <= run
    /\ \A k \in disk_queue.nzbs \union flush.queue.nzbs : k.run <= run
    /\ \A z \in disk_history \union flush.history : z.run <= run
    /\ \A f \in Ids : Known(file_states[f].owner)
    /\ \A s \in flush.states : s.state.owner[1] > 0 /\ Known(s.state.owner)

(* What is saved of an NZB, or about to be, is done in memory as well, and *)
(* what is about to be saved is no less than what is saved.                *)
SavedIsDone(f, state) ==
    \A z \in queue : z.file = f /\ state.owner = OwnerOf(z) => state.done \subseteq z.done

StatesInv ==
    /\ \A f \in Ids : SavedIsDone(f, file_states[f])
    /\ \A s \in flush.states : SavedIsDone(s.file, s.state)
    /\ \A s \in flush.states :
          file_states[s.file].owner = s.state.owner
             => file_states[s.file].done \subseteq s.state.done
    /\ \A s, t \in flush.states : s.state.owner = t.state.owner => s = t

RecoveryInv == IdInv /\ OwnersInv /\ StatesInv

-----------------------------------------------------------------------------
(* Types.                                                                  *)

LEMMA EmptyQueueType == EmptyQueue \in QueueFile /\ NotSaving.queue \in QueueFile
  BY RecoveryAssumption DEF EmptyQueue, QueueFile, Ids, NotSaving

LEMMA RecoveryInitType == Init => RecoveryTypeOK
  <1> SUFFICES ASSUME Init PROVE RecoveryTypeOK
    OBVIOUS
  <1>1. 1 \in Ids /\ EmptyQueue \in QueueFile
    BY RecoveryAssumption, EmptyQueueType DEF Ids
  <1>2. NotIngesting \in [step : {"idle", "save", "rename"}, id : File,
                          src : Sources \union {NoSource}]
    BY DEF NotIngesting, File
  <1>3. flush \in [step : {"idle", "states", "queue", "history", "files"}, stop : BOOLEAN,
                  queue : QueueFile, history : SUBSET Nzb,
                  states : SUBSET [file : Ids, state : FileState]]
    BY <1>1 DEF Init, NotSaving
  <1>4. NoState \in FileState
    BY DEF NoState, FileState
  <1> QED BY <1>1, <1>2, <1>3, <1>4 DEF Init, RecoveryTypeOK, Running

LEMMA KeptType ==
    ASSUME NEW z \in Nzb
    PROVE  /\ Kept(z) \in [id : Ids, file : File, src : Sources, run : Nat \ {0}]
           /\ Kept(z).id = z.id /\ Kept(z).file = z.file /\ Kept(z).run = z.run
           /\ OwnerOf(Kept(z)) = OwnerOf(z)
  BY DEF Nzb, Kept, OwnerOf

LEMMA SnapshotType ==
    ASSUME RecoveryTypeOK
    PROVE  QueueSnapshot \in QueueFile
  <1>1. \A z \in queue : Kept(z) \in [id : Ids, file : File, src : Sources, run : Nat \ {0}]
    BY KeptType DEF RecoveryTypeOK
  <1> QED BY <1>1 DEF QueueSnapshot, QueueFile, RecoveryTypeOK

(* What a restart makes of what is on disk.                                *)
LEMMA FileOfType ==
    ASSUME RecoveryTypeOK, FilesInv, NEW k \in Loadable
    PROVE  FileOf(k) \in Ids
  <1> DEFINE none == {z \in disk_queue.nzbs : z.file = 0}
             before == {y \in Fileless : y.id < k.id}
  <1>1. /\ k \in disk_queue.nzbs /\ k.id \in Ids /\ k.file \in File
        /\ disk_queue.next_nzb_id \in Ids /\ disk_queue.next_file_id \in Ids
    BY DEF Loadable, RecoveryTypeOK, QueueFile
  <1>2. CASE k.file # 0
    BY <1>1, <1>2 DEF FileOf, File
  <1>3. CASE k.file = 0
    <2>1. IsFiniteSet(disk_queue.nzbs)
      BY DEF FilesInv, EnoughIds
    <2>2. none \in SUBSET disk_queue.nzbs
      OBVIOUS
    <2>3. IsFiniteSet(none)
      BY <2>1, <2>2, FS_Subset
    <2>4. before \in SUBSET (none \ {k})
      BY <1>1 DEF Fileless, Loadable, Ids
    <2>5. IsFiniteSet(none \ {k}) /\ Cardinality(none \ {k}) = Cardinality(none) - 1
      BY <2>3, <1>1, <1>3, FS_RemoveElement
    <2>6. IsFiniteSet(before) /\ Cardinality(before) <= Cardinality(none \ {k})
      BY <2>4, <2>5, FS_Subset
    <2>7. Cardinality(none) \in Nat /\ Cardinality(before) \in Nat
      BY <2>3, <2>6, FS_CardinalityType
    <2>8. disk_queue.next_file_id + Cardinality(none) <= disk_queue.next_nzb_id
      BY DEF FilesInv, EnoughIds
    <2>9. FileOf(k) = disk_queue.next_file_id + Cardinality(before)
      BY <1>3 DEF FileOf
    <2> HIDE DEF before, none
    <2>10. MaxId \in Nat
      BY RecoveryAssumption
    <2> QED BY <1>1, <2>5, <2>6, <2>7, <2>8, <2>9, <2>10 DEF Ids
  <1> QED BY <1>1, <1>2, <1>3

LEMMA RestoredType ==
    ASSUME RecoveryTypeOK, FilesInv, NEW k \in Loadable
    PROVE  /\ Restored(k) \in Nzb
           /\ Restored(k).id = k.id /\ Restored(k).run = k.run
           /\ Restored(k).file = FileOf(k) /\ Restored(k).file # 0
           /\ Restored(k).done = file_states[FileOf(k)].done
  <1>1. FileOf(k) \in Ids /\ FileOf(k) # 0
    BY FileOfType DEF Ids
  <1>2. /\ k.id \in Ids /\ k.src \in Sources /\ k.run \in Nat \ {0}
        /\ nzb_files[k.id] \in Sources \union {NoSource}
    BY DEF Loadable, RecoveryTypeOK, QueueFile
  <1>3. file_states[FileOf(k)].done \in SUBSET Articles
    BY <1>1 DEF RecoveryTypeOK, FileState
  <1> QED BY <1>1, <1>2, <1>3 DEF Restored, Nzb, File, NoDir

LEMMA RestoredHistoryType ==
    ASSUME NEW z \in Nzb
    PROVE  /\ RestoredHistory(z) \in Nzb
           /\ RestoredHistory(z).id = z.id /\ RestoredHistory(z).run = z.run
  BY DEF RestoredHistory, Nzb, NoDir, File

LEMMA FilelessBound ==
    ASSUME RecoveryTypeOK, FilesInv
    PROVE  /\ IsFiniteSet(Fileless) /\ IsFiniteSet(Loadable) /\ Cardinality(Fileless) \in Nat
           /\ disk_queue.next_file_id + Cardinality(Fileless) <= disk_queue.next_nzb_id
  <1> DEFINE none == {z \in disk_queue.nzbs : z.file = 0}
  <1>1. IsFiniteSet(disk_queue.nzbs)
    BY DEF FilesInv, EnoughIds
  <1>2. none \in SUBSET disk_queue.nzbs /\ Loadable \in SUBSET disk_queue.nzbs
        /\ Fileless \in SUBSET none
    BY DEF Loadable, Fileless
  <1>3. IsFiniteSet(none) /\ IsFiniteSet(Loadable)
    BY <1>1, <1>2, FS_Subset
  <1>4. IsFiniteSet(Fileless) /\ Cardinality(Fileless) <= Cardinality(none)
    BY <1>2, <1>3, FS_Subset
  <1>5. Cardinality(none) \in Nat /\ Cardinality(Fileless) \in Nat
    BY <1>3, <1>4, FS_CardinalityType
  <1>6. disk_queue.next_file_id + Cardinality(none) <= disk_queue.next_nzb_id
    BY DEF FilesInv, EnoughIds
  <1>7. disk_queue.next_file_id \in Nat /\ disk_queue.next_nzb_id \in Nat
    BY DEF RecoveryTypeOK, QueueFile, Ids
  <1> HIDE DEF none
  <1> QED BY <1>3, <1>4, <1>5, <1>6, <1>7

(* Types are kept.                                                         *)
LEMMA RecoveryNextType ==
    ASSUME IdInv, [Next]_vars
    PROVE  RecoveryTypeOK'
  <1> USE DEF memory, disk
  <1> DEFINE Ing == [step : {"idle", "save", "rename"}, id : File, src : Sources \union {NoSource}]
             Flu == [step : {"idle", "states", "queue", "history", "files"}, stop : BOOLEAN,
                     queue : QueueFile, history : SUBSET Nzb,
                     states : SUBSET [file : Ids, state : FileState]]
  <1>1. /\ NotIngesting \in Ing /\ NotSaving \in Flu /\ EmptyQueue \in QueueFile
        /\ 1 \in Ids /\ NoState \in FileState
    BY RecoveryAssumption, EmptyQueueType
       DEF NotIngesting, NotSaving, File, Ids, NoState, FileState
  <1>0. RecoveryTypeOK /\ FilesInv /\ ingest \in [Ingesters -> Ing] /\ flush \in Flu
    BY DEF IdInv, RecoveryTypeOK
  <1> HIDE DEF Ing, Flu
  <1>2. ASSUME NEW i \in Ingesters, NEW s \in Sources, IngestNzb(i, s) PROVE RecoveryTypeOK'
    <2> DEFINE z == [id |-> next_nzb_id, file |-> next_file_id, src |-> s, content |-> s,
                     run |-> run, done |-> {}, post |-> FALSE, dir |-> next_nzb_id]
    <2>1. next_nzb_id \in Ids /\ next_file_id \in Ids
          /\ next_nzb_id + 1 \in Ids /\ next_file_id + 1 \in Ids
      BY <1>2, <1>0, RecoveryAssumption DEF IngestNzb, MayStart, Ids, RecoveryTypeOK
    <2>2. run \in Nat \ {0}
      BY <1>2, <1>0 DEF IngestNzb, MayStart, ScannerRuns, Running, RecoveryTypeOK
    <2>3. z \in Nzb
      BY <2>1, <2>2 DEF Nzb, File, Ids
    <2>4. queue' \in SUBSET Nzb
      BY <1>2, <1>0, <2>3 DEF IngestNzb, RecoveryTypeOK
    <2>5. ingest' \in [Ingesters -> Ing]
      BY <1>2, <1>0, <2>1 DEF IngestNzb, RecoveryTypeOK, File, Ing
    <2> QED BY <1>2, <1>0, <2>1, <2>4, <2>5 DEF IngestNzb, RecoveryTypeOK, Running, Ing
  <1>3. ASSUME NEW i \in Ingesters, NEW s \in Sources, RejectDuplicate(i, s) PROVE RecoveryTypeOK'
    <2>1. next_nzb_id + 1 \in Ids
      BY <1>3, <1>0, RecoveryAssumption DEF RejectDuplicate, MayStart, Ids, RecoveryTypeOK
    <2> QED BY <1>3, <1>0, <2>1 DEF RejectDuplicate, RecoveryTypeOK, Running
  <1>4. ASSUME NEW i \in Ingesters, SaveNzbFile(i) PROVE RecoveryTypeOK'
    <2>1. ingest' \in [Ingesters -> Ing]
      BY <1>4, <1>0, <1>1 DEF SaveNzbFile, Ing
    <2>2. nzb_files' \in [Ids -> Sources \union {NoSource}]
      BY <1>4, <1>0 DEF SaveNzbFile, RecoveryTypeOK
    <2> QED BY <1>4, <1>0, <2>1, <2>2 DEF SaveNzbFile, RecoveryTypeOK, Running, Ing
  <1>5. ASSUME RenameSource PROVE RecoveryTypeOK'
    <2>1. ingest' \in [Ingesters -> Ing]
      BY <1>5, <1>0, <1>1 DEF RenameSource
    <2> QED BY <1>5, <1>0, <2>1 DEF RenameSource, RecoveryTypeOK, Running, Ing
  <1>6. ASSUME NEW z \in queue, NEW a \in Articles, DownloadComplete(z, a) PROVE RecoveryTypeOK'
    <2>1. z \in Nzb
      BY <1>0 DEF RecoveryTypeOK
    <2>2. [z EXCEPT !.done = @ \union {a}, !.post = (Articles \subseteq z.done \union {a})] \in Nzb
      BY <2>1 DEF Nzb
    <2> QED BY <1>6, <1>0, <2>2 DEF DownloadComplete, Replace, RecoveryTypeOK, Running
  <1>7. ASSUME NEW z \in queue, FinishPostProcessing(z) \/ DeleteNzb(z) PROVE RecoveryTypeOK'
    BY <1>7, <1>0 DEF FinishPostProcessing, DeleteNzb, RecoveryTypeOK, Running
  <1>8. ASSUME NEW z \in history, HistoryRedownload(z) \/ HistoryDelete(z) PROVE RecoveryTypeOK'
    <2>1. CASE HistoryRedownload(z)
      <3>1. z \in Nzb /\ next_nzb_id + 1 \in Ids /\ next_nzb_id \in Ids /\ run \in Nat \ {0}
        BY <2>1, <1>0, RecoveryAssumption DEF HistoryRedownload, RecoveryTypeOK, Ids
      <3>2. [z EXCEPT !.id = next_nzb_id, !.run = run, !.done = {}, !.post = FALSE] \in Nzb
        BY <3>1 DEF Nzb
      <3> QED BY <2>1, <1>0, <3>1, <3>2 DEF HistoryRedownload, RecoveryTypeOK, Running
    <2>2. CASE HistoryDelete(z)
      BY <2>2, <1>0 DEF HistoryDelete, RecoveryTypeOK, Running
    <2> QED BY <1>8, <2>1, <2>2
  <1>9. ASSUME FlushTick \/ StopSnapshot PROVE RecoveryTypeOK'
    <2>1. QueueSnapshot \in QueueFile
      BY <1>0, SnapshotType
    <2>2. /\ phase' = phase /\ UNCHANGED <<run, memory, ingest, inbox, disk>>
          /\ \E stop \in BOOLEAN : flush' = [step |-> "states", stop |-> stop,
                 queue |-> QueueSnapshot, history |-> history, states |-> {}]
      BY <1>9 DEF FlushTick, StopSnapshot, TakeSnapshot
    <2>3. flush' \in Flu
      BY <1>0, <2>1, <2>2 DEF Flu, RecoveryTypeOK
    <2> QED BY <1>0, <2>2, <2>3 DEF RecoveryTypeOK, Running, Flu
  <1>10. ASSUME TakeStates PROVE RecoveryTypeOK'
    <2>1. build_all_file_article_states \in SUBSET [file : Ids, state : FileState]
      <3>1. ASSUME NEW z \in queue, z.done # {}
            PROVE  [file |-> z.file, state |-> StateOf(z)] \in [file : Ids, state : FileState]
        <4>1. z \in Nzb
          BY <1>0 DEF RecoveryTypeOK
        <4>2. z.file # 0
          BY <3>1 DEF IdInv, MemoryInv
        <4>3. z.file \in Ids /\ z.run \in Nat /\ z.id \in Nat /\ z.done \in SUBSET Articles
          BY <4>1, <4>2 DEF Nzb, File, Ids
        <4> QED BY <4>3 DEF StateOf, OwnerOf, FileState
      <3> QED BY <3>1 DEF build_all_file_article_states
    <2>2. flush' \in Flu
      BY <1>10, <1>0, <2>1 DEF TakeStates, Flu
    <2> QED BY <1>10, <1>0, <2>2 DEF TakeStates, RecoveryTypeOK, Running, Flu
  <1>11. ASSUME SaveQueue \/ SaveHistory PROVE RecoveryTypeOK'
    <2>1. flush' \in Flu /\ flush.queue \in QueueFile /\ flush.history \in SUBSET Nzb
      BY <1>11, <1>0 DEF SaveQueue, SaveHistory, Flu
    <2> QED BY <1>11, <1>0, <2>1 DEF SaveQueue, SaveHistory, RecoveryTypeOK, Running, Flu
  <1>12. ASSUME NEW s \in flush.states, SaveFileState(s) PROVE RecoveryTypeOK'
    <2>1. flush' \in Flu /\ s \in [file : Ids, state : FileState]
      BY <1>12, <1>0 DEF SaveFileState, Flu
    <2>2. file_states' \in [Ids -> FileState]
      BY <1>12, <1>0, <2>1 DEF SaveFileState, RecoveryTypeOK
    <2> QED BY <1>12, <1>0, <2>1, <2>2 DEF SaveFileState, RecoveryTypeOK, Running, Flu
  <1>13. ASSUME SweepStates PROVE RecoveryTypeOK'
    <2>1. flush' \in Flu
      BY <1>13, <1>1 DEF SweepStates
    <2>2. file_states' \in [Ids -> FileState]
      BY <1>13, <1>0, <1>1 DEF SweepStates, RecoveryTypeOK
    <2> QED BY <1>13, <1>0, <2>1, <2>2 DEF SweepStates, RecoveryTypeOK, Running, Flu
  <1>14. ASSUME SaveFails PROVE RecoveryTypeOK'
    BY <1>14, <1>0, <1>1 DEF SaveFails, RecoveryTypeOK, Running, Flu
  <1>15. ASSUME Exit \/ Crash PROVE RecoveryTypeOK'
    <2>1. Down
      BY <1>15 DEF Exit, Crash
    <2> QED BY <2>1, <1>0, <1>1 DEF Down, RecoveryTypeOK, Running, Flu, Ing
  <1>16. ASSUME Restart PROVE RecoveryTypeOK'
    <2>1. queue' \in SUBSET Nzb
      BY <1>16, <1>0, RestoredType DEF Restart
    <2>2. history' \in SUBSET Nzb
      BY <1>16, <1>0, RestoredHistoryType DEF Restart, RecoveryTypeOK
    <2>3. next_nzb_id' \in Ids /\ next_file_id' \in Ids
      BY SMTT(30), <1>16, <1>0, FilelessBound, RecoveryAssumption DEF Restart, RecoveryTypeOK, QueueFile, Ids
    <2> QED BY <1>16, <1>0, <2>1, <2>2, <2>3 DEF Restart, RecoveryTypeOK, Running
  <1>17. ASSUME UNCHANGED vars PROVE RecoveryTypeOK'
    BY <1>17, <1>0 DEF vars, RecoveryTypeOK, Running
  <1> QED BY <1>2, <1>3, <1>4, <1>5, <1>6, <1>7, <1>8, <1>9, <1>10, <1>11, <1>12, <1>13, <1>14,
             <1>15, <1>16, <1>17 DEF Next

-----------------------------------------------------------------------------
(* Ids.                                                                    *)

(* The steps that leave the queue, the history and the ids alone.          *)
Elsewhere ==
    \/ \E i \in Ingesters : SaveNzbFile(i)
    \/ RenameSource \/ FlushTick \/ StopSnapshot \/ TakeStates \/ SaveQueue \/ SaveHistory
    \/ \E s \in flush.states : SaveFileState(s)
    \/ SweepStates \/ SaveFails \/ UNCHANGED vars

LEMMA ElsewhereKeeps ==
    ASSUME RecoveryTypeOK, Elsewhere
    PROVE  /\ queue' = queue /\ history' = history
           /\ next_nzb_id' = next_nzb_id /\ next_file_id' = next_file_id /\ run' = run
           /\ Running' = Running /\ (~Running => flush' = flush)
  <1> USE DEF memory, disk, Running
  <1>1. ASSUME NEW i \in Ingesters, SaveNzbFile(i) PROVE UNCHANGED <<phase, flush, run, memory>>
    BY <1>1 DEF SaveNzbFile
  <1>2. ASSUME RenameSource PROVE UNCHANGED <<phase, flush, run, memory>>
    BY <1>2 DEF RenameSource
  <1>3. ASSUME NEW s \in flush.states, SaveFileState(s)
        PROVE  UNCHANGED <<phase, run, memory>> /\ Running
    BY <1>3 DEF SaveFileState
  <1>4. ASSUME FlushTick \/ StopSnapshot \/ TakeStates \/ SaveQueue \/ SaveHistory
        PROVE  UNCHANGED <<phase, run, memory>> /\ Running
    BY <1>4 DEF FlushTick, StopSnapshot, TakeSnapshot, TakeStates, SaveQueue, SaveHistory
  <1>5. ASSUME SweepStates \/ SaveFails
        PROVE  UNCHANGED <<run, memory>> /\ Running /\ Running'
    BY <1>5 DEF SweepStates, SaveFails
  <1>6. ASSUME UNCHANGED vars PROVE UNCHANGED <<phase, flush, run, memory>>
    BY <1>6 DEF vars
  <1> QED BY <1>1, <1>2, <1>3, <1>4, <1>5, <1>6 DEF Elsewhere

(* The others.                                                             *)
LEMMA StepKinds ==
    ASSUME [Next]_vars
    PROVE  \/ Elsewhere
           \/ \E i \in Ingesters, s \in Sources : IngestNzb(i, s) \/ RejectDuplicate(i, s)
           \/ \E z \in queue, a \in Articles : DownloadComplete(z, a)
           \/ \E z \in queue : FinishPostProcessing(z) \/ DeleteNzb(z)
           \/ \E z \in history : HistoryRedownload(z) \/ HistoryDelete(z)
           \/ Exit \/ Crash \/ Restart
  BY DEF Next, Elsewhere

LEMMA MemoryStep ==
    ASSUME IdInv, [Next]_vars
    PROVE  MemoryInv'
  <1> USE DEF memory, disk
  <1>0. RecoveryTypeOK /\ MemoryInv /\ DiskInv /\ FilesInv /\ next_nzb_id \in Nat
    BY DEF IdInv, RecoveryTypeOK, Ids
  <1>1. CASE Elsewhere
    BY <1>0, <1>1, ElsewhereKeeps DEF MemoryInv, OnePerId, Apart, Below
  <1>2. ASSUME NEW i \in Ingesters, NEW s \in Sources, IngestNzb(i, s) PROVE MemoryInv'
    <2> DEFINE y == [id |-> next_nzb_id, file |-> next_file_id, src |-> s, content |-> s,
                     run |-> run, done |-> {}, post |-> FALSE, dir |-> next_nzb_id]
    <2>1. y.id = next_nzb_id /\ y.done = {}
      OBVIOUS
    <2>2. /\ queue' = queue \union {y} /\ history' = history
          /\ next_nzb_id' = next_nzb_id + 1 /\ UNCHANGED <<phase, flush>> /\ Running
      BY <1>2 DEF IngestNzb, MayStart, ScannerRuns, Running
    <2> HIDE DEF y
    <2>3. \A x \in queue \union history : x.id < next_nzb_id /\ x.id \in Nat
      BY <1>0 DEF MemoryInv, Below, RecoveryTypeOK, Nzb, Ids
    <2> QED BY <1>0, <2>1, <2>2, <2>3 DEF MemoryInv, OnePerId, Apart, Below, Running
  <1>3. ASSUME NEW i \in Ingesters, NEW s \in Sources, RejectDuplicate(i, s) PROVE MemoryInv'
    BY <1>0, <1>3 DEF RejectDuplicate, MayStart, ScannerRuns, MemoryInv, OnePerId, Apart, Below, Running,
                      RecoveryTypeOK, Nzb, Ids
  <1>4. ASSUME NEW z \in queue, NEW a \in Articles, DownloadComplete(z, a) PROVE MemoryInv'
    <2> DEFINE y == [z EXCEPT !.done = @ \union {a}, !.post = (Articles \subseteq z.done \union {a})]
    <2>1. z \in Nzb
      BY <1>0 DEF RecoveryTypeOK
    <2>2. y.id = z.id /\ y.file = z.file /\ z.file # 0
      BY <1>4, <2>1 DEF Nzb, DownloadComplete
    <2>3. queue' = (queue \ {z}) \union {y} /\ UNCHANGED <<history, next_nzb_id, phase, flush>> /\ Running
      BY <1>4 DEF DownloadComplete, Replace
    <2> HIDE DEF y
    <2>4. OnePerId(queue') /\ OnePerId(history') /\ Apart(queue', history')
      BY <1>0, <2>2, <2>3 DEF MemoryInv, OnePerId, Apart
    <2>5. Below(queue' \union history', next_nzb_id')
      BY <1>0, <2>2, <2>3 DEF MemoryInv, Below
    <2>6. \A x \in queue' : x.file = 0 => x.done = {}
      BY <1>0, <2>2, <2>3 DEF MemoryInv
    <2> QED BY <2>3, <2>4, <2>5, <2>6 DEF MemoryInv, OnePerId, Apart, Below, Running
  <1>5. ASSUME NEW z \in queue, FinishPostProcessing(z) \/ DeleteNzb(z) PROVE MemoryInv'
    BY <1>0, <1>5 DEF FinishPostProcessing, DeleteNzb, MemoryInv, OnePerId, Apart, Below, Running
  <1>6. ASSUME NEW z \in history, HistoryRedownload(z) PROVE MemoryInv'
    <2> DEFINE y == [z EXCEPT !.id = next_nzb_id, !.run = run, !.done = {}, !.post = FALSE]
    <2>1. z \in Nzb
      BY <1>0 DEF RecoveryTypeOK
    <2>2. y.id = next_nzb_id /\ y.done = {}
      BY <2>1 DEF Nzb
    <2>3. /\ queue' = queue \union {y} /\ history' = history \ {z}
          /\ next_nzb_id' = next_nzb_id + 1 /\ UNCHANGED <<phase, flush>> /\ Running
      BY <1>6 DEF HistoryRedownload
    <2> HIDE DEF y
    <2>4. \A x \in queue \union history : x.id < next_nzb_id /\ x.id \in Nat
      BY <1>0 DEF MemoryInv, Below, RecoveryTypeOK, Nzb, Ids
    <2> QED BY <1>0, <2>2, <2>3, <2>4 DEF MemoryInv, OnePerId, Apart, Below, Running
  <1>7. ASSUME NEW z \in history, HistoryDelete(z) PROVE MemoryInv'
    BY <1>0, <1>7 DEF HistoryDelete, MemoryInv, OnePerId, Apart, Below, Running
  <1>8. ASSUME Exit \/ Crash PROVE MemoryInv'
    BY <1>8 DEF Exit, Crash, Down, MemoryInv, OnePerId, Apart, Below
  <1>9. ASSUME Restart PROVE MemoryInv'
    <2>1. /\ queue' = {Restored(k) : k \in Loadable}
          /\ history' = {RestoredHistory(z) : z \in disk_history}
          /\ next_nzb_id' = disk_queue.next_nzb_id /\ phase' = "up"
      BY <1>9 DEF Restart
    <2>2. \A k \in Loadable : Restored(k).id = k.id /\ Restored(k).file # 0 /\ k \in disk_queue.nzbs
      BY <1>0, RestoredType DEF Loadable
    <2>3. \A z \in disk_history : RestoredHistory(z).id = z.id
      BY <1>0, RestoredHistoryType DEF RecoveryTypeOK
    <2> QED BY <1>0, <2>1, <2>2, <2>3 DEF MemoryInv, DiskInv, Sound, OnePerId, Apart, Below, Running
  <1> QED BY <1>1, <1>2, <1>3, <1>4, <1>5, <1>6, <1>7, <1>8, <1>9, StepKinds

(* Ids go from the queue to the queue, or are new.                         *)
LEMMA QueueIds ==
    ASSUME IdInv, [Next]_vars, ~Restart
    PROVE  /\ \A z \in queue' :
                 (\E y \in queue : z.id = y.id) \/ (Running /\ z.id = next_nzb_id)
           /\ Running' => Running /\ next_nzb_id <= next_nzb_id'
  <1> USE DEF memory
  <1>0. RecoveryTypeOK /\ next_nzb_id \in Nat /\ \A z \in queue \union history : z \in Nzb
    BY DEF IdInv, RecoveryTypeOK, Ids
  <1> DEFINE Goal == /\ \A z \in queue' :
                           (\E y \in queue : z.id = y.id) \/ (Running /\ z.id = next_nzb_id)
                     /\ Running' => Running /\ next_nzb_id <= next_nzb_id'
  <1>1. CASE Elsewhere
    BY <1>0, <1>1, ElsewhereKeeps
  <1>2. ASSUME NEW i \in Ingesters, NEW s \in Sources, IngestNzb(i, s) \/ RejectDuplicate(i, s)
        PROVE  Goal
    BY <1>0, <1>2 DEF IngestNzb, RejectDuplicate, MayStart, ScannerRuns, Running
  <1>3. ASSUME NEW z \in queue, NEW a \in Articles, DownloadComplete(z, a) PROVE Goal
    <2> DEFINE y == [z EXCEPT !.done = @ \union {a}, !.post = (Articles \subseteq z.done \union {a})]
    <2>1. y.id = z.id
      BY <1>0 DEF Nzb
    <2>2. queue' = (queue \ {z}) \union {y} /\ UNCHANGED <<phase, next_nzb_id>>
      BY <1>3 DEF DownloadComplete, Replace
    <2> HIDE DEF y
    <2> QED BY <1>0, <2>1, <2>2 DEF Running
  <1>4. ASSUME NEW z \in queue, FinishPostProcessing(z) \/ DeleteNzb(z) PROVE Goal
    BY <1>0, <1>4 DEF FinishPostProcessing, DeleteNzb, Running
  <1>5. ASSUME NEW z \in history, HistoryRedownload(z) \/ HistoryDelete(z) PROVE Goal
    <2>1. CASE HistoryRedownload(z)
      <3> DEFINE y == [z EXCEPT !.id = next_nzb_id, !.run = run, !.done = {}, !.post = FALSE]
      <3>1. y.id = next_nzb_id
        BY <1>0 DEF Nzb
      <3>2. /\ queue' = queue \union {y} /\ next_nzb_id' = next_nzb_id + 1 /\ phase' = phase
            /\ Running
        BY <2>1 DEF HistoryRedownload
      <3> HIDE DEF y
      <3> QED BY <1>0, <3>1, <3>2 DEF Running
    <2>2. CASE HistoryDelete(z)
      BY <1>0, <2>2 DEF HistoryDelete, Running
    <2> QED BY <1>5, <2>1, <2>2
  <1>6. ASSUME Exit \/ Crash PROVE Goal
    BY <1>6 DEF Exit, Crash, Down, Running
  <1> QED BY <1>1, <1>2, <1>3, <1>4, <1>5, <1>6, StepKinds

(* What becomes of the disk and of the save under way.                     *)
LEMMA DiskSteps ==
    ASSUME RecoveryTypeOK, [Next]_vars
    PROVE  \/ SaveQueue
           \/ SaveHistory
           \/ FlushTick \/ StopSnapshot
           \/ disk_queue' = disk_queue /\ disk_history' = disk_history /\ flush' = NotSaving
           \/ /\ disk_queue' = disk_queue /\ disk_history' = disk_history
              /\ flush'.queue = flush.queue /\ flush'.history = flush.history
              /\ \/ flush'.step = flush.step
                 \/ flush.step = "states" /\ flush'.step = "queue"
  <1> USE DEF disk
  <1> DEFINE Ends == disk_queue' = disk_queue /\ disk_history' = disk_history /\ flush' = NotSaving
             Goes == /\ disk_queue' = disk_queue /\ disk_history' = disk_history
                     /\ flush'.queue = flush.queue /\ flush'.history = flush.history
                     /\ \/ flush'.step = flush.step
                        \/ flush.step = "states" /\ flush'.step = "queue"
  <1>1. ASSUME NEW i \in Ingesters, NEW s \in Sources, IngestNzb(i, s) \/ RejectDuplicate(i, s)
        PROVE  Goes
    BY <1>1 DEF IngestNzb, RejectDuplicate
  <1>2. ASSUME NEW z \in queue, NEW a \in Articles, DownloadComplete(z, a) PROVE Goes
    BY <1>2 DEF DownloadComplete
  <1>3. ASSUME NEW z \in queue, FinishPostProcessing(z) \/ DeleteNzb(z) PROVE Goes
    BY <1>3 DEF FinishPostProcessing, DeleteNzb
  <1>4. ASSUME NEW z \in history, HistoryRedownload(z) \/ HistoryDelete(z) PROVE Goes
    BY <1>4 DEF HistoryRedownload, HistoryDelete
  <1>5. ASSUME Exit \/ Crash PROVE Ends
    BY <1>5 DEF Exit, Crash, Down
  <1>6. ASSUME Restart PROVE Goes
    BY <1>6 DEF Restart
  <1>7. ASSUME SweepStates \/ SaveFails PROVE Ends
    BY <1>7 DEF SweepStates, SaveFails
  <1>8. ASSUME NEW s \in flush.states, SaveFileState(s) PROVE Goes
    BY <1>8 DEF SaveFileState, RecoveryTypeOK
  <1>9. ASSUME NEW i \in Ingesters, SaveNzbFile(i) PROVE Goes
    BY <1>9 DEF SaveNzbFile
  <1>10. ASSUME RenameSource \/ TakeStates \/ UNCHANGED vars PROVE Goes
    BY <1>10 DEF RenameSource, TakeStates, vars, RecoveryTypeOK
  <1> QED BY <1>1, <1>2, <1>3, <1>4, <1>5, <1>6, <1>7, <1>8, <1>9, <1>10, StepKinds DEF Elsewhere

LEMMA SnapshotIds ==
    ASSUME IdInv, Running, FlushTick \/ StopSnapshot
    PROVE  /\ disk_queue' = disk_queue /\ disk_history' = disk_history
           /\ flush'.queue.next_nzb_id = next_nzb_id /\ flush'.history = history
           /\ flush'.step = "states"
           /\ Sound(flush'.queue, history)
           /\ \A k \in flush'.queue.nzbs : \E z \in queue : k = Kept(z) /\ k.id = z.id
  <1>1. /\ disk_queue' = disk_queue /\ disk_history' = disk_history
        /\ flush'.queue = QueueSnapshot /\ flush'.history = history /\ flush'.step = "states"
    BY DEF FlushTick, StopSnapshot, TakeSnapshot, disk
  <1>2. QueueSnapshot.nzbs = {Kept(z) : z \in queue} /\ QueueSnapshot.next_nzb_id = next_nzb_id
    BY DEF QueueSnapshot
  <1>3. \A z \in queue : Kept(z).id = z.id
    BY KeptType DEF IdInv, RecoveryTypeOK
  <1>4. OnePerId(QueueSnapshot.nzbs) /\ Apart(QueueSnapshot.nzbs, history)
        /\ Below(QueueSnapshot.nzbs, next_nzb_id)
    BY <1>2, <1>3 DEF IdInv, MemoryInv, OnePerId, Apart, Below
  <1>5. OnePerId(history) /\ Below(history, next_nzb_id)
    BY DEF IdInv, MemoryInv, Below
  <1> QED BY <1>1, <1>2, <1>3, <1>4, <1>5 DEF Sound

LEMMA DiskStep ==
    ASSUME IdInv, [Next]_vars
    PROVE  DiskInv'
  <1>a. RecoveryTypeOK /\ RecoveryTypeOK'
    BY RecoveryNextType DEF IdInv
  <1>0. /\ RecoveryTypeOK /\ MemoryInv /\ DiskInv /\ FlushInv /\ next_nzb_id \in Nat
        /\ next_nzb_id' \in Nat /\ disk_queue.next_nzb_id \in Nat
    BY SMTT(30), <1>a DEF IdInv, RecoveryTypeOK, Ids, QueueFile
  <1>1. CASE disk_queue' = disk_queue /\ disk_history' = disk_history /\ ~Restart
    <2>1. Sound(disk_queue, disk_history)' /\ Below(disk_history, disk_queue.next_nzb_id)
      BY <1>0, <1>1 DEF DiskInv, Sound, OnePerId, Apart, Below
    <2>2. Running' => disk_queue.next_nzb_id <= next_nzb_id'
      BY <1>0, <1>1, QueueIds DEF DiskInv
    <2>3. \A z \in disk_history : z.id \in Nat
      BY <1>0 DEF RecoveryTypeOK, Nzb, Ids
    <2>4. Apart(queue', disk_history)
      BY <1>0, <1>1, <2>1, <2>3, QueueIds DEF DiskInv, Apart, Below
    <2> QED BY <1>1, <2>1, <2>2, <2>4 DEF DiskInv, Apart
  <1>2. CASE Restart
    <2>1. /\ queue' = {Restored(k) : k \in Loadable} /\ next_nzb_id' = disk_queue.next_nzb_id
          /\ disk_queue' = disk_queue /\ disk_history' = disk_history
      BY <1>2 DEF Restart, disk
    <2>2. \A k \in Loadable : Restored(k).id = k.id /\ k \in disk_queue.nzbs
      BY <1>0, RestoredType DEF Loadable, IdInv
    <2>3. Apart(queue', disk_history')
      BY <1>0, <2>1, <2>2 DEF DiskInv, Sound, Apart
    <2> QED BY <1>0, <2>1, <2>3 DEF DiskInv, Sound, OnePerId, Apart, Below
  <1>3. CASE SaveQueue
    <2>1. /\ disk_queue' = flush.queue /\ disk_history' = disk_history /\ queue' = queue
          /\ next_nzb_id' = next_nzb_id /\ Running /\ Running' /\ flush.step = "queue"
      BY <1>3 DEF SaveQueue, memory, Running
    <2>2. Sound(flush.queue, flush.history) /\ Apart(flush.queue.nzbs, disk_history)
          /\ flush.queue.next_nzb_id <= next_nzb_id
          /\ disk_queue.next_nzb_id <= flush.queue.next_nzb_id
          /\ flush.queue.next_nzb_id \in Nat
      BY <1>0, <2>1 DEF FlushInv, Saving, RecoveryTypeOK, QueueFile, Ids
    <2>3. Below(disk_history, flush.queue.next_nzb_id)
      BY <1>0, <2>2 DEF DiskInv, Sound, Below, RecoveryTypeOK, Nzb, Ids
    <2> QED BY <1>0, <2>1, <2>2, <2>3 DEF DiskInv, Sound, OnePerId, Apart, Below
  <1>4. CASE SaveHistory
    <2>1. /\ disk_queue' = disk_queue /\ disk_history' = flush.history /\ queue' = queue
          /\ next_nzb_id' = next_nzb_id /\ Running /\ flush.step = "history"
      BY <1>4 DEF SaveHistory, memory
    <2>2. disk_queue = flush.queue /\ Sound(flush.queue, flush.history) /\ Apart(queue, flush.history)
      BY <1>0, <2>1 DEF FlushInv, Saving
    <2> QED BY <1>0, <2>1, <2>2 DEF DiskInv, Sound, OnePerId, Apart, Below
  <1>5. CASE FlushTick \/ StopSnapshot
    <2>1. disk_queue' = disk_queue /\ disk_history' = disk_history /\ ~Restart
      BY <1>5 DEF FlushTick, StopSnapshot, TakeSnapshot, disk, Restart
    <2> QED BY <1>1, <2>1
  <1> QED BY <1>0, <1>1, <1>2, <1>3, <1>4, <1>5, DiskSteps

LEMMA FlushStep ==
    ASSUME IdInv, [Next]_vars
    PROVE  FlushInv'
  <1>a. RecoveryTypeOK /\ RecoveryTypeOK'
    BY RecoveryNextType DEF IdInv
  <1>0. /\ RecoveryTypeOK /\ MemoryInv /\ DiskInv /\ FlushInv /\ next_nzb_id \in Nat
        /\ next_nzb_id' \in Nat /\ disk_queue.next_nzb_id \in Nat /\ flush.queue.next_nzb_id \in Nat
    BY <1>a DEF IdInv, RecoveryTypeOK, Ids, QueueFile
  <1>1. CASE flush' = NotSaving
    BY <1>1 DEF FlushInv, Saving, NotSaving
  <1>2. CASE /\ disk_queue' = disk_queue /\ disk_history' = disk_history
             /\ flush'.queue = flush.queue /\ flush'.history = flush.history
             /\ \/ flush'.step = flush.step
                \/ flush.step = "states" /\ flush'.step = "queue"
    <2> SUFFICES ASSUME Saving' PROVE FlushInv'
      BY DEF FlushInv
    <2>1. Saving /\ Running /\ ~Restart
      <3>1. Saving
        BY <1>2 DEF Saving
      <3>2. Running
        BY <1>0, <3>1 DEF MemoryInv, Saving, NotSaving
      <3> QED BY <3>1, <3>2 DEF Restart, Running
    <2>2. Running'
      <3>1. MemoryInv'
        BY MemoryStep
      <3> QED BY <3>1 DEF MemoryInv, Saving, NotSaving
    <2>3. next_nzb_id <= next_nzb_id'
      BY <2>1, <2>2, QueueIds
    <2>4. /\ Sound(flush.queue, flush.history) /\ Apart(queue, flush.history)
          /\ flush.queue.next_nzb_id <= next_nzb_id
          /\ disk_queue.next_nzb_id <= flush.queue.next_nzb_id
          /\ Apart(flush.queue.nzbs, disk_history)
          /\ flush.step \in {"history", "files"} => disk_queue = flush.queue
      BY <1>0, <2>1 DEF FlushInv
    <2>5. flush.queue.next_nzb_id <= next_nzb_id'
      BY <1>0, <2>3, <2>4
    <2>6. \A z \in flush.history : z.id < next_nzb_id /\ z.id \in Nat
      BY <1>0, <2>4 DEF Sound, Below, RecoveryTypeOK, Nzb, Ids
    <2>7. Apart(queue', flush.history)
      BY <1>0, <2>1, <2>4, <2>6, QueueIds DEF Apart
    <2> QED BY <1>2, <2>4, <2>5, <2>7 DEF FlushInv, Sound, OnePerId, Apart, Below
  <1>3. CASE SaveQueue
    <2>1. /\ disk_queue' = flush.queue /\ disk_history' = disk_history /\ queue' = queue
          /\ next_nzb_id' = next_nzb_id /\ flush.step = "queue"
          /\ flush'.queue = flush.queue /\ flush'.history = flush.history /\ flush'.step = "history"
      BY <1>0, <1>3 DEF SaveQueue, memory, RecoveryTypeOK
    <2> QED BY <1>0, <2>1 DEF FlushInv, Saving, Sound, OnePerId, Apart, Below
  <1>4. CASE SaveHistory
    <2>1. /\ disk_queue' = disk_queue /\ disk_history' = flush.history /\ queue' = queue
          /\ next_nzb_id' = next_nzb_id /\ flush.step = "history"
          /\ flush'.queue = flush.queue /\ flush'.history = flush.history /\ flush'.step = "files"
      BY <1>0, <1>4 DEF SaveHistory, memory, RecoveryTypeOK
    <2> QED BY <1>0, <2>1 DEF FlushInv, Saving, Sound, OnePerId, Apart, Below
  <1>5. CASE FlushTick \/ StopSnapshot
    <2>1. Running /\ queue' = queue /\ next_nzb_id' = next_nzb_id
      BY <1>5 DEF FlushTick, StopSnapshot, TakeSnapshot, memory, Running
    <2>2. /\ disk_queue' = disk_queue /\ disk_history' = disk_history
          /\ flush'.queue.next_nzb_id = next_nzb_id /\ flush'.history = history
          /\ flush'.step = "states" /\ Sound(flush'.queue, history)
          /\ \A k \in flush'.queue.nzbs : \E z \in queue : k.id = z.id
      BY <1>5, <2>1, SnapshotIds
    <2>3. Apart(flush'.queue.nzbs, disk_history)
      BY <1>0, <2>2 DEF DiskInv, Apart
    <2> QED BY <1>0, <2>1, <2>2, <2>3 DEF FlushInv, DiskInv, MemoryInv, Sound, OnePerId, Apart, Below
  <1> QED BY <1>0, <1>1, <1>2, <1>3, <1>4, <1>5, DiskSteps

(* There stay ids for the files of NZBs that have none.                    *)
LEMMA FewerFileless ==
    ASSUME NEW S, NEW T, NEW f \in Nat, NEW n \in Nat, NEW m \in Nat, n <= m,
           EnoughIds(S, f, n), IsFiniteSet(T),
           {z \in T : z.file = 0} \subseteq {z \in S : z.file = 0}
    PROVE  EnoughIds(T, f, m)
  <1> DEFINE A == {z \in S : z.file = 0}
             B == {z \in T : z.file = 0}
  <1>1. IsFiniteSet(S) /\ f + Cardinality(A) <= n
    BY DEF EnoughIds
  <1>2. A \in SUBSET S /\ B \in SUBSET A
    OBVIOUS
  <1>3. IsFiniteSet(A) /\ IsFiniteSet(B) /\ Cardinality(B) <= Cardinality(A)
    BY <1>1, <1>2, FS_Subset
  <1>4. Cardinality(A) \in Nat /\ Cardinality(B) \in Nat
    BY <1>3, FS_CardinalityType
  <1>5. f + Cardinality(B) <= m
    <2> HIDE DEF A, B
    <2> QED BY <1>1, <1>3, <1>4
  <1> QED BY <1>5 DEF EnoughIds

LEMMA NoFileless ==
    ASSUME NEW T, NEW f \in Nat, NEW n \in Nat, f <= n, IsFiniteSet(T),
           \A z \in T : z.file # 0
    PROVE  EnoughIds(T, f, n)
  <1>1. {z \in T : z.file = 0} = {}
    OBVIOUS
  <1> QED BY <1>1, FS_EmptySet DEF EnoughIds

LEMMA OneMore ==
    ASSUME NEW S, NEW y, NEW f \in Nat, NEW n \in Nat, EnoughIds(S, f, n)
    PROVE  /\ EnoughIds(S \union {y}, f, n + 1)
           /\ y.file # 0 => EnoughIds(S \union {y}, f + 1, n + 1)
  <1> DEFINE A == {z \in S : z.file = 0}
             B == {z \in S \union {y} : z.file = 0}
  <1>1. IsFiniteSet(S) /\ f + Cardinality(A) <= n
    BY DEF EnoughIds
  <1>2. IsFiniteSet(A) /\ Cardinality(A) \in Nat
    BY <1>1, FS_Subset, FS_CardinalityType
  <1>3. IsFiniteSet(S \union {y})
    BY <1>1, FS_AddElement
  <1>4. CASE y.file # 0
    <2>1. B = A
      BY <1>4
    <2>2. f + 1 + Cardinality(B) <= n + 1 /\ f + Cardinality(B) <= n + 1
      <3> HIDE DEF A, B
      <3> QED BY <1>1, <1>2, <2>1
    <2> QED BY <1>3, <2>2 DEF EnoughIds
  <1>5. CASE y.file = 0
    <2>1. B = A \union {y}
      BY <1>5
    <2> HIDE DEF A
    <2>2. Cardinality(A \union {y}) <= Cardinality(A) + 1 /\ Cardinality(A \union {y}) \in Nat
      BY <1>2, FS_AddElement
    <2>3. f + Cardinality(B) <= n + 1
      <3> HIDE DEF B
      <3> QED BY <1>1, <1>2, <2>1, <2>2
    <2> QED BY <1>3, <1>5, <2>3 DEF EnoughIds
  <1> QED BY <1>4, <1>5

LEMMA SnapshotEnough ==
    ASSUME RecoveryTypeOK, EnoughIds(queue, next_file_id, next_nzb_id)
    PROVE  EnoughIds(QueueSnapshot.nzbs, QueueSnapshot.next_file_id, QueueSnapshot.next_nzb_id)
  <1> DEFINE A == {z \in queue : z.file = 0}
             T == {Kept(z) : z \in queue}
             B == {k \in T : k.file = 0}
             g == [z \in queue |-> Kept(z)]
             h == [z \in A |-> Kept(z)]
  <1>1. /\ QueueSnapshot.nzbs = T /\ QueueSnapshot.next_file_id = next_file_id
        /\ QueueSnapshot.next_nzb_id = next_nzb_id
    BY DEF QueueSnapshot
  <1>2. \A z \in queue : Kept(z).file = z.file
    BY KeptType DEF RecoveryTypeOK
  <1>3. IsFiniteSet(queue) /\ next_file_id + Cardinality(A) <= next_nzb_id
    BY DEF EnoughIds
  <1>4. IsFiniteSet(A) /\ Cardinality(A) \in Nat
    BY <1>3, FS_Subset, FS_CardinalityType
  <1>5. g \in Surjection(queue, T)
    BY DEF Surjection
  <1>6. IsFiniteSet(T)
    BY <1>3, <1>5, FS_Surjection
  <1>7. h \in Surjection(A, B)
    BY <1>2 DEF Surjection
  <1>8. Cardinality(B) <= Cardinality(A) /\ IsFiniteSet(B)
    BY <1>4, <1>7, FS_Surjection
  <1>9. Cardinality(B) \in Nat
    BY <1>8, FS_CardinalityType
  <1>10. next_file_id \in Nat /\ next_nzb_id \in Nat
    BY DEF RecoveryTypeOK, Ids
  <1>11. next_file_id + Cardinality(B) <= next_nzb_id
    <2> HIDE DEF A, B
    <2> QED BY <1>3, <1>4, <1>8, <1>9, <1>10
  <1> QED BY <1>1, <1>6, <1>11 DEF EnoughIds

LEMMA QueueFilesStep ==
    ASSUME IdInv, [Next]_vars
    PROVE  EnoughIds(queue, next_file_id, next_nzb_id)'
  <1> USE DEF memory, disk
  <1>a. /\ RecoveryTypeOK /\ FilesInv /\ EnoughIds(queue, next_file_id, next_nzb_id)
        /\ next_nzb_id \in Nat /\ next_file_id \in Nat /\ IsFiniteSet(queue)
        /\ \A z \in queue : z \in Nzb
    BY DEF IdInv, FilesInv, RecoveryTypeOK, Ids, EnoughIds
  <1> DEFINE Goal == EnoughIds(queue', next_file_id', next_nzb_id')
  <1>1. ASSUME Elsewhere PROVE Goal
    BY <1>a, <1>1, ElsewhereKeeps
  <1>2. ASSUME NEW i \in Ingesters, NEW s \in Sources, IngestNzb(i, s) PROVE Goal
    <2> DEFINE y == [id |-> next_nzb_id, file |-> next_file_id, src |-> s, content |-> s,
                     run |-> run, done |-> {}, post |-> FALSE, dir |-> next_nzb_id]
    <2>1. y.file # 0
      BY <1>a DEF RecoveryTypeOK, Ids
    <2>2. /\ queue' = queue \union {y}
          /\ next_nzb_id' = next_nzb_id + 1 /\ next_file_id' = next_file_id + 1
      BY <1>2 DEF IngestNzb
    <2> HIDE DEF y
    <2> QED BY <1>a, <2>1, <2>2, OneMore
  <1>3. ASSUME NEW i \in Ingesters, NEW s \in Sources, RejectDuplicate(i, s) PROVE Goal
    <2>1. /\ queue' = queue /\ next_file_id' = next_file_id /\ next_nzb_id' = next_nzb_id + 1
      BY <1>3 DEF RejectDuplicate
    <2> QED BY <1>a, <2>1, FewerFileless
  <1>4. ASSUME NEW z \in queue, NEW a \in Articles, DownloadComplete(z, a) PROVE Goal
    <2> DEFINE y == [z EXCEPT !.done = @ \union {a}, !.post = (Articles \subseteq z.done \union {a})]
    <2>1. y.file # 0
      BY <1>4, <1>a DEF Nzb, DownloadComplete
    <2>2. /\ queue' = (queue \ {z}) \union {y}
          /\ next_nzb_id' = next_nzb_id /\ next_file_id' = next_file_id
      BY <1>4 DEF DownloadComplete, Replace
    <2> HIDE DEF y
    <2>3. IsFiniteSet(queue')
      BY <1>a, <2>2, FS_RemoveElement, FS_AddElement
    <2>4. {x \in queue' : x.file = 0} \subseteq {x \in queue : x.file = 0}
      BY <2>1, <2>2
    <2> QED BY <1>a, <2>2, <2>3, <2>4, FewerFileless
  <1>5. ASSUME NEW z \in queue, FinishPostProcessing(z) \/ DeleteNzb(z) PROVE Goal
    <2>1. queue' = queue \ {z} /\ next_nzb_id' = next_nzb_id /\ next_file_id' = next_file_id
      BY <1>5 DEF FinishPostProcessing, DeleteNzb
    <2>2. IsFiniteSet(queue')
      BY <1>a, <2>1, FS_RemoveElement
    <2>3. {x \in queue' : x.file = 0} \subseteq {x \in queue : x.file = 0}
      BY <2>1
    <2> QED BY <1>a, <2>1, <2>2, <2>3, FewerFileless
  <1>6. ASSUME NEW z \in history, HistoryRedownload(z) PROVE Goal
    <2> DEFINE y == [z EXCEPT !.id = next_nzb_id, !.run = run, !.done = {}, !.post = FALSE]
    <2>1. /\ queue' = queue \union {y}
          /\ next_nzb_id' = next_nzb_id + 1 /\ next_file_id' = next_file_id
      BY <1>6 DEF HistoryRedownload
    <2> HIDE DEF y
    <2> QED BY <1>a, <2>1, OneMore
  <1>7. ASSUME NEW z \in history, HistoryDelete(z) PROVE Goal
    BY <1>a, <1>7 DEF HistoryDelete
  <1>8. ASSUME Exit \/ Crash PROVE Goal
    <2>1. queue' = {} /\ next_file_id' = 1 /\ next_nzb_id' = 1
      BY <1>8 DEF Exit, Crash, Down
    <2> QED BY <2>1, NoFileless, FS_EmptySet
  <1>9. ASSUME Restart PROVE Goal
    <2> DEFINE g == [k \in Loadable |-> Restored(k)]
    <2>1. /\ queue' = {Restored(k) : k \in Loadable}
          /\ next_nzb_id' = disk_queue.next_nzb_id
          /\ next_file_id' = disk_queue.next_file_id + Cardinality(Fileless)
      BY <1>9 DEF Restart
    <2>2. /\ IsFiniteSet(Loadable) /\ Cardinality(Fileless) \in Nat
          /\ disk_queue.next_file_id + Cardinality(Fileless) <= disk_queue.next_nzb_id
      BY <1>a, FilelessBound
    <2>3. g \in Surjection(Loadable, queue')
      BY <2>1 DEF Surjection
    <2>4. IsFiniteSet(queue')
      BY <2>2, <2>3, FS_Surjection
    <2>5. \A z \in queue' : z.file # 0
      BY <1>a, <2>1, RestoredType
    <2>6. disk_queue.next_file_id \in Nat /\ disk_queue.next_nzb_id \in Nat
      BY <1>a DEF RecoveryTypeOK, QueueFile, Ids
    <2>7. next_file_id' \in Nat /\ next_nzb_id' \in Nat /\ next_file_id' <= next_nzb_id'
      BY <2>1, <2>2, <2>6
    <2> QED BY <2>4, <2>5, <2>7, NoFileless
  <1>10. Goal
    BY <1>1, <1>2, <1>3, <1>4, <1>5, <1>6, <1>7, <1>8, <1>9, StepKinds
  <1> QED BY <1>10 DEF EnoughIds

LEMMA FilesStep ==
    ASSUME IdInv, [Next]_vars
    PROVE  FilesInv'
  <1> DEFINE OnDisk == EnoughIds(disk_queue.nzbs, disk_queue.next_file_id, disk_queue.next_nzb_id)
             InSave == EnoughIds(flush.queue.nzbs, flush.queue.next_file_id, flush.queue.next_nzb_id)
  <1>1. RecoveryTypeOK /\ OnDisk /\ InSave /\ EnoughIds(queue, next_file_id, next_nzb_id)
    BY DEF IdInv, FilesInv
  <1>2. disk_queue' = disk_queue \/ disk_queue' = flush.queue
    BY <1>1, DiskSteps DEF SaveQueue, SaveHistory, FlushTick, StopSnapshot, TakeSnapshot, disk
  <1>3. OnDisk'
    BY <1>1, <1>2 DEF EnoughIds
  <1>4. flush'.queue = flush.queue \/ flush'.queue = QueueSnapshot \/ flush'.queue = EmptyQueue
    BY <1>1, DiskSteps
       DEF SaveQueue, SaveHistory, FlushTick, StopSnapshot, TakeSnapshot, NotSaving, RecoveryTypeOK
  <1>5. EnoughIds(EmptyQueue.nzbs, EmptyQueue.next_file_id, EmptyQueue.next_nzb_id)
    BY NoFileless, FS_EmptySet DEF EmptyQueue
  <1>6. EnoughIds(QueueSnapshot.nzbs, QueueSnapshot.next_file_id, QueueSnapshot.next_nzb_id)
    BY <1>1, SnapshotEnough
  <1>7. InSave'
    BY <1>1, <1>4, <1>5, <1>6 DEF EnoughIds
  <1> QED BY <1>3, <1>7, QueueFilesStep DEF FilesInv

-----------------------------------------------------------------------------
LEMMA IdInvInit == Init => IdInv
  <1> SUFFICES ASSUME Init PROVE IdInv
    OBVIOUS
  <1>1. RecoveryTypeOK
    BY RecoveryInitType
  <1>2. MemoryInv /\ DiskInv /\ FlushInv
    BY DEF Init, MemoryInv, DiskInv, FlushInv, Sound, OnePerId, Apart, Below, EmptyQueue, NotSaving,
           Saving, Running
  <1>3. EnoughIds({}, 1, 1)
    BY NoFileless, FS_EmptySet
  <1>4. FilesInv
    BY <1>3 DEF Init, FilesInv, EmptyQueue, NotSaving
  <1> QED BY <1>1, <1>2, <1>4 DEF IdInv

(* The ids of memory, of the disk and of the save under way belong         *)
(* together after every step, a crash and a restart among them.            *)
THEOREM IdInvCorrect == Spec => []IdInv
  <1>1. IdInv /\ [Next]_vars => IdInv'
    BY RecoveryNextType, MemoryStep, DiskStep, FlushStep, FilesStep DEF IdInv
  <1> QED BY <1>1, IdInvInit, PTL DEF Spec

(* An id names one NZB, however often the program is stopped or crashes    *)
(* between two writes, and is never given out again while it is in use.    *)
THEOREM IdsSurviveCrashes == Spec => []IdsAreUnique
  <1>1. IdInv => IdsAreUnique
    BY DEF IdInv, MemoryInv, OnePerId, Apart, Below, IdsAreUnique
  <1> QED BY <1>1, IdInvCorrect, PTL

-----------------------------------------------------------------------------
(* Progress.                                                               *)

(* An NZB of the queue was there before with no more done, or is new; a    *)
(* restart apart.                                                          *)
LEMMA QueueOwners ==
    ASSUME IdInv, [Next]_vars, ~Restart
    PROVE  /\ run' = run
           /\ \A z \in queue' :
                 \/ \E y \in queue : /\ OwnerOf(z) = OwnerOf(y) /\ z.run = y.run
                                     /\ z.file = y.file /\ y.done \subseteq z.done
                 \/ Running /\ OwnerOf(z) = <<run, next_nzb_id>> /\ z.run = run
           /\ \A z \in history' : \E y \in queue \union history : z = y
  <1> USE DEF memory
  <1>0. /\ RecoveryTypeOK /\ \A z \in queue \union history : z \in Nzb
    BY DEF IdInv, RecoveryTypeOK
  <1> DEFINE From(z, y) == /\ OwnerOf(z) = OwnerOf(y) /\ z.run = y.run
                           /\ z.file = y.file /\ y.done \subseteq z.done
             New(z) == Running /\ OwnerOf(z) = <<run, next_nzb_id>> /\ z.run = run
             Goal == /\ run' = run
                     /\ \A z \in queue' : (\E y \in queue : From(z, y)) \/ New(z)
                     /\ \A z \in history' : z \in queue \union history
  <1>1. \A z : From(z, z)
    OBVIOUS
  <1>2. ASSUME Elsewhere PROVE Goal
    BY <1>0, <1>1, <1>2, ElsewhereKeeps
  <1>3. ASSUME NEW i \in Ingesters, NEW s \in Sources, IngestNzb(i, s) PROVE Goal
    <2> DEFINE y == [id |-> next_nzb_id, file |-> next_file_id, src |-> s, content |-> s,
                     run |-> run, done |-> {}, post |-> FALSE, dir |-> next_nzb_id]
    <2>1. queue' = queue \union {y} /\ history' = history /\ run' = run /\ Running
      BY <1>3 DEF IngestNzb, MayStart, ScannerRuns, Running
    <2>2. New(y)
      BY <2>1 DEF OwnerOf
    <2> HIDE DEF y, From, New
    <2> QED BY <1>1, <2>1, <2>2
  <1>4. ASSUME NEW i \in Ingesters, NEW s \in Sources, RejectDuplicate(i, s) PROVE Goal
    BY <1>1, <1>4 DEF RejectDuplicate
  <1>5. ASSUME NEW z \in queue, NEW a \in Articles, DownloadComplete(z, a) PROVE Goal
    <2> DEFINE y == [z EXCEPT !.done = @ \union {a}, !.post = (Articles \subseteq z.done \union {a})]
    <2>1. From(y, z)
      BY <1>0 DEF Nzb, OwnerOf
    <2>2. queue' = (queue \ {z}) \union {y} /\ history' = history /\ run' = run
      BY <1>5 DEF DownloadComplete, Replace
    <2> HIDE DEF y, From, New
    <2> QED BY <1>1, <2>1, <2>2
  <1>6. ASSUME NEW z \in queue, FinishPostProcessing(z) \/ DeleteNzb(z) PROVE Goal
    <2>1. /\ queue' = queue \ {z} /\ run' = run
          /\ history' = history \/ history' = history \union {z}
      BY <1>6 DEF FinishPostProcessing, DeleteNzb
    <2> HIDE DEF From, New
    <2> QED BY <1>1, <2>1
  <1>7. ASSUME NEW z \in history, HistoryRedownload(z) PROVE Goal
    <2> DEFINE y == [z EXCEPT !.id = next_nzb_id, !.run = run, !.done = {}, !.post = FALSE]
    <2>1. queue' = queue \union {y} /\ history' = history \ {z} /\ run' = run /\ Running
      BY <1>7 DEF HistoryRedownload
    <2>2. New(y)
      BY <1>0, <2>1 DEF OwnerOf, Nzb
    <2> HIDE DEF y, From, New
    <2> QED BY <1>1, <2>1, <2>2
  <1>8. ASSUME NEW z \in history, HistoryDelete(z) PROVE Goal
    BY <1>1, <1>8 DEF HistoryDelete
  <1>9. ASSUME Exit \/ Crash PROVE Goal
    BY <1>9 DEF Exit, Crash, Down
  <1> HIDE DEF From, New
  <1>10. Goal
    BY <1>2, <1>3, <1>4, <1>5, <1>6, <1>7, <1>8, <1>9, StepKinds
  <1> QED BY <1>10 DEF From, New

(* What becomes of the states that are saved and are to be saved.          *)
LEMMA StatesSteps ==
    ASSUME RecoveryTypeOK, [Next]_vars
    PROVE  \/ TakeStates
           \/ \E s \in flush.states : SaveFileState(s)
           \/ SweepStates
           \/ file_states' = file_states /\ flush'.states \subseteq flush.states
  <1> USE DEF disk
  <1> DEFINE Goal == file_states' = file_states /\ flush'.states \subseteq flush.states
  <1>1. ASSUME NEW i \in Ingesters, NEW s \in Sources, IngestNzb(i, s) \/ RejectDuplicate(i, s)
        PROVE  Goal
    BY <1>1 DEF IngestNzb, RejectDuplicate
  <1>2. ASSUME NEW z \in queue, NEW a \in Articles, DownloadComplete(z, a) PROVE Goal
    BY <1>2 DEF DownloadComplete
  <1>3. ASSUME NEW z \in queue, FinishPostProcessing(z) \/ DeleteNzb(z) PROVE Goal
    BY <1>3 DEF FinishPostProcessing, DeleteNzb
  <1>4. ASSUME NEW z \in history, HistoryRedownload(z) \/ HistoryDelete(z) PROVE Goal
    BY <1>4 DEF HistoryRedownload, HistoryDelete
  <1>5. ASSUME Exit \/ Crash PROVE Goal
    BY <1>5 DEF Exit, Crash, Down, NotSaving
  <1>6. ASSUME Restart PROVE Goal
    BY <1>6 DEF Restart
  <1>7. ASSUME SaveFails PROVE Goal
    BY <1>7 DEF SaveFails, NotSaving
  <1>8. ASSUME NEW i \in Ingesters, SaveNzbFile(i) PROVE Goal
    BY <1>8 DEF SaveNzbFile
  <1>9. ASSUME RenameSource \/ UNCHANGED vars PROVE Goal
    BY <1>9 DEF RenameSource, vars
  <1>10. ASSUME FlushTick \/ StopSnapshot PROVE Goal
    BY <1>10 DEF FlushTick, StopSnapshot, TakeSnapshot
  <1>11. ASSUME SaveQueue \/ SaveHistory PROVE Goal
    BY <1>11 DEF SaveQueue, SaveHistory, RecoveryTypeOK
  <1> QED BY <1>1, <1>2, <1>3, <1>4, <1>5, <1>6, <1>7, <1>8, <1>9, <1>10, <1>11, StepKinds
          DEF Elsewhere

(* What was known stays known.                                             *)
LEMMA KnownStays ==
    ASSUME IdInv, [Next]_vars, NEW o \in Nat \X Nat, Known(o)
    PROVE  /\ o[1] <= run' /\ run <= run'
           /\ Running' /\ o[1] = run' => o[2] < next_nzb_id'
  <1>1. RecoveryTypeOK /\ RecoveryTypeOK'
    BY RecoveryNextType DEF IdInv
  <1>2. run \in Nat /\ next_nzb_id \in Nat /\ next_nzb_id' \in Nat /\ o[1] \in Nat /\ o[2] \in Nat
    BY <1>1 DEF RecoveryTypeOK, Ids
  <1>3. CASE Restart
    BY <1>2, <1>3 DEF Restart, Known
  <1>4. CASE ~Restart
    <2>1. run' = run /\ (Running' => Running /\ next_nzb_id <= next_nzb_id')
      BY <1>4, QueueIds, QueueOwners
    <2> QED BY <1>2, <2>1 DEF Known
  <1> QED BY <1>3, <1>4

LEMMA OwnersStep ==
    ASSUME IdInv, OwnersInv, [Next]_vars
    PROVE  OwnersInv'
  <1>0. /\ RecoveryTypeOK /\ run \in Nat /\ run' \in Nat /\ run <= run'
    <2>1. RecoveryTypeOK /\ RecoveryTypeOK'
      BY RecoveryNextType DEF IdInv
    <2>2. run' = run \/ run' = run + 1
      BY QueueOwners DEF Restart
    <2> QED BY <2>1, <2>2 DEF RecoveryTypeOK
  <1>1. \A z \in queue' \union history' : z.run <= run'
    <2>1. CASE Restart
      <3>1. /\ queue' = {Restored(k) : k \in Loadable}
            /\ history' = {RestoredHistory(z) : z \in disk_history}
        BY <2>1 DEF Restart
      <3>2. \A k \in Loadable : Restored(k).run = k.run /\ k \in disk_queue.nzbs /\ k.run \in Nat
        BY <1>0, RestoredType DEF IdInv, Loadable, RecoveryTypeOK, QueueFile
      <3>3. \A z \in disk_history : RestoredHistory(z).run = z.run /\ z.run \in Nat
        BY <1>0, RestoredHistoryType DEF RecoveryTypeOK, Nzb
      <3>4. \A z \in queue' : z.run <= run'
        BY <1>0, <3>1, <3>2 DEF OwnersInv
      <3>5. \A z \in history' : z.run <= run'
        BY <1>0, <3>1, <3>3 DEF OwnersInv
      <3> QED BY <3>4, <3>5
    <2>2. CASE ~Restart
      BY <1>0, <2>2, QueueOwners DEF OwnersInv
    <2> QED BY <2>1, <2>2
  <1>2. \A k \in disk_queue.nzbs \union flush.queue.nzbs : k.run <= run' /\ k.run \in Nat
    BY <1>0 DEF OwnersInv, RecoveryTypeOK, QueueFile
  <1>3. \A k \in QueueSnapshot.nzbs : k.run <= run'
    <2>1. \A z \in queue : Kept(z).run = z.run /\ z.run \in Nat
      BY <1>0, KeptType DEF RecoveryTypeOK, Nzb
    <2>2. QueueSnapshot.nzbs = {Kept(z) : z \in queue}
      BY DEF QueueSnapshot
    <2> QED BY <1>0, <2>1, <2>2 DEF OwnersInv
  <1>4. disk_queue' = disk_queue \/ disk_queue' = flush.queue
    BY <1>0, DiskSteps DEF SaveQueue, SaveHistory, FlushTick, StopSnapshot, TakeSnapshot, disk
  <1>5. flush'.queue = flush.queue \/ flush'.queue = QueueSnapshot \/ flush'.queue = EmptyQueue
    BY <1>0, DiskSteps
       DEF SaveQueue, SaveHistory, FlushTick, StopSnapshot, TakeSnapshot, NotSaving, RecoveryTypeOK
  <1>6. \A k \in disk_queue'.nzbs \union flush'.queue.nzbs : k.run <= run'
    BY <1>2, <1>3, <1>4, <1>5 DEF EmptyQueue
  <1>7. disk_history' = disk_history \/ disk_history' = flush.history
    BY <1>0, DiskSteps DEF SaveQueue, SaveHistory, FlushTick, StopSnapshot, TakeSnapshot, disk
  <1>8. flush'.history = flush.history \/ flush'.history = history \/ flush'.history = {}
    BY <1>0, DiskSteps
       DEF SaveQueue, SaveHistory, FlushTick, StopSnapshot, TakeSnapshot, NotSaving, RecoveryTypeOK
  <1>9. \A z \in disk_history \union flush.history \union history : z.run <= run' /\ z.run \in Nat
    BY <1>0 DEF OwnersInv, RecoveryTypeOK, Nzb
  <1>10. \A z \in disk_history' \union flush'.history : z.run <= run'
    BY <1>7, <1>8, <1>9
  <1> DEFINE KnownNext(o) == /\ o[1] <= run'
                             /\ Running' /\ o[1] = run' => o[2] < next_nzb_id'
  <1>11. \A f \in Ids : file_states[f].owner \in Nat \X Nat /\ Known(file_states[f].owner)
    BY <1>0 DEF OwnersInv, RecoveryTypeOK, FileState
  <1>12. \A s \in flush.states : /\ s.state.owner \in Nat \X Nat /\ Known(s.state.owner)
                                 /\ s.state.owner[1] > 0 /\ s.file \in Ids
    BY <1>0 DEF OwnersInv, RecoveryTypeOK, FileState
  <1>13. \A f \in Ids : KnownNext(file_states[f].owner)
    BY <1>11, KnownStays
  <1>14. \A s \in flush.states : KnownNext(s.state.owner)
    BY <1>12, KnownStays
  <1>15. /\ \A f \in Ids : KnownNext(file_states'[f].owner)
         /\ \A s \in flush'.states : s.state.owner[1] > 0 /\ KnownNext(s.state.owner)
    <2>1. CASE file_states' = file_states /\ flush'.states \subseteq flush.states
      BY <1>12, <1>13, <1>14, <2>1
    <2>2. CASE TakeStates
      <3>1. file_states' = file_states /\ flush'.states = build_all_file_article_states /\ Running
        BY <1>0, <2>2 DEF TakeStates, disk, RecoveryTypeOK
      <3>2. ASSUME NEW z \in queue PROVE StateOf(z).owner[1] > 0 /\ KnownNext(StateOf(z).owner)
        <4>1. z \in Nzb /\ z.run \in Nat \ {0} /\ z.id \in Nat
          BY <1>0 DEF RecoveryTypeOK, Nzb, Ids
        <4>2. StateOf(z).owner = <<z.run, z.id>>
          BY DEF StateOf, OwnerOf
        <4>3. z.run <= run /\ z.id < next_nzb_id
          BY DEF OwnersInv, IdInv, MemoryInv, Below
        <4>4. Known(<<z.run, z.id>>) /\ <<z.run, z.id>> \in Nat \X Nat
          BY <4>1, <4>3 DEF Known
        <4>5. KnownNext(<<z.run, z.id>>)
          BY <4>4, KnownStays
        <4> QED BY <4>1, <4>2, <4>5
      <3> HIDE DEF KnownNext
      <3> QED BY <1>13, <3>1, <3>2 DEF build_all_file_article_states
    <2>3. ASSUME NEW s \in flush.states, SaveFileState(s)
          PROVE  /\ \A f \in Ids : KnownNext(file_states'[f].owner)
                 /\ \A t \in flush'.states : t.state.owner[1] > 0 /\ KnownNext(t.state.owner)
      <3>1. /\ file_states' = [file_states EXCEPT ![s.file] = s.state]
            /\ flush'.states = flush.states \ {s}
        BY <1>0, <2>3 DEF SaveFileState, RecoveryTypeOK
      <3>2. \A f \in Ids : file_states'[f] = IF f = s.file THEN s.state ELSE file_states[f]
        BY <1>0, <3>1 DEF RecoveryTypeOK
      <3> HIDE DEF KnownNext
      <3> QED BY <1>12, <1>13, <1>14, <3>1, <3>2
    <2>4. CASE SweepStates
      <3>1. /\ flush'.states = {}
            /\ \A f \in Ids : file_states'[f] \in {NoState, file_states[f]}
        BY <2>4 DEF SweepStates, NotSaving
      <3>2. KnownNext(NoState.owner)
        <4>1. Running' => run' > 0
          BY RecoveryNextType DEF RecoveryTypeOK
        <4> QED BY <1>0, <4>1 DEF NoState
      <3> HIDE DEF KnownNext
      <3> QED BY <1>13, <3>1, <3>2
    <2> QED BY <1>0, <2>1, <2>2, <2>3, <2>4, StatesSteps
  <1> QED BY <1>1, <1>6, <1>10, <1>15 DEF OwnersInv, Known

(* What is saved of an NZB stays done in memory, whoever has its file.     *)
LEMMA SavedStays ==
    ASSUME IdInv, [Next]_vars, ~Restart, NEW f \in Ids, NEW state \in FileState,
           SavedIsDone(f, state), Known(state.owner)
    PROVE  \A z \in queue' : z.file = f /\ state.owner = OwnerOf(z) => state.done \subseteq z.done
  <1> SUFFICES ASSUME NEW z \in queue', z.file = f, state.owner = OwnerOf(z)
               PROVE  state.done \subseteq z.done
    OBVIOUS
  <1>1. CASE \E y \in queue : OwnerOf(z) = OwnerOf(y) /\ z.file = y.file /\ y.done \subseteq z.done
    BY <1>1 DEF SavedIsDone
  <1>2. CASE Running /\ OwnerOf(z) = <<run, next_nzb_id>>
    <2>1. state.owner[1] = run /\ state.owner[2] = next_nzb_id
      BY <1>2
    <2>2. next_nzb_id < next_nzb_id
      BY <1>2, <2>1 DEF Known
    <2> QED BY <2>2 DEF IdInv, RecoveryTypeOK, Ids
  <1> QED BY <1>1, <1>2, QueueOwners

LEMMA StatesStep ==
    ASSUME IdInv, OwnersInv, StatesInv, [Next]_vars
    PROVE  StatesInv'
  <1>0. /\ RecoveryTypeOK
        /\ \A f \in Ids : file_states[f] \in FileState
        /\ \A s \in flush.states : s.file \in Ids /\ s.state \in FileState
    BY DEF IdInv, RecoveryTypeOK
  <1>1. CASE file_states' = file_states /\ flush'.states \subseteq flush.states
    <2>1. \A f \in Ids : SavedIsDone(f, file_states[f])'
      <3>1. CASE Restart
        <4>1. queue' = {Restored(k) : k \in Loadable}
          BY <3>1 DEF Restart
        <4>2. \A k \in Loadable : Restored(k).file = FileOf(k)
                                  /\ Restored(k).done = file_states[FileOf(k)].done
          BY <1>0, RestoredType DEF IdInv
        <4> QED BY <1>1, <4>1, <4>2 DEF SavedIsDone
      <3>2. CASE ~Restart
        <4>1. \A f \in Ids : SavedIsDone(f, file_states[f]) /\ Known(file_states[f].owner)
          BY DEF StatesInv, OwnersInv
        <4>2. ASSUME NEW f \in Ids
              PROVE  \A z \in queue' : z.file = f /\ file_states[f].owner = OwnerOf(z)
                                          => file_states[f].done \subseteq z.done
          BY <1>0, <3>2, <4>1, SavedStays
        <4> QED BY <1>1, <4>2 DEF SavedIsDone
      <3> QED BY <3>1, <3>2
    <2>2. \A s \in flush'.states : SavedIsDone(s.file, s.state)'
      <3>1. CASE Restart
        <4>1. flush.states = {}
          BY <3>1 DEF Restart, Running, IdInv, MemoryInv, NotSaving
        <4> QED BY <1>1, <4>1
      <3>2. CASE ~Restart
        <4>1. \A s \in flush.states : SavedIsDone(s.file, s.state) /\ Known(s.state.owner)
          BY DEF StatesInv, OwnersInv
        <4>2. ASSUME NEW s \in flush.states
              PROVE  \A z \in queue' : z.file = s.file /\ s.state.owner = OwnerOf(z)
                                          => s.state.done \subseteq z.done
          BY <1>0, <3>2, <4>1, SavedStays
        <4> QED BY <1>1, <4>2 DEF SavedIsDone
      <3> QED BY <3>1, <3>2
    <2> QED BY <1>1, <2>1, <2>2 DEF StatesInv
  <1>2. CASE TakeStates
    <2>1. /\ file_states' = file_states /\ queue' = queue
          /\ flush'.states = build_all_file_article_states
      BY <1>0, <1>2 DEF TakeStates, memory, disk, RecoveryTypeOK
    <2>2. \A y, z \in queue : OwnerOf(y) = OwnerOf(z) => y = z
      BY DEF OwnerOf, IdInv, MemoryInv, OnePerId
    <2>3. ASSUME NEW s \in flush'.states
          PROVE  \E z \in queue : s.file = z.file /\ s.state = StateOf(z) /\ s = [file |-> z.file, state |-> StateOf(z)]
      BY <2>1 DEF build_all_file_article_states
    <2>4. \A z \in queue : StateOf(z).owner = OwnerOf(z) /\ StateOf(z).done = z.done
      BY DEF StateOf
    <2>5. \A s \in flush'.states : SavedIsDone(s.file, s.state)'
      BY <2>1, <2>2, <2>3, <2>4 DEF SavedIsDone
    <2>6. \A s \in flush'.states : file_states'[s.file].owner = s.state.owner
                                       => file_states'[s.file].done \subseteq s.state.done
      <3> SUFFICES ASSUME NEW s \in flush'.states, file_states[s.file].owner = s.state.owner
                   PROVE  file_states[s.file].done \subseteq s.state.done
        BY <2>1
      <3>1. PICK z \in queue : s = [file |-> z.file, state |-> StateOf(z)] /\ z.done # {}
        BY <2>1 DEF build_all_file_article_states
      <3>2. z.file \in Ids
        BY <1>0, <3>1 DEF IdInv, MemoryInv, RecoveryTypeOK, Nzb, File
      <3> QED BY <2>4, <3>1, <3>2 DEF StatesInv, SavedIsDone
    <2>7. \A s, t \in flush'.states : s.state.owner = t.state.owner => s = t
      BY <2>2, <2>3, <2>4
    <2>8. \A f \in Ids : SavedIsDone(f, file_states[f])'
      BY <2>1 DEF StatesInv, SavedIsDone
    <2> QED BY <2>5, <2>6, <2>7, <2>8 DEF StatesInv
  <1>3. ASSUME NEW s \in flush.states, SaveFileState(s) PROVE StatesInv'
    <2>1. /\ file_states' = [file_states EXCEPT ![s.file] = s.state]
          /\ flush'.states = flush.states \ {s} /\ queue' = queue
      BY <1>0, <1>3 DEF SaveFileState, memory, RecoveryTypeOK
    <2>2. \A f \in Ids : file_states'[f] = IF f = s.file THEN s.state ELSE file_states[f]
      BY <1>0, <2>1 DEF RecoveryTypeOK
    <2>3. \A f \in Ids : SavedIsDone(f, file_states[f])'
      BY <2>1, <2>2 DEF StatesInv, SavedIsDone
    <2>4. \A t \in flush'.states : SavedIsDone(t.file, t.state)'
      BY <2>1 DEF StatesInv, SavedIsDone
    <2>5. \A t \in flush'.states : file_states'[t.file].owner = t.state.owner
                                       => file_states'[t.file].done \subseteq t.state.done
      BY <1>0, <2>1, <2>2 DEF StatesInv
    <2>6. \A t, u \in flush'.states : t.state.owner = u.state.owner => t = u
      BY <2>1 DEF StatesInv
    <2> QED BY <2>3, <2>4, <2>5, <2>6 DEF StatesInv
  <1>4. CASE SweepStates
    <2>1. /\ flush'.states = {} /\ queue' = queue
          /\ \A f \in Ids : file_states'[f] \in {NoState, file_states[f]}
      BY <1>4 DEF SweepStates, NotSaving, memory
    <2>2. \A f \in Ids : SavedIsDone(f, file_states[f])'
      <3> SUFFICES ASSUME NEW f \in Ids PROVE SavedIsDone(f, file_states[f])'
        OBVIOUS
      <3>1. CASE file_states'[f] = NoState
        BY <2>1, <3>1 DEF NoState, SavedIsDone
      <3>2. CASE file_states'[f] = file_states[f]
        BY <2>1, <3>2 DEF StatesInv, SavedIsDone
      <3> QED BY <2>1, <3>1, <3>2
    <2> QED BY <2>1, <2>2 DEF StatesInv
  <1> QED BY <1>0, <1>1, <1>2, <1>3, <1>4, StatesSteps

LEMMA RecoveryInvStep == RecoveryInv /\ [Next]_vars => RecoveryInv'
  BY RecoveryNextType, MemoryStep, DiskStep, FlushStep, FilesStep, OwnersStep, StatesStep
     DEF RecoveryInv, IdInv

(* A state on disk, or on its way there, belongs to one NZB and is never   *)
(* ahead of what that NZB has done.                                        *)
THEOREM RecoveryInvCorrect == Spec => []RecoveryInv
  <1>1. Init => RecoveryInv
    <2> SUFFICES ASSUME Init PROVE RecoveryInv
      OBVIOUS
    <2>1. OwnersInv
      BY DEF Init, OwnersInv, EmptyQueue, NotSaving, NoState, Known, Running
    <2>2. StatesInv
      BY DEF Init, StatesInv, SavedIsDone, NotSaving
    <2> QED BY <2>1, <2>2, IdInvInit DEF RecoveryInv
  <1> QED BY <1>1, RecoveryInvStep, PTL DEF Spec

(* The articles saved as done of an NZB that stays in queue.json are never *)
(* fewer than they were: no flush, orderly stop, crash or restart, between *)
(* any two writes, undoes a download.                                      *)
THEOREM ProgressSurvivesCrashes == Spec => ProgressIsKept
  <1> DEFINE Preserved(k) ==
        (/\ k.file # 0 /\ file_states[k.file].owner = OwnerOf(k)
         /\ file_states'[k.file].owner \in {OwnerOf(k), NoState.owner}) =>
              file_states[k.file].done \subseteq file_states'[k.file].done
             KeptNow == \A k \in disk_queue.nzbs \intersect disk_queue'.nzbs : Preserved(k)
  <1>1. ASSUME RecoveryInv, Next PROVE KeptNow
    <2>1. RecoveryTypeOK /\ IdInv /\ StatesInv /\ OwnersInv
      BY <1>1 DEF RecoveryInv, IdInv
    <2> SUFFICES ASSUME NEW k \in disk_queue.nzbs, k \in disk_queue'.nzbs,
                        k.file # 0, file_states[k.file].owner = OwnerOf(k),
                        file_states'[k.file].owner \in {OwnerOf(k), NoState.owner}
                 PROVE  file_states[k.file].done \subseteq file_states'[k.file].done
      OBVIOUS
    <2>2. k.file \in Ids
      BY <2>1 DEF RecoveryTypeOK, QueueFile, File
    <2>3. CASE file_states' = file_states
      BY <2>3
    <2>4. ASSUME NEW s \in flush.states, SaveFileState(s)
          PROVE  file_states[k.file].done \subseteq file_states'[k.file].done
      <3>1. /\ file_states' = [file_states EXCEPT ![s.file] = s.state]
        BY <2>4 DEF SaveFileState
      <3>2. CASE s.file # k.file
        BY <3>1, <3>2
      <3>3. CASE s.file = k.file
        <4>1. file_states'[k.file] = s.state
          BY <2>1, <2>2, <3>1, <3>3 DEF RecoveryTypeOK
        <4>2. s.state.owner # NoState.owner
          BY <2>1 DEF OwnersInv, NoState
        <4>3. s.state.owner = file_states[s.file].owner
          BY <3>3, <4>1, <4>2
        <4> QED BY <2>1, <3>3, <4>1, <4>3 DEF StatesInv
      <3> QED BY <3>2, <3>3
    <2>5. CASE SweepStates
      <3>1. flush.step = "files" /\ Saving
        BY <2>5 DEF SweepStates, Saving
      <3>2. disk_queue = flush.queue
        BY <2>1, <3>1 DEF IdInv, FlushInv
      <3>3. k.file \in ActiveFiles
        BY <3>2 DEF ActiveFiles
      <3>4. file_states'[k.file] = file_states[k.file]
        BY <2>2, <2>5, <3>3 DEF SweepStates
      <3> QED BY <3>4
    <2>6. CASE TakeStates
      BY <2>6 DEF TakeStates, disk
    <2> QED BY <1>1, <2>1, <2>3, <2>4, <2>5, <2>6, StatesSteps
  <1>2. RecoveryInv /\ [Next]_vars => [KeptNow]_vars
    BY <1>1
  <1>3. ProgressIsKept <=> [][KeptNow]_vars
    BY DEF ProgressIsKept
  <1> HIDE DEF KeptNow
  <1> QED BY <1>2, <1>3, RecoveryInvCorrect, PTL DEF Spec
=============================================================================
