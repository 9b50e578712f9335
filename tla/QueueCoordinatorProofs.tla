----------------------- MODULE QueueCoordinatorProofs -----------------------
(* Theorems about QueueCoordinator, for every value of its constants: the  *)
(* types, and that the bookkeeping of the downloads is exact.              *)
EXTENDS QueueCoordinator, SequenceLemmas

USE DEF NoNzb

-----------------------------------------------------------------------------
(* NZB records.                                                            *)

LEMMA SegmentStatusType == Terminal \subseteq SegmentStatus
  BY DEF Terminal, SegmentStatus

LEMMA NewNzbType ==
    ASSUME NEW p \in Priorities, NEW b \in BOOLEAN
    PROVE  NewNzb(p, b) \in NzbRecord
  BY CoordinatorAssumption DEF NewNzb, NzbRecord, SegmentStatus

LEMMA BlankType == Blank \in NzbRecord
  <1>1. (CHOOSE p \in Priorities : TRUE) \in Priorities
    BY CoordinatorAssumption
  <1> QED BY <1>1, NewNzbType DEF Blank

LEMMA TruncatedType == \A m \in Int : Truncated(m) \in Nat
  BY DEF Truncated

(* Changing the status of an article leaves its NZB a record.              *)
LEMMA SegsUpdateType ==
    ASSUME NEW z \in NzbRecord, NEW x \in Files \X Segments,
           NEW st \in SegmentStatus
    PROVE  [z EXCEPT !.segs[x] = st] \in NzbRecord
  <1> DEFINE t == [z.segs EXCEPT ![x] = st]
  <1>1. t \in [Files \X Segments -> SegmentStatus]
    BY DEF NzbRecord
  <1> HIDE DEF t
  <1>2. [z EXCEPT !.segs = t] \in NzbRecord
    BY <1>1 DEF NzbRecord
  <1> QED BY <1>2 DEF t

(* The outcome of an article leaves its NZB a record.                      *)
LEMMA SettledType ==
    ASSUME NEW z \in NzbRecord, NEW x \in Files \X Segments, NEW outcome
    PROVE  Settled(z, x, outcome) \in NzbRecord
  <1>1. z.segs \in [Files \X Segments -> SegmentStatus]
        /\ z.success \in Nat /\ z.failed \in Nat /\ z.par_failed \in Nat
    BY DEF NzbRecord
  <1>2. ASSUME NEW st \in SegmentStatus
        PROVE  [z.segs EXCEPT ![x] = st] \in [Files \X Segments -> SegmentStatus]
    BY <1>1
  <1>3. "Finished" \in SegmentStatus /\ "Failed" \in SegmentStatus
    BY DEF SegmentStatus
  <1>4. CASE outcome = "Success"
    <2> DEFINE t == [z.segs EXCEPT ![x] = "Finished"]
               s == z.success + 1
    <2>1. t \in [Files \X Segments -> SegmentStatus] /\ s \in Nat
      BY <1>1, <1>2, <1>3
    <2> HIDE DEF t, s
    <2>2. [z EXCEPT !.segs = t, !.success = s] \in NzbRecord
      BY <2>1 DEF NzbRecord
    <2> QED BY <1>4, <2>2 DEF Settled, t, s
  <1>5. CASE outcome # "Success"
    <2> DEFINE t == [z.segs EXCEPT ![x] = "Failed"]
               s == z.failed + 1
               p == IF x[1] \in ParNamed THEN z.par_failed + 1 ELSE z.par_failed
    <2>1. t \in [Files \X Segments -> SegmentStatus] /\ s \in Nat /\ p \in Nat
      BY <1>1, <1>2, <1>3
    <2> HIDE DEF t, s, p
    <2>2. [z EXCEPT !.segs = t, !.failed = s, !.par_failed = p] \in NzbRecord
      BY <2>1 DEF NzbRecord
    <2> QED BY <1>5, <2>2 DEF Settled, t, s, p
  <1> QED BY <1>4, <1>5

LEMMA CheckFileCompletionType ==
    ASSUME NEW z \in NzbRecord, NEW f \in Files
    PROVE  CheckFileCompletion(z, f) \in NzbRecord
  <1>1. z.completed \in [Files -> BOOLEAN] /\ z.remaining_files \in Nat
    BY DEF NzbRecord
  <1> DEFINE c == [z.completed EXCEPT ![f] = TRUE]
             r == Truncated(z.remaining_files - 1)
  <1>2. c \in [Files -> BOOLEAN] /\ r \in Nat
    BY <1>1, TruncatedType
  <1> HIDE DEF c, r
  <1>3. [z EXCEPT !.completed = c, !.remaining_files = r] \in NzbRecord
    BY <1>2 DEF NzbRecord
  <1> QED BY <1>3 DEF CheckFileCompletion, c, r

LEMMA RedownloadedType ==
    ASSUME NEW z \in NzbRecord PROVE Redownloaded(z) \in NzbRecord
  BY DEF Redownloaded, NzbRecord, SegmentStatus

(* Of a queue that holds n, the rest is a queue.                           *)
LEMMA WithoutType ==
    ASSUME queue \in Seq(NzbIds), NEW n, InQueue(n)
    PROVE  Without(n) \in Seq(NzbIds) /\ n \in NzbIds
  <1> DEFINE i == CHOOSE j \in DOMAIN queue : queue[j] = n
  <1>1. i \in DOMAIN queue /\ queue[i] = n
    BY DEF InQueue, Range
  <1>2. n \in NzbIds
    BY <1>1
  <1>3. RemoveAt(queue, i) \in Seq(NzbIds)
    BY <1>1, RemoveAtElements
  <1> QED BY <1>2, <1>3 DEF Without
-----------------------------------------------------------------------------
(* Type correctness, an action at a time.                                  *)

LEMMA DispatchArticleType == TypeOK /\ DispatchArticle => TypeOK'
  <1> SUFFICES ASSUME TypeOK, DispatchArticle PROVE TypeOK'
    OBVIOUS
  <1>1. PICK a \in ArticleIds, s \in Servers :
           /\ assignments' = Append(assignments, a)
           /\ nzb' = [nzb EXCEPT ![a[1]].segs[<<a[2], a[3]>>] = "Running"]
           /\ active' = [active EXCEPT ![a] = s]
           /\ active_per_file' = [active_per_file EXCEPT ![<<a[1], a[2]>>] = @ + 1]
           /\ active_count' = [active_count EXCEPT ![s] = @ + 1]
    BY DEF DispatchArticle
  <1>2. a[1] \in NzbIds /\ <<a[2], a[3]>> \in Files \X Segments
        /\ <<a[1], a[2]>> \in NzbIds \X Files
    BY DEF ArticleIds
  <1>3. nzb' \in [NzbIds -> NzbRecord]
    <2>1. [nzb[a[1]] EXCEPT !.segs[<<a[2], a[3]>>] = "Running"] \in NzbRecord
      BY <1>2, SegsUpdateType DEF TypeOK, SegmentStatus
    <2> QED BY <1>1, <1>2, <2>1 DEF TypeOK
  <1>4. active_per_file' \in [NzbIds \X Files -> Nat]
    BY <1>1, <1>2 DEF TypeOK
  <1>5. active_count' \in [Servers -> Nat]
    BY <1>1 DEF TypeOK
  <1>6. active' \in [ArticleIds -> Servers \union {NoServer}]
    BY <1>1 DEF TypeOK
  <1>7. assignments' \in Seq(ArticleIds)
    BY <1>1 DEF TypeOK
  <1> QED
    BY <1>3, <1>4, <1>5, <1>6, <1>7
    DEF DispatchArticle, TypeOK, lists, controls, pipeline

LEMMA FillDoneType == TypeOK /\ FillDone => TypeOK'
  <1> SUFFICES ASSUME TypeOK, FillDone PROVE TypeOK'
    OBVIOUS
  <1>1. CASE shutdown /\ Active = {}
    BY <1>1 DEF TypeOK, FillDone, lists, controls, slots, pipeline
  <1>2. CASE ~(shutdown /\ Active = {})
    BY <1>2 DEF TypeOK, FillDone, lists, controls, slots, pipeline
  <1> QED BY <1>1, <1>2

LEMMA RefillTickType == TypeOK /\ RefillTick => TypeOK'
  BY DEF TypeOK, RefillTick, lists, controls, slots, worker, pipeline

LEMMA StartFetchType == TypeOK /\ StartFetch => TypeOK'
  <1> SUFFICES ASSUME TypeOK, StartFetch PROVE TypeOK'
    OBVIOUS
  <1>1. Head(assignments) \in ArticleIds /\ Tail(assignments) \in Seq(ArticleIds)
    BY DEF TypeOK, StartFetch
  <1> QED
    BY <1>1 DEF TypeOK, StartFetch, lists, controls, slots, pipeline

LEMMA FetchDoneType ==
    ASSUME NEW a \in ArticleIds PROVE TypeOK /\ FetchDone(a) => TypeOK'
  <1> SUFFICES ASSUME TypeOK, FetchDone(a) PROVE TypeOK'
    OBVIOUS
  <1>1. results' \in Seq(DownloadResult)
    <2>1. CASE pc = "stopped"
      BY <2>1 DEF FetchDone, TypeOK
    <2>2. CASE pc # "stopped"
      <3>1. PICK o \in Outcomes :
               results' = Append(results, [art |-> a, outcome |-> o])
        BY <2>2 DEF FetchDone
      <3>2. [art |-> a, outcome |-> o] \in DownloadResult
        BY DEF DownloadResult
      <3> QED BY <3>1, <3>2 DEF TypeOK
    <2> QED BY <2>1, <2>2
  <1> QED
    BY <1>1 DEF TypeOK, FetchDone, lists, controls, slots, pipeline

LEMMA WithNzbType ==
    ASSUME TypeOK, NEW n \in NzbIds, NEW z \in NzbRecord
    PROVE  [nzb EXCEPT ![n] = z] \in [NzbIds -> NzbRecord]
  BY DEF TypeOK

LEMMA SettleArticleType ==
    ASSUME TypeOK, NEW n \in NzbIds, NEW x \in Files \X Segments, NEW o,
           InQueue(n), SettleArticle(n, x, o)
    PROVE  /\ queue' \in Seq(NzbIds) /\ history' \subseteq NzbIds
           /\ nzb' \in [NzbIds -> NzbRecord]
           /\ paused' \in BOOLEAN /\ completions' \in Seq(NzbIds)
  <1> DEFINE z == Settled(nzb[n], x, o)
             c == CheckFileCompletion(z, x[1])
  <1>1. z \in NzbRecord
    BY SettledType DEF TypeOK
  <1>2. c \in NzbRecord
    BY <1>1, CheckFileCompletionType
  <1>3. paused' \in BOOLEAN
    BY DEF SettleArticle, TypeOK
  <1> HIDE DEF z, c
  <1>4. CASE HealthFailed(z)
    <2>1. [z EXCEPT !.delete_status = "Health"] \in NzbRecord
      BY <1>1 DEF NzbRecord
    <2>2. /\ queue' = Without(n) /\ history' = history \union {n}
          /\ nzb' = [nzb EXCEPT ![n] = [z EXCEPT !.delete_status = "Health"]]
          /\ completions' = completions
      BY <1>4 DEF SettleArticle, z
    <2> QED BY <1>3, <2>1, <2>2, WithoutType, WithNzbType DEF TypeOK
  <1>5. CASE ~HealthFailed(z)
    <2>1. CheckNzbCompletion(n, c) /\ UNCHANGED <<queue, history>>
      BY <1>5 DEF SettleArticle, z, c
    <2>2. [c EXCEPT !.post = TRUE] \in NzbRecord
      BY <1>2 DEF NzbRecord
    <2>3. nzb' \in [NzbIds -> NzbRecord]
      BY <1>2, <2>1, <2>2, WithNzbType DEF CheckNzbCompletion
    <2>4. completions' \in Seq(NzbIds)
      BY <2>1 DEF CheckNzbCompletion, TypeOK
    <2> QED BY <1>3, <2>1, <2>3, <2>4 DEF TypeOK
  <1> QED BY <1>4, <1>5

LEMMA HandleDownloadCompleteType == TypeOK /\ HandleDownloadComplete => TypeOK'
  <1> SUFFICES ASSUME TypeOK, HandleDownloadComplete PROVE TypeOK'
    OBVIOUS
  <1> DEFINE a == Head(results).art
             x == <<a[2], a[3]>>
             o == Head(results).outcome
  <1>1. /\ Head(results) \in DownloadResult
        /\ results' \in Seq(DownloadResult)
    BY DEF HandleDownloadComplete, TypeOK
  <1>2. /\ a \in ArticleIds /\ a[1] \in NzbIds /\ x \in Files \X Segments
        /\ <<a[1], a[2]>> \in NzbIds \X Files
    BY <1>1 DEF DownloadResult, ArticleIds
  <1>3. /\ ReleaseSlot(a)
        /\ IgnoreResult(a[1], x) \/ ApplyOutcome(a[1], x, o)
    BY DEF HandleDownloadComplete
  <1> HIDE DEF a, o
  <1>4. active' \in [ArticleIds -> Servers \union {NoServer}]
    BY <1>3 DEF ReleaseSlot, TypeOK
  <1>5. active_per_file' \in [NzbIds \X Files -> Nat]
    <2>1. active_per_file[<<a[1], a[2]>>] \in Nat
      BY <1>2 DEF TypeOK
    <2>2. Truncated(active_per_file[<<a[1], a[2]>>] - 1) \in Nat
      BY <2>1, TruncatedType
    <2> QED BY <1>2, <1>3, <2>2 DEF ReleaseSlot, TypeOK
  <1>6. active_count' \in [Servers -> Nat]
    BY SMTT(30), <1>3, TruncatedType DEF ReleaseSlot, TypeOK
  <1>7. /\ queue' \in Seq(NzbIds) /\ history' \subseteq NzbIds
        /\ nzb' \in [NzbIds -> NzbRecord]
        /\ paused' \in BOOLEAN /\ completions' \in Seq(NzbIds)
    <2>1. CASE IgnoreResult(a[1], x)
      BY <2>1 DEF IgnoreResult, TypeOK
    <2>2. CASE ApplyOutcome(a[1], x, o) /\ o = "Blocked"
      <3>1. BlockDownloads(a[1], x)
        BY <2>2 DEF ApplyOutcome
      <3>2. [nzb[a[1]] EXCEPT !.segs[x] = "Undefined"] \in NzbRecord
        BY <1>2, SegsUpdateType DEF TypeOK, SegmentStatus
      <3> QED BY <1>2, <3>1, <3>2 DEF BlockDownloads, TypeOK
    <2>3. CASE ApplyOutcome(a[1], x, o) /\ o # "Blocked"
      BY <1>2, <2>3, SettleArticleType DEF ApplyOutcome
    <2> QED BY <1>3, <2>1, <2>2, <2>3
  <1> QED
    BY <1>1, <1>4, <1>5, <1>6, <1>7 DEF HandleDownloadComplete, TypeOK

(* The commands on the queue.                                              *)
LEMMA AddNzbType == TypeOK /\ AddNzb => TypeOK'
  <1> SUFFICES ASSUME TypeOK, AddNzb PROVE TypeOK'
    OBVIOUS
  <1>1. next_nzb_id \in NzbIds /\ next_nzb_id' \in 1..(MaxNzbId + 1)
    BY CoordinatorAssumption DEF AddNzb, TypeOK, NzbIds
  <1>2. queue' \in Seq(NzbIds) /\ nzb' \in [NzbIds -> NzbRecord]
    <2>1. CASE UNCHANGED <<nzb, queue>>
      BY <2>1 DEF TypeOK
    <2>2. CASE ~UNCHANGED <<nzb, queue>>
      <3>1. PICK p \in Priorities, b \in BOOLEAN :
               /\ nzb' = [nzb EXCEPT ![next_nzb_id] = NewNzb(p, b)]
               /\ queue' \in {Append(queue, next_nzb_id), <<next_nzb_id>> \o queue}
        BY <2>2 DEF AddNzb
      <3>2. NewNzb(p, b) \in NzbRecord
        BY NewNzbType
      <3>3. nzb' \in [NzbIds -> NzbRecord]
        BY <1>1, <3>1, <3>2, WithNzbType
      <3>4. /\ Append(queue, next_nzb_id) \in Seq(NzbIds)
            /\ <<next_nzb_id>> \o queue \in Seq(NzbIds)
        BY <1>1 DEF TypeOK
      <3> QED BY <3>1, <3>3, <3>4
    <2> QED BY <2>1, <2>2
  <1> QED
    BY <1>1, <1>2
    DEF TypeOK, AddNzb, Command, controls, OthersUnchanged, slots, worker, pipeline

LEMMA QueueChangeType ==
    ASSUME TypeOK, pc' = "fill",
           queue' \in Seq(NzbIds), nzb' \in [NzbIds -> NzbRecord],
           UNCHANGED <<history, next_nzb_id, controls>>, OthersUnchanged
    PROVE  TypeOK'
  BY DEF TypeOK, controls, OthersUnchanged, slots, worker, pipeline

LEMMA RemoveNzbType ==
    ASSUME NEW n \in NzbIds PROVE TypeOK /\ RemoveNzb(n) => TypeOK'
  <1> SUFFICES ASSUME TypeOK, RemoveNzb(n) PROVE TypeOK'
    OBVIOUS
  <1>1. queue' \in Seq(NzbIds)
    BY WithoutType DEF RemoveNzb, TypeOK
  <1>2. nzb' \in [NzbIds -> NzbRecord]
    BY BlankType, WithNzbType DEF RemoveNzb
  <1> QED BY <1>1, <1>2, QueueChangeType DEF RemoveNzb, Command

LEMMA MoveToMissingType ==
    ASSUME NEW n \in NzbIds PROVE TypeOK /\ MoveToMissing(n) => TypeOK'
  <1> SUFFICES ASSUME TypeOK, MoveToMissing(n) PROVE TypeOK'
    OBVIOUS
  <1>1. queue' \in Seq(NzbIds)
    BY WithoutType DEF MoveToMissing, TypeOK
  <1>2. nzb' \in [NzbIds -> NzbRecord]
    BY BlankType, WithNzbType DEF MoveToMissing
  <1> QED BY <1>1, <1>2, QueueChangeType DEF MoveToMissing, Command

LEMMA MoveNzbType ==
    ASSUME NEW n \in NzbIds PROVE TypeOK /\ MoveNzb(n) => TypeOK'
  <1> SUFFICES ASSUME TypeOK, MoveNzb(n) PROVE TypeOK'
    OBVIOUS
  <1>1. PICK i \in DOMAIN queue : queue' = InsertAt(Without(n), i, n)
    BY DEF MoveNzb
  <1>2. Without(n) \in Seq(NzbIds) /\ i \in 1..(Len(Without(n)) + 1)
    <2> DEFINE j == CHOOSE k \in DOMAIN queue : queue[k] = n
    <2>1. j \in DOMAIN queue
      BY DEF MoveNzb, InQueue, Range
    <2> HIDE DEF j
    <2>2. /\ RemoveAt(queue, j) \in Seq(NzbIds)
          /\ Len(RemoveAt(queue, j)) = Len(queue) - 1
      BY <2>1, RemoveAtElements DEF TypeOK
    <2>3. queue \in Seq(NzbIds)
      BY DEF TypeOK
    <2>4. i \in 1..(Len(queue) - 1 + 1)
      BY <1>1, <2>3
    <2> QED BY <2>2, <2>4 DEF Without, j
  <1>3. queue' \in Seq(NzbIds)
    BY <1>1, <1>2, InsertAtElements
  <1> QED BY <1>3, QueueChangeType DEF MoveNzb, Command, TypeOK

LEMMA SetNzbPausedType ==
    ASSUME NEW n \in NzbIds PROVE TypeOK /\ SetNzbPaused(n) => TypeOK'
  <1> SUFFICES ASSUME TypeOK, SetNzbPaused(n) PROVE TypeOK'
    OBVIOUS
  <1> DEFINE b == ~nzb[n].paused
  <1>1. nzb[n] \in NzbRecord /\ b \in BOOLEAN
    BY DEF TypeOK
  <1>2. nzb' = [nzb EXCEPT ![n] = [nzb[n] EXCEPT !.paused = b]]
    BY DEF SetNzbPaused, TypeOK
  <1> HIDE DEF b
  <1>3. [nzb[n] EXCEPT !.paused = b] \in NzbRecord
    BY <1>1 DEF NzbRecord
  <1>4. nzb' \in [NzbIds -> NzbRecord]
    BY <1>2, <1>3, WithNzbType
  <1> QED BY <1>4, QueueChangeType DEF SetNzbPaused, Command, TypeOK

LEMMA SetFilePausedType ==
    ASSUME NEW n \in NzbIds, NEW f \in Files
    PROVE  TypeOK /\ SetFilePaused(n, f) => TypeOK'
  <1> SUFFICES ASSUME TypeOK, SetFilePaused(n, f) PROVE TypeOK'
    OBVIOUS
  <1> DEFINE g == [nzb[n].file_paused EXCEPT ![f] = ~nzb[n].file_paused[f]]
  <1>1. nzb[n] \in NzbRecord /\ g \in [Files -> BOOLEAN]
    BY DEF TypeOK, NzbRecord
  <1>2. nzb' = [nzb EXCEPT ![n] = [nzb[n] EXCEPT !.file_paused = g]]
    BY DEF SetFilePaused, TypeOK
  <1> HIDE DEF g
  <1>3. [nzb[n] EXCEPT !.file_paused = g] \in NzbRecord
    BY <1>1 DEF NzbRecord
  <1>4. nzb' \in [NzbIds -> NzbRecord]
    BY <1>2, <1>3, WithNzbType
  <1> QED BY <1>4, QueueChangeType DEF SetFilePaused, Command, TypeOK

LEMMA ParUnpauseType ==
    ASSUME NEW n \in NzbIds PROVE TypeOK /\ ParUnpause(n) => TypeOK'
  <1> SUFFICES ASSUME TypeOK, ParUnpause(n) PROVE TypeOK'
    OBVIOUS
  <1> DEFINE g == [f \in Files |-> f \notin ParNamed /\ nzb[n].file_paused[f]]
  <1>1. nzb[n] \in NzbRecord /\ g \in [Files -> BOOLEAN]
    BY DEF TypeOK
  <1>2. nzb' = [nzb EXCEPT ![n] = [nzb[n] EXCEPT !.file_paused = g]]
    BY DEF ParUnpause, TypeOK
  <1> HIDE DEF g
  <1>3. [nzb[n] EXCEPT !.file_paused = g] \in NzbRecord
    BY <1>1 DEF NzbRecord
  <1>4. nzb' \in [NzbIds -> NzbRecord]
    BY <1>2, <1>3, WithNzbType
  <1> QED BY <1>4, QueueChangeType DEF ParUnpause, Command, TypeOK

LEMMA SetPriorityType ==
    ASSUME NEW n \in NzbIds, NEW p \in Priorities
    PROVE  TypeOK /\ SetPriority(n, p) => TypeOK'
  <1> SUFFICES ASSUME TypeOK, SetPriority(n, p) PROVE TypeOK'
    OBVIOUS
  <1>1. nzb[n] \in NzbRecord
    BY DEF TypeOK
  <1>2. [nzb[n] EXCEPT !.priority = p] \in NzbRecord
    BY <1>1 DEF NzbRecord
  <1>3. nzb' \in [NzbIds -> NzbRecord]
    BY <1>2, WithNzbType DEF SetPriority
  <1> QED BY <1>3, QueueChangeType DEF SetPriority, Command, TypeOK

LEMMA PauseAllType == TypeOK /\ PauseAll => TypeOK'
  BY DEF TypeOK, PauseAll, Command, lists, OthersUnchanged, slots, worker, pipeline

LEMMA ResumeAllType == TypeOK /\ ResumeAll => TypeOK'
  <1> SUFFICES ASSUME TypeOK, ResumeAll PROVE TypeOK'
    OBVIOUS
  <1>1. \A n \in NzbIds : nzb[n] \in NzbRecord
    BY DEF TypeOK
  <1>2. ASSUME NEW n \in NzbIds PROVE [nzb[n] EXCEPT !.paused = FALSE] \in NzbRecord
    BY <1>1 DEF NzbRecord
  <1>3. nzb' \in [NzbIds -> NzbRecord]
    BY <1>1, <1>2 DEF ResumeAll
  <1> QED
    BY <1>3 DEF TypeOK, ResumeAll, Command, OthersUnchanged, slots, worker, pipeline

LEMMA SetStrategyType == TypeOK /\ SetStrategy => TypeOK'
  BY CoordinatorAssumption
  DEF TypeOK, SetStrategy, Command, lists, OthersUnchanged, slots, worker, pipeline

LEMMA ShutdownType == TypeOK /\ Shutdown => TypeOK'
  BY DEF TypeOK, Shutdown, Command, lists, worker, pipeline

-----------------------------------------------------------------------------
(* The commands of the history.                                            *)

LEMMA RequeuedType ==
    ASSUME NEW h \in NzbIds, NEW z \in NzbRecord, TypeOK, Requeued(h, z)
    PROVE  /\ queue' \in Seq(NzbIds) /\ history' \subseteq NzbIds
           /\ nzb' \in [NzbIds -> NzbRecord]
           /\ next_nzb_id \in NzbIds
           /\ next_nzb_id' \in 1..(MaxNzbId + 1)
  <1>1. next_nzb_id \in NzbIds /\ next_nzb_id' \in 1..(MaxNzbId + 1)
    BY CoordinatorAssumption DEF Requeued, TypeOK, NzbIds
  <1>2. queue' \in Seq(NzbIds)
    BY <1>1, AppendProperties DEF Requeued, TypeOK
  <1>3. nzb' \in [NzbIds -> NzbRecord]
    BY <1>1, BlankType DEF Requeued, TypeOK
  <1> QED BY <1>1, <1>2, <1>3 DEF Requeued, TypeOK

LEMMA HistoryReturnType ==
    ASSUME NEW h \in NzbIds PROVE TypeOK /\ HistoryReturn(h) => TypeOK'
  <1> SUFFICES ASSUME TypeOK, HistoryReturn(h) PROVE TypeOK'
    OBVIOUS
  <1> DEFINE z == [nzb[h] EXCEPT !.paused = FALSE]
  <1>1. nzb[h] \in NzbRecord
    BY DEF TypeOK
  <1>2. z \in NzbRecord
    BY <1>1 DEF NzbRecord
  <1>3. Requeued(h, z)
    BY DEF HistoryReturn
  <1> HIDE DEF z
  <1> QED
    BY <1>2, <1>3, RequeuedType
    DEF TypeOK, HistoryReturn, Command, controls, OthersUnchanged, slots, worker, pipeline

LEMMA HistoryProcessType ==
    ASSUME NEW h \in NzbIds PROVE TypeOK /\ HistoryProcess(h) => TypeOK'
  <1> SUFFICES ASSUME TypeOK, HistoryProcess(h) PROVE TypeOK'
    OBVIOUS
  <1> DEFINE c == [f \in Files |-> TRUE]
             z == [nzb[h] EXCEPT !.paused = FALSE, !.delete_status = "None",
                                 !.completed = c, !.remaining_files = 0,
                                 !.post = TRUE]
  <1>1. nzb[h] \in NzbRecord /\ c \in [Files -> BOOLEAN]
    BY DEF TypeOK
  <1>2. Requeued(h, z)
    BY DEF HistoryProcess
  <1> HIDE DEF c
  <1>3. z \in NzbRecord
    BY <1>1 DEF NzbRecord
  <1> HIDE DEF z
  <1>4. next_nzb_id \in NzbIds
    BY <1>2, <1>3, RequeuedType
  <1>5. completions' \in Seq(NzbIds)
    BY <1>4, AppendProperties DEF HistoryProcess, TypeOK
  <1> QED
    BY <1>2, <1>3, <1>5, RequeuedType
    DEF TypeOK, HistoryProcess, Command, controls, slots, worker

LEMMA HistoryRedownloadType ==
    ASSUME NEW h \in NzbIds PROVE TypeOK /\ HistoryRedownload(h) => TypeOK'
  <1> SUFFICES ASSUME TypeOK, HistoryRedownload(h) PROVE TypeOK'
    OBVIOUS
  <1>1. Redownloaded(nzb[h]) \in NzbRecord
    BY RedownloadedType DEF TypeOK
  <1>2. Requeued(h, Redownloaded(nzb[h]))
    BY DEF HistoryRedownload
  <1> QED
    BY <1>1, <1>2, RequeuedType
    DEF TypeOK, HistoryRedownload, Command, controls, OthersUnchanged, slots,
        worker, pipeline

LEMMA HistoryDeleteType ==
    ASSUME NEW h \in NzbIds PROVE TypeOK /\ HistoryDelete(h) => TypeOK'
  <1> SUFFICES ASSUME TypeOK, HistoryDelete(h) PROVE TypeOK'
    OBVIOUS
  <1>1. nzb' \in [NzbIds -> NzbRecord]
    BY BlankType, WithNzbType DEF HistoryDelete
  <1> QED
    BY <1>1
    DEF TypeOK, HistoryDelete, Command, controls, OthersUnchanged, slots, worker, pipeline

-----------------------------------------------------------------------------
(* The pipeline.                                                           *)

LEMMA ForwardTakeType == TypeOK /\ ForwardTake => TypeOK'
  <1> SUFFICES ASSUME TypeOK, ForwardTake PROVE TypeOK'
    OBVIOUS
  <1>1. Head(completions) \in NzbIds /\ Tail(completions) \in Seq(NzbIds)
    BY HeadTailProperties DEF TypeOK, ForwardTake
  <1> QED BY <1>1 DEF TypeOK, ForwardTake, lists, controls, slots, worker

LEMMA ForwardSendType == TypeOK /\ ForwardSend => TypeOK'
  <1> SUFFICES ASSUME TypeOK, ForwardSend PROVE TypeOK'
    OBVIOUS
  <1>1. Append(post_requests, forwarding) \in Seq(NzbIds)
    BY AppendProperties DEF TypeOK, ForwardSend
  <1> QED BY <1>1 DEF TypeOK, ForwardSend, lists, controls, slots, worker

LEMMA PostTakeType == TypeOK /\ PostTake => TypeOK'
  <1> SUFFICES ASSUME TypeOK, PostTake PROVE TypeOK'
    OBVIOUS
  <1>1. Head(post_requests) \in NzbIds /\ Tail(post_requests) \in Seq(NzbIds)
    BY HeadTailProperties DEF TypeOK, PostTake
  <1> QED BY <1>1 DEF TypeOK, PostTake, lists, controls, slots, worker

LEMMA WithPostType ==
    ASSUME NEW n \in NzbIds, NEW b \in BOOLEAN, TypeOK
    PROVE  [nzb EXCEPT ![n].post = b] \in [NzbIds -> NzbRecord]
  <1>1. nzb[n] \in NzbRecord
    BY DEF TypeOK
  <1>2. [nzb[n] EXCEPT !.post = b] \in NzbRecord
    BY <1>1 DEF NzbRecord
  <1>3. [nzb EXCEPT ![n].post = b] = [nzb EXCEPT ![n] = [nzb[n] EXCEPT !.post = b]]
    BY DEF TypeOK
  <1> QED BY <1>2, <1>3, WithNzbType

LEMMA UpdatePostStageType == TypeOK /\ UpdatePostStage => TypeOK'
  <1> SUFFICES ASSUME TypeOK, UpdatePostStage PROVE TypeOK'
    OBVIOUS
  <1>1. post_current \in NzbIds
    BY DEF TypeOK, UpdatePostStage
  <1>2. nzb' \in [NzbIds -> NzbRecord]
    BY <1>1, WithPostType DEF TypeOK, UpdatePostStage
  <1> QED
    BY <1>2, QueueChangeType DEF UpdatePostStage, TypeOK

LEMMA FinishPostProcessingType == TypeOK /\ FinishPostProcessing => TypeOK'
  <1> SUFFICES ASSUME TypeOK, FinishPostProcessing PROVE TypeOK'
    OBVIOUS
  <1>1. post_current \in NzbIds
    BY DEF TypeOK, FinishPostProcessing
  <1>2. nzb' \in [NzbIds -> NzbRecord]
    BY <1>1, WithPostType DEF TypeOK, FinishPostProcessing
  <1>3. queue' \in Seq(NzbIds)
    BY <1>1, WithoutType DEF TypeOK, FinishPostProcessing
  <1>4. history' \subseteq NzbIds
    BY <1>1 DEF TypeOK, FinishPostProcessing
  <1> QED
    BY <1>2, <1>3, <1>4 DEF TypeOK, FinishPostProcessing, controls, slots, worker

LEMMA FinishUnreportedType == TypeOK /\ FinishUnreported => TypeOK'
  BY DEF TypeOK, FinishUnreported, lists, controls, slots, worker

-----------------------------------------------------------------------------
LEMMA InitType == Init => TypeOK
  <1> SUFFICES ASSUME Init PROVE TypeOK
    OBVIOUS
  <1>1. nzb \in [NzbIds -> NzbRecord]
    BY BlankType DEF Init
  <1>2. next_nzb_id \in 1..(MaxNzbId + 1)
    BY CoordinatorAssumption DEF Init
  <1>3. <<>> \in Seq(NzbIds) /\ <<>> \in Seq(ArticleIds) /\ <<>> \in Seq(DownloadResult)
    OBVIOUS
  <1> QED BY <1>1, <1>2, <1>3 DEF Init, TypeOK, StrategyNames

LEMMA NextType == TypeOK /\ [Next]_vars => TypeOK'
  <1> SUFFICES ASSUME TypeOK, [Next]_vars PROVE TypeOK'
    OBVIOUS
  <1>1. CASE FillDownloadSlots
    BY <1>1, DispatchArticleType, FillDoneType DEF FillDownloadSlots
  <1>2. CASE RefillTick
    BY <1>2, RefillTickType
  <1>3. CASE Worker
    BY <1>3, StartFetchType, FetchDoneType DEF Worker
  <1>4. CASE HandleDownloadComplete
    BY <1>4, HandleDownloadCompleteType
  <1>5. CASE QueueCommand
    BY <1>5, AddNzbType, PauseAllType, ResumeAllType, SetStrategyType, RemoveNzbType,
       SetNzbPausedType, ParUnpauseType, MoveNzbType, MoveToMissingType,
       SetFilePausedType, SetPriorityType
    DEF QueueCommand
  <1>6. CASE HistoryCommand
    BY <1>6, HistoryReturnType, HistoryProcessType, HistoryRedownloadType,
       HistoryDeleteType
    DEF HistoryCommand
  <1>7. CASE Shutdown
    BY <1>7, ShutdownType
  <1>8. CASE PostProcessing
    BY <1>8, ForwardTakeType, ForwardSendType, PostTakeType, UpdatePostStageType,
       FinishPostProcessingType, FinishUnreportedType
    DEF PostProcessing
  <1>9. CASE UNCHANGED vars
    BY <1>9 DEF vars, lists, controls, slots, worker, pipeline, TypeOK
  <1> QED BY <1>1, <1>2, <1>3, <1>4, <1>5, <1>6, <1>7, <1>8, <1>9 DEF Next

(* Every variable of the coordinator, the worker and the pipeline keeps    *)
(* its type: ids stay within those allocated, counts never go below zero,  *)
(* and no command leaves a record with a missing or foreign field.         *)
THEOREM TypeCorrect == Spec => []TypeOK
  <1>1. Init => TypeOK
    BY InitType
  <1>2. TypeOK /\ [Next]_vars => TypeOK'
    BY NextType
  <1> QED BY <1>1, <1>2, PTL DEF Spec

-----------------------------------------------------------------------------
(* The inductive invariant of the bookkeeping.                             *)

HIDE DEF NoNzb

ReportedArts == [i \in DOMAIN results |-> results[i].art]

ActiveIsAllocated == \A a \in Active : a[1] < next_nzb_id

StopInv ==
    /\ pc = "stopped" => shutdown
    /\ shutdown => Active = {}

FlowIsExact ==
    ~shutdown =>
       /\ IsInjective(assignments) /\ IsInjective(ReportedArts)
       /\ Range(assignments) \intersect fetching = {}
       /\ Range(assignments) \intersect Reported = {}
       /\ fetching \intersect Reported = {}
       /\ Active = Range(assignments) \union fetching \union Reported

ListsInv == IdsAreUnique /\ ActiveIsAllocated /\ ActiveIsRunning
SlotsInv == StopInv /\ FlowIsExact /\ SlotAccounting /\ ConnectionLimit

(* No part is inductive alone: that a file or server count goes down by    *)
(* the article that is reported needs the article to be active, hence      *)
(* FlowIsExact; that a dispatched article was not active needs             *)
(* ActiveIsRunning, which needs the ids to be unique and never reused.     *)
IInv == TypeOK /\ ListsInv /\ SlotsInv
-----------------------------------------------------------------------------
LEMMA ReportedArtsType ==
    ASSUME TypeOK
    PROVE  /\ ReportedArts \in Seq(ArticleIds)
           /\ Len(ReportedArts) = Len(results)
           /\ Range(ReportedArts) = Reported
  <1>1. results \in Seq(DownloadResult)
    BY DEF TypeOK
  <1>2. Len(results) \in Nat /\ DOMAIN results = 1..Len(results)
    BY <1>1
  <1>3. \A i \in DOMAIN results : results[i].art \in ArticleIds
    <2>1. \A i \in DOMAIN results : results[i] \in DownloadResult
      BY <1>1
    <2>2. \A r \in DownloadResult : r.art \in ArticleIds
      BY DEF DownloadResult
    <2> QED BY <2>1, <2>2
  <1>4. /\ ReportedArts \in Seq(ArticleIds)
        /\ Len(ReportedArts) = Len(results)
    BY <1>2, <1>3 DEF ReportedArts
  <1> QED BY <1>4 DEF ReportedArts, Range, Reported

LEMMA ArticlesAreFinite == IsFiniteSet(ArticleIds)
  <1> DEFINE P == (NzbIds \X Files) \X Segments
             f == [p \in P |-> <<p[1][1], p[1][2], p[2]>>]
  <1>1. IsFiniteSet(NzbIds) /\ IsFiniteSet(Files) /\ IsFiniteSet(Segments)
    BY CoordinatorAssumption, FS_Interval DEF NzbIds, Files, Segments
  <1>2. IsFiniteSet(P)
    BY <1>1, FS_Product
  <1>3. f \in [P -> ArticleIds]
    BY DEF ArticleIds
  <1>4. ASSUME NEW a \in ArticleIds PROVE \E p \in P : f[p] = a
    <2>1. <<<<a[1], a[2]>>, a[3]>> \in P
      BY DEF ArticleIds
    <2>2. f[<<<<a[1], a[2]>>, a[3]>>] = a
      BY <2>1 DEF ArticleIds
    <2> QED BY <2>1, <2>2
  <1>5. f \in Surjection(P, ArticleIds)
    BY <1>3, <1>4 DEF Surjection
  <1> QED BY <1>2, <1>5, FS_Surjection

(* Every set of active downloads is finite.                                *)
LEMMA ActiveIsFinite ==
    /\ IsFiniteSet(Active)
    /\ \A k : IsFiniteSet(PerFile(k)) /\ Cardinality(PerFile(k)) \in Nat
    /\ \A s : IsFiniteSet(OnServer(s)) /\ Cardinality(OnServer(s)) \in Nat
  <1>1. ASSUME NEW T \in SUBSET ArticleIds PROVE IsFiniteSet(T)
    BY ArticlesAreFinite, FS_Subset
  <1>2. Active \in SUBSET ArticleIds
    BY DEF Active
  <1>3. \A k : PerFile(k) \in SUBSET ArticleIds
    BY DEF PerFile, Active
  <1>4. \A s : OnServer(s) \in SUBSET ArticleIds
    BY DEF OnServer, Active
  <1> QED BY <1>1, <1>2, <1>3, <1>4, FS_CardinalityType

-----------------------------------------------------------------------------
(* Taking and giving back a slot.                                          *)

LEMMA SlotTaken ==
    ASSUME TypeOK, ~shutdown, NEW a \in ArticleIds, NEW s \in Servers,
           active[a] = NoServer, active_count[s] < ServerConnections[s],
           SlotAccounting, ConnectionLimit,
           active' = [active EXCEPT ![a] = s],
           active_per_file' = [active_per_file EXCEPT ![<<a[1], a[2]>>] = @ + 1],
           active_count' = [active_count EXCEPT ![s] = @ + 1]
    PROVE  /\ Active' = Active \union {a}
           /\ SlotAccounting' /\ ConnectionLimit'
  <1>0. s # NoServer
    BY CoordinatorAssumption
  <1>1. active \in [ArticleIds -> Servers \union {NoServer}]
    BY DEF TypeOK
  <1>2. a \notin Active /\ Active' = Active \union {a}
    BY <1>0, <1>1 DEF Active
  <1>3. \A k : PerFile(k)' = IF k = <<a[1], a[2]>> THEN PerFile(k) \union {a}
                                                   ELSE PerFile(k)
    BY <1>2 DEF PerFile
  <1>4. \A t : OnServer(t)' = IF t = s THEN OnServer(t) \union {a} ELSE OnServer(t)
    BY <1>1, <1>2 DEF OnServer, Active
  <1>5. \A k : a \notin PerFile(k)
    BY <1>2 DEF PerFile
  <1>6. \A t : a \notin OnServer(t)
    BY <1>2 DEF OnServer
  <1>7. \A k : Cardinality(PerFile(k))' =
                  IF k = <<a[1], a[2]>> THEN Cardinality(PerFile(k)) + 1
                                        ELSE Cardinality(PerFile(k))
    BY <1>3, <1>5, ActiveIsFinite, FS_AddElement
  <1>8. \A t : Cardinality(OnServer(t))' =
                  IF t = s THEN Cardinality(OnServer(t)) + 1
                           ELSE Cardinality(OnServer(t))
    BY <1>4, <1>6, ActiveIsFinite, FS_AddElement
  <1>9. /\ \A k \in NzbIds \X Files : active_per_file[k] = Cardinality(PerFile(k))
        /\ \A t \in Servers : active_count[t] = Cardinality(OnServer(t))
    BY DEF SlotAccounting
  <1>10. ASSUME NEW k \in NzbIds \X Files
         PROVE  active_per_file'[k] = Cardinality(PerFile(k))'
    BY <1>7, <1>9 DEF TypeOK
  <1>11. ASSUME NEW t \in Servers PROVE active_count'[t] = Cardinality(OnServer(t))'
    BY <1>8, <1>9 DEF TypeOK
  <1>12. ASSUME NEW t \in Servers
         PROVE  Cardinality(OnServer(t))' <= ServerConnections[t]
    <2>1. CASE t = s
      <3>1. /\ Cardinality(OnServer(t))' = Cardinality(OnServer(t)) + 1
            /\ Cardinality(OnServer(t)) < ServerConnections[t]
        BY <1>8, <1>9, <2>1
      <3>2. Cardinality(OnServer(t)) \in Nat /\ ServerConnections[t] \in Nat
        BY ActiveIsFinite, CoordinatorAssumption
      <3> QED BY <3>1, <3>2
    <2>2. CASE t # s
      BY <1>8, <2>2 DEF ConnectionLimit
    <2> QED BY <2>1, <2>2
  <1> QED
    BY <1>2, <1>10, <1>11, <1>12 DEF SlotAccounting, ConnectionLimit

LEMMA SlotReleased ==
    ASSUME TypeOK, ~shutdown, NEW a \in Active,
           SlotAccounting, ConnectionLimit, ReleaseSlot(a)
    PROVE  /\ Active' = Active \ {a}
           /\ SlotAccounting' /\ ConnectionLimit'
  <1>1. /\ active \in [ArticleIds -> Servers \union {NoServer}]
        /\ a \in ArticleIds /\ active[a] \in Servers /\ active[a] # NoServer
    BY DEF TypeOK, Active
  <1>2. Active' = Active \ {a}
    BY <1>1 DEF Active, ReleaseSlot
  <1>3. \A k : PerFile(k)' = PerFile(k) \ {a}
    BY <1>2 DEF PerFile
  <1>4. \A t : OnServer(t)' = OnServer(t) \ {a}
    BY <1>1, <1>2 DEF OnServer, Active, ReleaseSlot
  <1>5. \A k : a \in PerFile(k) <=> k = <<a[1], a[2]>>
    BY DEF PerFile
  <1>6. \A t : a \in OnServer(t) <=> t = active[a]
    BY DEF OnServer
  <1>7. \A k : Cardinality(PerFile(k))' =
                  IF k = <<a[1], a[2]>> THEN Cardinality(PerFile(k)) - 1
                                        ELSE Cardinality(PerFile(k))
    BY <1>3, <1>5, ActiveIsFinite, FS_RemoveElement
  <1>8. \A t : Cardinality(OnServer(t))' =
                  IF t = active[a] THEN Cardinality(OnServer(t)) - 1
                                   ELSE Cardinality(OnServer(t))
    BY <1>4, <1>6, ActiveIsFinite, FS_RemoveElement
  <1>9. /\ \A k \in NzbIds \X Files : active_per_file[k] = Cardinality(PerFile(k))
        /\ \A t \in Servers : active_count[t] = Cardinality(OnServer(t))
    BY DEF SlotAccounting
  <1>10. ASSUME NEW k \in NzbIds \X Files
         PROVE  active_per_file'[k] = Cardinality(PerFile(k))'
    <2>1. CASE k = <<a[1], a[2]>>
      <3>1. active_per_file'[k] = Truncated(active_per_file[k] - 1)
        BY <2>1 DEF TypeOK, ReleaseSlot
      <3>2. Cardinality(PerFile(k)) # 0
        BY <1>5, <2>1, ActiveIsFinite, FS_EmptySet
      <3>3. Truncated(active_per_file[k] - 1) = active_per_file[k] - 1
        BY <1>9, <3>2, ActiveIsFinite DEF Truncated
      <3> QED BY <1>7, <1>9, <2>1, <3>1, <3>3
    <2>2. CASE k # <<a[1], a[2]>>
      <3>1. active_per_file'[k] = active_per_file[k]
        BY <2>2 DEF TypeOK, ReleaseSlot
      <3> QED BY <1>7, <1>9, <2>2, <3>1
    <2> QED BY <2>1, <2>2
  <1>11. ASSUME NEW t \in Servers PROVE active_count'[t] = Cardinality(OnServer(t))'
    <2>1. CASE t = active[a]
      <3>1. active_count'[t] = Truncated(active_count[t] - 1)
        BY <2>1 DEF ReleaseSlot
      <3>2. Cardinality(OnServer(t)) # 0
        BY <1>6, <2>1, ActiveIsFinite, FS_EmptySet
      <3>3. Truncated(active_count[t] - 1) = active_count[t] - 1
        BY <1>9, <3>2, ActiveIsFinite DEF Truncated
      <3> QED BY <1>8, <1>9, <2>1, <3>1, <3>3
    <2>2. CASE t # active[a]
      <3>1. active_count'[t] = active_count[t]
        BY <2>2 DEF ReleaseSlot
      <3> QED BY <1>8, <1>9, <2>2, <3>1
    <2> QED BY <2>1, <2>2
  <1>12. ASSUME NEW t \in Servers
         PROVE  Cardinality(OnServer(t))' <= ServerConnections[t]
    <2>1. /\ Cardinality(OnServer(t)) \in Nat /\ ServerConnections[t] \in Nat
          /\ Cardinality(OnServer(t)) <= ServerConnections[t]
      BY ActiveIsFinite, CoordinatorAssumption DEF ConnectionLimit
    <2>2. \/ Cardinality(OnServer(t))' = Cardinality(OnServer(t)) - 1
          \/ Cardinality(OnServer(t))' = Cardinality(OnServer(t))
      BY <1>8
    <2> QED BY <2>1, <2>2
  <1> QED
    BY <1>2, <1>10, <1>11, <1>12 DEF SlotAccounting, ConnectionLimit

-----------------------------------------------------------------------------
(* Steps that leave a part of the invariant alone.                         *)

LEMMA SlotsKept ==
    ASSUME SlotsInv, UNCHANGED <<slots, worker, shutdown>>,
           pc' = "stopped" => pc = "stopped"
    PROVE  SlotsInv'
  BY DEF SlotsInv, StopInv, FlowIsExact, SlotAccounting, ConnectionLimit, slots,
         worker, Active, PerFile, OnServer, Reported, ReportedArts

(* A queued NZB was queued before, its running articles still running, or  *)
(* has the id that was to be allocated next.                               *)
LEMMA ListsStep ==
    ASSUME TypeOK, ListsInv, IdsAreUnique', UNCHANGED active,
           next_nzb_id' = next_nzb_id \/ next_nzb_id' = next_nzb_id + 1,
           \A n \in Range(queue') :
              \/ n = next_nzb_id
              \/ /\ n \in Range(queue)
                 /\ \A x \in Files \X Segments :
                       nzb[n].segs[x] = "Running" => nzb'[n].segs[x] = "Running"
    PROVE  ListsInv'
  <1>1. Active' = Active
    BY DEF Active
  <1>2. \A a \in Active : a \in ArticleIds /\ a[1] \in Int /\ <<a[2], a[3]>> \in Files \X Segments
    BY DEF Active, ArticleIds, NzbIds
  <1>3. next_nzb_id \in Int
    BY DEF TypeOK
  <1>4. \A a \in Active : a[1] < next_nzb_id
    BY DEF ListsInv, ActiveIsAllocated
  <1>5. ActiveIsAllocated'
    <2>1. ASSUME NEW a \in Active PROVE a[1] < next_nzb_id'
      <3>1. a[1] \in Int /\ a[1] < next_nzb_id
        BY <1>2, <1>4
      <3> QED BY <1>3, <3>1
    <2> QED BY <1>1, <2>1 DEF ActiveIsAllocated
  <1>6. ASSUME NEW a \in Active, a[1] \in Range(queue')
        PROVE  nzb'[a[1]].segs[<<a[2], a[3]>>] = "Running"
    <2>1. a[1] # next_nzb_id
      BY <1>2, <1>3, <1>4
    <2>2. a[1] \in Range(queue)
      BY <1>6, <2>1
    <2>3. nzb[a[1]].segs[<<a[2], a[3]>>] = "Running"
      BY <2>2 DEF ListsInv, ActiveIsRunning, InQueue
    <2> QED BY <1>2, <1>6, <2>1, <2>3
  <1>7. ActiveIsRunning'
    BY <1>1, <1>6 DEF ActiveIsRunning, InQueue
  <1> QED BY <1>5, <1>7 DEF ListsInv

LEMMA ListsUnchanged ==
    ASSUME TypeOK, ListsInv, UNCHANGED <<lists, active>>
    PROVE  ListsInv'
  BY DEF ListsInv, IdsAreUnique, ActiveIsAllocated, ActiveIsRunning, Active,
         InQueue, lists

(* Records change, the queue and the history do not.                       *)
LEMMA RecordsStep ==
    ASSUME TypeOK, ListsInv, UNCHANGED <<queue, history, next_nzb_id, active>>,
           \A n \in Range(queue) : \A x \in Files \X Segments :
              nzb[n].segs[x] = "Running" => nzb'[n].segs[x] = "Running"
    PROVE  ListsInv'
  <1>1. IdsAreUnique'
    BY DEF ListsInv, IdsAreUnique
  <1> QED BY <1>1, ListsStep

LEMMA WithoutRange ==
    ASSUME NEW n, TypeOK, IdsAreUnique, InQueue(n)
    PROVE  /\ Without(n) \in Seq(NzbIds)
           /\ Range(Without(n)) = Range(queue) \ {n}
           /\ IsInjective(Without(n))
  <1> DEFINE j == CHOOSE k \in DOMAIN queue : queue[k] = n
  <1>1. j \in DOMAIN queue /\ queue[j] = n
    BY DEF InQueue, Range
  <1> HIDE DEF j
  <1>2. queue \in Seq(NzbIds) /\ IsInjective(queue)
    BY DEF TypeOK, IdsAreUnique
  <1>3. /\ RemoveAt(queue, j) \in Seq(NzbIds)
        /\ Range(RemoveAt(queue, j)) = Range(queue) \ {n}
        /\ IsInjective(RemoveAt(queue, j))
    BY <1>1, <1>2, RemoveAtElements, RemoveAtRange
  <1> QED BY <1>3 DEF Without, j

(* An NZB leaves the queue, perhaps for the history.                       *)
LEMMA DropStep ==
    ASSUME NEW n \in NzbIds, TypeOK, ListsInv, InQueue(n), queue' = Without(n),
           history' = history \/ history' = history \union {n},
           UNCHANGED <<next_nzb_id, active>>,
           \A m \in NzbIds \ {n} : nzb'[m] = nzb[m]
    PROVE  ListsInv'
  <1>1. IdsAreUnique
    BY DEF ListsInv
  <1>2. Range(queue') = Range(queue) \ {n} /\ IsInjective(queue')
    BY <1>1, WithoutRange
  <1>3. IdsAreUnique'
    BY <1>1, <1>2 DEF IdsAreUnique, InQueue
  <1>4. Range(queue) \subseteq NzbIds
    BY DEF TypeOK, Range
  <1> QED BY <1>2, <1>3, <1>4, ListsStep

LEMMA IdsAreBelowNext ==
    ASSUME TypeOK, IdsAreUnique
    PROVE  \A n \in Range(queue) \union history :
              n \in NzbIds /\ n \in Int /\ n < next_nzb_id
  <1>1. Range(queue) \subseteq NzbIds /\ history \subseteq NzbIds
    BY DEF TypeOK, Range
  <1>2. \A n \in Range(queue) \union history : n < next_nzb_id
    BY DEF IdsAreUnique
  <1>3. \A n \in NzbIds : n \in Int
    BY DEF NzbIds
  <1> QED BY <1>1, <1>2, <1>3

(* An NZB joins the queue under the next id, perhaps from the history.     *)
LEMMA JoinStep ==
    ASSUME TypeOK, ListsInv, next_nzb_id \in NzbIds,
           next_nzb_id' = next_nzb_id + 1,
           Range(queue') = Range(queue) \union {next_nzb_id}, IsInjective(queue'),
           history' \subseteq history, UNCHANGED active,
           \A n \in Range(queue) : nzb'[n] = nzb[n]
    PROVE  ListsInv'
  <1>1. IdsAreUnique
    BY DEF ListsInv
  <1>2. \A n \in Range(queue) \union history : n \in Int /\ n < next_nzb_id
    BY <1>1, IdsAreBelowNext
  <1>3. \A n \in Range(queue') \union history' : n < next_nzb_id'
    <2>1. next_nzb_id \in Int
      BY DEF TypeOK
    <2> QED BY <1>2, <2>1
  <1>4. Range(queue') \intersect history' = {}
    <2>1. next_nzb_id \notin history
      BY <1>2 DEF TypeOK
    <2> QED BY <1>1, <2>1 DEF IdsAreUnique
  <1>5. IdsAreUnique'
    BY <1>3, <1>4 DEF IdsAreUnique
  <1> QED BY <1>5, ListsStep

-----------------------------------------------------------------------------
(* The commands change the lists only.                                     *)

LEMMA OthersAreSlots ==
    ASSUME OthersUnchanged PROVE UNCHANGED <<slots, worker, active>>
  BY DEF OthersUnchanged, slots

LEMMA AddNzbLists == TypeOK /\ ListsInv /\ AddNzb => ListsInv'
  <1> SUFFICES ASSUME TypeOK, ListsInv, AddNzb PROVE ListsInv'
    OBVIOUS
  <1> DEFINE i == next_nzb_id
  <1>1. i \in NzbIds /\ next_nzb_id' = i + 1 /\ history' = history
    BY DEF AddNzb, TypeOK, NzbIds
  <1>2. UNCHANGED active
    BY OthersAreSlots DEF AddNzb
  <1>3. IdsAreUnique /\ queue \in Seq(NzbIds) /\ Range(queue) \subseteq NzbIds
    BY DEF ListsInv, TypeOK, Range
  <1>4. i \notin Range(queue) /\ IsInjective(queue)
    <2>1. \A n \in Range(queue) : n < i
      BY <1>3 DEF IdsAreUnique
    <2> QED BY <1>1, <1>3, <2>1 DEF IdsAreUnique, NzbIds
  <1>5. CASE UNCHANGED <<nzb, queue>>
    <2>1. IdsAreUnique'
      <3>1. \A n \in Range(queue) \union history : n \in Int /\ n < i
        BY <1>3, IdsAreBelowNext
      <3>2. \A n \in Range(queue) \union history : n < i + 1
        BY <1>1, <3>1 DEF NzbIds
      <3> QED BY <1>1, <1>3, <1>5, <3>2 DEF IdsAreUnique
    <2> QED BY <1>1, <1>2, <1>5, <2>1, ListsStep
  <1>6. CASE \E p \in Priorities, b \in BOOLEAN :
               /\ nzb' = [nzb EXCEPT ![i] = NewNzb(p, b)]
               /\ queue' \in {Append(queue, i), <<i>> \o queue}
    <2>1. \A n \in Range(queue) : nzb'[n] = nzb[n]
      BY <1>3, <1>4, <1>6 DEF TypeOK
    <2>2. queue' = Append(queue, i) \/ queue' = <<i>> \o queue
      BY <1>6
    <2>3. Range(queue') = Range(queue) \union {i} /\ IsInjective(queue')
      <3>1. CASE queue' = Append(queue, i)
        BY <1>1, <1>3, <1>4, <3>1, AppendRange
      <3>2. CASE queue' = <<i>> \o queue
        BY <1>1, <1>3, <1>4, <3>2, PrependRange
      <3> QED BY <2>2, <3>1, <3>2
    <2> QED BY <1>1, <1>2, <2>1, <2>3, JoinStep
  <1> QED BY <1>5, <1>6 DEF AddNzb

LEMMA RemoveNzbLists ==
    ASSUME NEW n \in NzbIds, TypeOK, ListsInv, RemoveNzb(n) \/ MoveToMissing(n)
    PROVE  ListsInv'
  <1>1. \A m \in NzbIds \ {n} : nzb'[m] = nzb[m]
    BY DEF RemoveNzb, MoveToMissing, TypeOK
  <1>2. UNCHANGED active
    BY OthersAreSlots DEF RemoveNzb, MoveToMissing
  <1> QED BY <1>1, <1>2, DropStep DEF RemoveNzb, MoveToMissing

LEMMA MoveNzbLists ==
    ASSUME NEW n \in NzbIds, TypeOK, ListsInv, MoveNzb(n)
    PROVE  ListsInv'
  <1>1. IdsAreUnique /\ InQueue(n)
    BY DEF ListsInv, MoveNzb
  <1>2. /\ Without(n) \in Seq(NzbIds) /\ IsInjective(Without(n))
        /\ Range(Without(n)) = Range(queue) \ {n}
    BY <1>1, WithoutRange
  <1>3. PICK i \in DOMAIN queue : queue' = InsertAt(Without(n), i, n)
    BY DEF MoveNzb
  <1>4. i \in 1..(Len(Without(n)) + 1)
    <2> DEFINE j == CHOOSE k \in DOMAIN queue : queue[k] = n
    <2>1. j \in DOMAIN queue
      BY <1>1 DEF InQueue, Range
    <2> HIDE DEF j
    <2>2. queue \in Seq(NzbIds)
      BY DEF TypeOK
    <2>3. Len(RemoveAt(queue, j)) = Len(queue) - 1
      BY <2>1, <2>2, RemoveAtElements
    <2>4. i \in 1..(Len(queue) - 1 + 1)
      BY <1>3, <2>2
    <2> QED BY <2>3, <2>4 DEF Without, j
  <1>5. Range(queue') = Range(Without(n)) \union {n} /\ IsInjective(queue')
    BY <1>2, <1>3, <1>4, InsertAtRange
  <1>6. Range(queue') = Range(queue)
    BY <1>1, <1>2, <1>5 DEF InQueue
  <1>7. IdsAreUnique'
    BY <1>1, <1>5, <1>6 DEF IdsAreUnique, MoveNzb
  <1>8. UNCHANGED active
    BY OthersAreSlots DEF MoveNzb
  <1> QED BY <1>6, <1>7, <1>8, ListsStep DEF MoveNzb

LEMMA RecordLists ==
    ASSUME TypeOK, ListsInv, UNCHANGED <<queue, history, next_nzb_id, active>>,
           NEW n \in NzbIds, NEW z, nzb' = [nzb EXCEPT ![n] = z],
           z.segs = nzb[n].segs
    PROVE  ListsInv'
  <1>1. \A m \in NzbIds : nzb'[m].segs = nzb[m].segs
    BY DEF TypeOK
  <1>2. Range(queue) \subseteq NzbIds
    BY DEF TypeOK, Range
  <1> QED BY <1>1, <1>2, RecordsStep

LEMMA RecordCommandLists ==
    ASSUME NEW n \in NzbIds, TypeOK, ListsInv,
           \/ SetNzbPaused(n) \/ ParUnpause(n)
           \/ \E f \in Files : SetFilePaused(n, f)
           \/ \E p \in Priorities : SetPriority(n, p)
    PROVE  ListsInv'
  <1>1. nzb[n] \in NzbRecord
    BY DEF TypeOK
  <1>2. UNCHANGED <<queue, history, next_nzb_id, active>>
    BY OthersAreSlots DEF SetNzbPaused, ParUnpause, SetFilePaused, SetPriority
  <1>3. CASE SetNzbPaused(n)
    <2> DEFINE z == [nzb[n] EXCEPT !.paused = ~nzb[n].paused]
    <2>1. nzb' = [nzb EXCEPT ![n] = z]
      BY <1>3 DEF SetNzbPaused, TypeOK
    <2>2. z.segs = nzb[n].segs
      BY <1>1 DEF NzbRecord
    <2> QED BY <1>2, <2>1, <2>2, RecordLists
  <1>4. CASE ParUnpause(n)
    <2> DEFINE g == [f \in Files |-> f \notin ParNamed /\ nzb[n].file_paused[f]]
               z == [nzb[n] EXCEPT !.file_paused = g]
    <2>1. nzb' = [nzb EXCEPT ![n] = z]
      BY <1>4 DEF ParUnpause, TypeOK
    <2> HIDE DEF g
    <2>2. z.segs = nzb[n].segs
      BY <1>1 DEF NzbRecord
    <2> QED BY <1>2, <2>1, <2>2, RecordLists
  <1>5. ASSUME NEW f \in Files, SetFilePaused(n, f) PROVE ListsInv'
    <2> DEFINE g == [nzb[n].file_paused EXCEPT ![f] = ~nzb[n].file_paused[f]]
               z == [nzb[n] EXCEPT !.file_paused = g]
    <2>1. nzb' = [nzb EXCEPT ![n] = z]
      BY <1>5 DEF SetFilePaused, TypeOK
    <2> HIDE DEF g
    <2>2. z.segs = nzb[n].segs
      BY <1>1 DEF NzbRecord
    <2> QED BY <1>2, <2>1, <2>2, RecordLists
  <1>6. ASSUME NEW p \in Priorities, SetPriority(n, p) PROVE ListsInv'
    <2> DEFINE z == [nzb[n] EXCEPT !.priority = p]
    <2>1. nzb' = [nzb EXCEPT ![n] = z]
      BY <1>6 DEF SetPriority, TypeOK
    <2>2. z.segs = nzb[n].segs
      BY <1>1 DEF NzbRecord
    <2> QED BY <1>2, <2>1, <2>2, RecordLists
  <1> QED BY <1>3, <1>4, <1>5, <1>6

LEMMA ResumeAllLists ==
    ASSUME TypeOK, ListsInv, ResumeAll PROVE ListsInv'
  <1>1. \A n \in NzbIds : nzb[n] \in NzbRecord
    BY DEF TypeOK
  <1>2. ASSUME NEW n \in NzbIds PROVE nzb'[n].segs = nzb[n].segs
    <2>1. [nzb[n] EXCEPT !.paused = FALSE].segs = nzb[n].segs
      BY <1>1 DEF NzbRecord
    <2> QED BY <2>1 DEF ResumeAll
  <1>3. UNCHANGED <<queue, history, next_nzb_id, active>>
    BY OthersAreSlots DEF ResumeAll
  <1>4. Range(queue) \subseteq NzbIds
    BY DEF TypeOK, Range
  <1> QED BY <1>2, <1>3, <1>4, RecordsStep

LEMMA RequeuedLists ==
    ASSUME NEW h \in NzbIds, NEW z, TypeOK, ListsInv, Requeued(h, z),
           UNCHANGED active
    PROVE  ListsInv'
  <1> DEFINE i == next_nzb_id
  <1>1. /\ i \in NzbIds /\ next_nzb_id' = i + 1 /\ history' \subseteq history
        /\ queue' = Append(queue, i)
    BY DEF Requeued, TypeOK, NzbIds
  <1>2. IdsAreUnique /\ queue \in Seq(NzbIds) /\ Range(queue) \subseteq NzbIds
    BY DEF ListsInv, TypeOK, Range
  <1>3. i \notin Range(queue) /\ h \notin Range(queue)
    <2>1. h \notin Range(queue)
      BY <1>2 DEF IdsAreUnique, Requeued
    <2>2. \A n \in Range(queue) : n \in Int /\ n < i
      BY <1>2, IdsAreBelowNext
    <2> QED BY <2>1, <2>2
  <1>4. Range(queue') = Range(queue) \union {i} /\ IsInjective(queue')
    BY <1>1, <1>2, <1>3, AppendRange DEF IdsAreUnique
  <1>5. \A n \in Range(queue) : nzb'[n] = nzb[n]
    BY <1>2, <1>3 DEF Requeued, TypeOK
  <1> QED BY <1>1, <1>4, <1>5, JoinStep

LEMMA HistoryLists ==
    ASSUME NEW h \in NzbIds, TypeOK, ListsInv,
           \/ HistoryReturn(h) \/ HistoryProcess(h)
           \/ HistoryRedownload(h) \/ HistoryDelete(h)
    PROVE  ListsInv'
  <1>1. UNCHANGED active
    BY OthersAreSlots
    DEF HistoryReturn, HistoryProcess, HistoryRedownload, HistoryDelete, slots
  <1>2. CASE HistoryReturn(h)
    BY <1>1, <1>2, RequeuedLists DEF HistoryReturn
  <1>3. CASE HistoryProcess(h)
    BY <1>1, <1>3, RequeuedLists DEF HistoryProcess
  <1>4. CASE HistoryRedownload(h)
    BY <1>1, <1>4, RequeuedLists DEF HistoryRedownload
  <1>5. CASE HistoryDelete(h)
    <2>1. IdsAreUnique'
      BY <1>5 DEF HistoryDelete, ListsInv, IdsAreUnique
    <2>2. Range(queue) \subseteq NzbIds /\ h \notin Range(queue)
      BY <1>5 DEF HistoryDelete, ListsInv, IdsAreUnique, TypeOK, Range
    <2>3. \A n \in Range(queue) : nzb'[n] = nzb[n]
      BY <1>5, <2>2 DEF HistoryDelete, TypeOK
    <2> QED BY <1>1, <1>5, <2>1, <2>3, ListsStep DEF HistoryDelete
  <1> QED BY <1>2, <1>3, <1>4, <1>5

LEMMA PostProcessingLists ==
    ASSUME TypeOK, ListsInv, PostProcessing PROVE ListsInv'
  <1>1. CASE ForwardTake \/ ForwardSend \/ PostTake \/ FinishUnreported
    BY <1>1, ListsUnchanged
    DEF ForwardTake, ForwardSend, PostTake, FinishUnreported, slots
  <1>2. CASE UpdatePostStage
    <2>1. UNCHANGED <<queue, history, next_nzb_id, active>>
      BY <1>2, OthersAreSlots DEF UpdatePostStage
    <2>2. CASE nzb' = nzb
      BY <2>1, <2>2, ListsUnchanged DEF lists
    <2>3. CASE nzb' # nzb
      <3> DEFINE n == post_current
                 z == [nzb[n] EXCEPT !.post = TRUE]
      <3>1. n \in NzbIds /\ nzb[n] \in NzbRecord
        BY <1>2 DEF UpdatePostStage, TypeOK
      <3>2. nzb' = [nzb EXCEPT ![n] = z]
        BY <1>2, <2>3 DEF UpdatePostStage, TypeOK
      <3>3. z.segs = nzb[n].segs
        BY <3>1 DEF NzbRecord
      <3> QED BY <2>1, <3>1, <3>2, <3>3, RecordLists
    <2> QED BY <2>2, <2>3
  <1>3. CASE FinishPostProcessing
    <2>1. UNCHANGED <<next_nzb_id, active>>
      BY <1>3 DEF FinishPostProcessing, slots
    <2>2. post_current \in NzbIds
      BY <1>3 DEF FinishPostProcessing, TypeOK
    <2>3. CASE InQueue(post_current)
      <3>1. \A m \in NzbIds \ {post_current} : nzb'[m] = nzb[m]
        BY <1>3, <2>3 DEF FinishPostProcessing, TypeOK
      <3> QED BY <1>3, <2>1, <2>2, <2>3, <3>1, DropStep DEF FinishPostProcessing
    <2>4. CASE ~InQueue(post_current)
      BY <1>3, <2>1, <2>4, ListsUnchanged DEF FinishPostProcessing, lists
    <2> QED BY <2>3, <2>4
  <1> QED BY <1>1, <1>2, <1>3 DEF PostProcessing

-----------------------------------------------------------------------------
(* Dispatching an article.                                                 *)

LEMMA NextArticleIsNew ==
    ASSUME TypeOK, NEW a \in ArticleIds, NextArticle(a)
    PROVE  InQueue(a[1]) /\ nzb[a[1]].segs[<<a[2], a[3]>>] = "Undefined"
  <1>1. PICK i \in DOMAIN Passes(strategy) : FirstOf(Passes(strategy)[i], <<a[1], a[2]>>)
    BY DEF NextArticle
  <1>2. <<a[1], a[2]>> \in Runnable(Passes(strategy)[i])
    BY <1>1 DEF FirstOf, Dispatchable
  <1>3. InQueue(a[1])
    BY <1>2 DEF Runnable
  <1> QED BY <1>3 DEF NextArticle

LEMMA DispatchArticleStep ==
    ASSUME IInv, DispatchArticle PROVE ListsInv' /\ SlotsInv'
  <1>1. TypeOK /\ ListsInv /\ SlotsInv /\ ~shutdown /\ UNCHANGED <<pc, shutdown>>
    BY DEF IInv, DispatchArticle, CanDispatch, controls
  <1>2. PICK a \in ArticleIds, s \in Servers :
          /\ NextArticle(a) /\ SelectServer(s)
          /\ assignments' = Append(assignments, a)
          /\ nzb' = [nzb EXCEPT ![a[1]].segs[<<a[2], a[3]>>] = "Running"]
          /\ active' = [active EXCEPT ![a] = s]
          /\ active_per_file' = [active_per_file EXCEPT ![<<a[1], a[2]>>] = @ + 1]
          /\ active_count' = [active_count EXCEPT ![s] = @ + 1]
    BY DEF DispatchArticle
  <1>3. InQueue(a[1]) /\ nzb[a[1]].segs[<<a[2], a[3]>>] = "Undefined"
    BY <1>1, <1>2, NextArticleIsNew
  <1>4. a \notin Active /\ active[a] = NoServer
    BY <1>1, <1>3 DEF ListsInv, ActiveIsRunning, Active
  <1>5. active_count[s] < ServerConnections[s]
    BY <1>2 DEF SelectServer, HasCapacity
  <1>6. Active' = Active \union {a} /\ SlotAccounting' /\ ConnectionLimit'
    BY <1>1, <1>2, <1>4, <1>5, SlotTaken DEF SlotsInv
  <1>7. UNCHANGED <<fetching, results>>
    BY DEF DispatchArticle
  <1>8. FlowIsExact'
    <2>1. /\ assignments \in Seq(ArticleIds) /\ IsInjective(assignments)
          /\ a \notin Range(assignments) /\ a \notin fetching /\ a \notin Reported
      BY <1>1, <1>4 DEF SlotsInv, FlowIsExact, TypeOK
    <2>2. /\ Range(assignments') = Range(assignments) \union {a}
          /\ IsInjective(assignments')
      BY <1>2, <2>1, AppendRange
    <2>3. Reported' = Reported /\ ReportedArts' = ReportedArts
      BY <1>7 DEF Reported, ReportedArts
    <2> QED BY <1>1, <1>6, <1>7, <2>1, <2>2, <2>3 DEF SlotsInv, FlowIsExact
  <1>9. StopInv'
    BY <1>1 DEF SlotsInv, StopInv
  <1>10. UNCHANGED <<queue, history, next_nzb_id>>
    BY DEF DispatchArticle
  <1>11. IdsAreUnique'
    BY <1>1, <1>10 DEF ListsInv, IdsAreUnique
  <1>12. ActiveIsAllocated'
    BY <1>1, <1>3, <1>6, <1>10 DEF ListsInv, ActiveIsAllocated, IdsAreUnique, InQueue
  <1>13. ActiveIsRunning'
    <2>1. ASSUME NEW b \in Active', InQueue(b[1])'
          PROVE  nzb'[b[1]].segs[<<b[2], b[3]>>] = "Running"
      <3>1. a \in ArticleIds /\ b \in ArticleIds
        BY DEF Active
      <3>2. nzb[a[1]] \in NzbRecord /\ nzb[b[1]] \in NzbRecord
        BY <1>1, <3>1 DEF TypeOK, ArticleIds
      <3>3. nzb[b[1]].segs[<<b[2], b[3]>>] = "Running" \/ b = a
        BY <1>1, <1>6, <1>10, <2>1 DEF ListsInv, ActiveIsRunning, InQueue
      <3>4. CASE b[1] # a[1]
        BY <1>1, <1>2, <3>1, <3>3, <3>4 DEF TypeOK, ArticleIds
      <3>5. CASE b[1] = a[1]
        <4>1. nzb'[a[1]].segs = [nzb[a[1]].segs EXCEPT ![<<a[2], a[3]>>] = "Running"]
          BY <1>1, <1>2, <3>1, <3>2 DEF TypeOK, ArticleIds, NzbRecord
        <4>2. nzb[a[1]].segs \in [Files \X Segments -> SegmentStatus]
          BY <3>2 DEF NzbRecord
        <4> QED BY <3>1, <3>3, <3>5, <4>1, <4>2 DEF ArticleIds
      <3> QED BY <3>4, <3>5
    <2> QED BY <2>1 DEF ActiveIsRunning
  <1> QED BY <1>6, <1>8, <1>9, <1>11, <1>12, <1>13 DEF ListsInv, SlotsInv

-----------------------------------------------------------------------------
(* A result touches one article, which is active no longer.                *)

LEMMA ResultLists ==
    ASSUME TypeOK, ListsInv, NEW a \in ArticleIds, Active' = Active \ {a},
           UNCHANGED next_nzb_id, IdsAreUnique',
           Range(queue') \subseteq Range(queue),
           \A n \in Range(queue') : \A y \in Files \X Segments :
              <<n, y[1], y[2]>> # a => nzb'[n].segs[y] = nzb[n].segs[y]
    PROVE  ListsInv'
  <1>1. ActiveIsAllocated'
    BY DEF ListsInv, ActiveIsAllocated
  <1>2. ASSUME NEW b \in Active', InQueue(b[1])'
        PROVE  nzb'[b[1]].segs[<<b[2], b[3]>>] = "Running"
    <2>1. b \in Active /\ b # a /\ b[1] \in Range(queue') /\ b[1] \in Range(queue)
      BY <1>2 DEF InQueue
    <2>2. nzb[b[1]].segs[<<b[2], b[3]>>] = "Running"
      BY <2>1 DEF ListsInv, ActiveIsRunning, InQueue
    <2>3. b \in ArticleIds
      BY <2>1 DEF Active
    <2> DEFINE y == <<b[2], b[3]>>
    <2>4. y \in Files \X Segments /\ <<b[1], y[1], y[2]>> = b
      BY <2>3 DEF ArticleIds
    <2> QED BY <2>1, <2>2, <2>4
  <1>3. ActiveIsRunning'
    BY <1>2 DEF ActiveIsRunning
  <1> QED BY <1>1, <1>3 DEF ListsInv

LEMMA ReleasedActive ==
    ASSUME TypeOK, NEW a \in ArticleIds, ReleaseSlot(a)
    PROVE  Active' = Active \ {a}
  BY DEF TypeOK, ReleaseSlot, Active

LEMMA NoneActive ==
    ASSUME Active' = {} PROVE ConnectionLimit'
  <1>1. \A s \in Servers : OnServer(s)' = {}
    BY DEF OnServer
  <1>2. \A s \in Servers : ServerConnections[s] \in Nat
    BY CoordinatorAssumption
  <1>3. \A s \in Servers : Cardinality(OnServer(s)') <= ServerConnections[s]
    BY <1>1, <1>2, FS_EmptySet
  <1> QED BY <1>3 DEF ConnectionLimit

LEMMA SettledSegs ==
    ASSUME NEW z \in NzbRecord, NEW x \in Files \X Segments, NEW o,
           NEW y \in Files \X Segments, y # x
    PROVE  Settled(z, x, o).segs[y] = z.segs[y]
  <1>1. z.segs \in [Files \X Segments -> SegmentStatus]
    BY DEF NzbRecord
  <1>2. CASE o = "Success"
    <2> DEFINE t == [z.segs EXCEPT ![x] = "Finished"]
               s == z.success + 1
    <2>1. t[y] = z.segs[y]
      BY <1>1
    <2> HIDE DEF t, s
    <2>2. [z EXCEPT !.segs = t, !.success = s].segs = t
      BY DEF NzbRecord
    <2> QED BY <1>2, <2>1, <2>2 DEF Settled, t, s
  <1>3. CASE o # "Success"
    <2> DEFINE t == [z.segs EXCEPT ![x] = "Failed"]
               s == z.failed + 1
               p == IF x[1] \in ParNamed THEN z.par_failed + 1 ELSE z.par_failed
    <2>1. t[y] = z.segs[y]
      BY <1>1
    <2> HIDE DEF t, s, p
    <2>2. [z EXCEPT !.segs = t, !.failed = s, !.par_failed = p].segs = t
      BY DEF NzbRecord
    <2> QED BY <1>3, <2>1, <2>2 DEF Settled, t, s, p
  <1> QED BY <1>2, <1>3

LEMMA CheckFileCompletionSegs ==
    ASSUME NEW z \in NzbRecord, NEW f \in Files
    PROVE  CheckFileCompletion(z, f).segs = z.segs
  <1> DEFINE c == [z.completed EXCEPT ![f] = TRUE]
             r == Truncated(z.remaining_files - 1)
  <1> HIDE DEF c, r
  <1>1. [z EXCEPT !.completed = c, !.remaining_files = r].segs = z.segs
    BY DEF NzbRecord
  <1> QED BY <1>1 DEF CheckFileCompletion, c, r

LEMMA SettleArticleLists ==
    ASSUME TypeOK, ListsInv, NEW a \in ArticleIds, NEW x \in Files \X Segments,
           x = <<a[2], a[3]>>, NEW o, InQueue(a[1]), SettleArticle(a[1], x, o),
           Active' = Active \ {a}, UNCHANGED next_nzb_id
    PROVE  ListsInv'
  <1> DEFINE n == a[1]
             z == Settled(nzb[n], x, o)
             c == CheckFileCompletion(z, x[1])
  <1>1. n \in NzbIds /\ nzb[n] \in NzbRecord /\ IdsAreUnique
    BY DEF TypeOK, ArticleIds, ListsInv
  <1>2. Range(queue) \subseteq NzbIds
    BY <1>1, IdsAreBelowNext
  <1>3. /\ z \in NzbRecord /\ c \in NzbRecord /\ c.segs = z.segs
        /\ \A y \in Files \X Segments : y # x => z.segs[y] = nzb[n].segs[y]
    <2>1. z \in NzbRecord /\ x[1] \in Files
      BY <1>1, SettledType
    <2>2. c \in NzbRecord /\ c.segs = z.segs
      BY <2>1, CheckFileCompletionType, CheckFileCompletionSegs
    <2>3. \A y \in Files \X Segments : y # x => z.segs[y] = nzb[n].segs[y]
      BY <1>1, SettledSegs
    <2> QED BY <2>1, <2>2, <2>3
  <1>4. SettleArticle(n, x, o)
    OBVIOUS
  <1> HIDE DEF z, c
  <1>5. CASE HealthFailed(z)
    <2>1. /\ queue' = Without(n) /\ history' = history \union {n}
          /\ \A m \in NzbIds \ {n} : nzb'[m] = nzb[m]
      BY <1>4, <1>5 DEF SettleArticle, TypeOK, z
    <2>2. Range(queue') = Range(queue) \ {n} /\ IsInjective(queue')
      BY <1>1, <2>1, WithoutRange
    <2>3. IdsAreUnique'
      BY <1>1, <2>1, <2>2 DEF IdsAreUnique, InQueue
    <2> QED BY <1>2, <2>1, <2>2, <2>3, ResultLists
  <1>6. CASE ~HealthFailed(z)
    <2>1. CheckNzbCompletion(n, c) /\ UNCHANGED <<queue, history>>
      BY <1>4, <1>6 DEF SettleArticle, z, c
    <2>2. [c EXCEPT !.post = TRUE].segs = c.segs
      BY <1>3 DEF NzbRecord
    <2>3. /\ nzb'[n].segs = c.segs
          /\ \A m \in NzbIds \ {n} : nzb'[m] = nzb[m]
      BY <1>1, <2>1, <2>2 DEF CheckNzbCompletion, TypeOK
    <2>4. IdsAreUnique'
      BY <1>1, <2>1 DEF IdsAreUnique
    <2>5. ASSUME NEW m \in Range(queue'), NEW y \in Files \X Segments,
                 <<m, y[1], y[2]>> # a
          PROVE  nzb'[m].segs[y] = nzb[m].segs[y]
      <3>1. CASE m # n
        BY <1>2, <2>1, <2>3, <3>1
      <3>2. CASE m = n
        <4>1. y # x
          BY <2>5, <3>2 DEF ArticleIds
        <4> QED BY <1>3, <2>3, <3>2, <4>1
      <3> QED BY <3>1, <3>2
    <2> QED BY <2>1, <2>4, <2>5, ResultLists
  <1> QED BY <1>5, <1>6

LEMMA HandleDownloadCompleteStep ==
    ASSUME IInv, HandleDownloadComplete PROVE ListsInv' /\ SlotsInv'
  <1> DEFINE a == Head(results).art
             x == <<a[2], a[3]>>
             o == Head(results).outcome
  <1>1. /\ TypeOK /\ ListsInv /\ SlotsInv /\ IdsAreUnique
        /\ UNCHANGED <<next_nzb_id, shutdown, assignments, fetching>>
        /\ pc' = "fill" /\ results # <<>> /\ results' = Tail(results)
    BY DEF IInv, ListsInv, HandleDownloadComplete
  <1>2. results \in Seq(DownloadResult) /\ Head(results) \in DownloadResult
    BY <1>1 DEF TypeOK
  <1>3. a \in ArticleIds /\ a[1] \in NzbIds /\ x \in Files \X Segments
    BY <1>2 DEF DownloadResult, ArticleIds
  <1>4. /\ ReleaseSlot(a)
        /\ IgnoreResult(a[1], x) \/ ApplyOutcome(a[1], x, o)
    BY DEF HandleDownloadComplete
  <1>5. a = Head(ReportedArts)
    BY <1>1, <1>2 DEF ReportedArts
  <1>6. ReportedArts' = Tail(ReportedArts)
    <2>1. /\ Tail(results) \in Seq(DownloadResult)
          /\ Len(Tail(results)) = Len(results) - 1
          /\ \A i \in 1..Len(Tail(results)) : Tail(results)[i] = results[i + 1]
      BY <1>1, <1>2, HeadTailProperties
    <2>2. Len(ReportedArts) = Len(results) /\ ReportedArts \in Seq(ArticleIds)
      BY <1>1, ReportedArtsType
    <2>3. Len(results) \in Nat /\ Len(results) # 0 /\ DOMAIN results = 1..Len(results)
      BY <1>1, <1>2
    <2>4. DOMAIN Tail(results) = 1..(Len(results) - 1)
      BY <2>1, <2>3
    <2>5. ReportedArts' = [i \in 1..(Len(results) - 1) |-> results[i + 1].art]
      BY <1>1, <2>1, <2>3, <2>4 DEF ReportedArts
    <2>6. ReportedArts # <<>>
      BY <2>2, <2>3
    <2>7. /\ Tail(ReportedArts) \in Seq(ArticleIds)
          /\ Len(Tail(ReportedArts)) = Len(results) - 1
          /\ \A i \in 1..(Len(results) - 1) : Tail(ReportedArts)[i] = ReportedArts[i + 1]
      BY <2>2, <2>6, HeadTailProperties
    <2>8. \A i \in 1..(Len(results) - 1) : ReportedArts[i + 1] = results[i + 1].art
      BY <2>3 DEF ReportedArts
    <2>9. /\ ReportedArts' \in Seq(ArticleIds)
          /\ Len(ReportedArts') = Len(results) - 1
          /\ \A i \in 1..(Len(results) - 1) : ReportedArts'[i] = results[i + 1].art
      <3>1. \A i \in 1..(Len(results) - 1) : results[i + 1].art \in ArticleIds
        <4>1. \A i \in 1..(Len(results) - 1) : results[i + 1] \in DownloadResult
          BY <1>2, <2>3
        <4>2. \A r \in DownloadResult : r.art \in ArticleIds
          BY DEF DownloadResult
        <4> QED BY <4>1, <4>2
      <3>2. Len(results) - 1 \in Nat
        BY <2>3
      <3> QED BY <2>5, <3>1, <3>2
    <2> QED BY <2>7, <2>8, <2>9, SeqEqual
  <1> HIDE DEF a, o
  <1>7. Active' = Active \ {a}
    BY <1>1, <1>3, <1>4, ReleasedActive
  <1>8. ListsInv'
    <2>1. CASE IgnoreResult(a[1], x)
      <3>1. UNCHANGED <<queue, history, nzb>>
        BY <2>1 DEF IgnoreResult
      <3>2. IdsAreUnique'
        BY <1>1, <3>1 DEF IdsAreUnique
      <3> QED BY <1>1, <1>3, <1>7, <3>1, <3>2, ResultLists
    <2>2. CASE ApplyOutcome(a[1], x, o) /\ o = "Blocked"
      <3>1. /\ nzb' = [nzb EXCEPT ![a[1]].segs[x] = "Undefined"]
            /\ UNCHANGED <<queue, history>>
        BY <2>2 DEF ApplyOutcome, BlockDownloads
      <3>2. IdsAreUnique'
        BY <1>1, <3>1 DEF IdsAreUnique
      <3>3. ASSUME NEW n \in Range(queue'), NEW y \in Files \X Segments,
                   <<n, y[1], y[2]>> # a
            PROVE  nzb'[n].segs[y] = nzb[n].segs[y]
        <4>1. n \in NzbIds /\ nzb[n] \in NzbRecord
          BY <1>1, <3>1, IdsAreBelowNext DEF TypeOK
        <4>2. CASE n # a[1]
          BY <1>1, <3>1, <4>1, <4>2 DEF TypeOK
        <4>3. CASE n = a[1]
          <5>1. y # x
            BY <1>3, <3>3, <4>3 DEF ArticleIds
          <5>2. nzb'[n].segs = [nzb[n].segs EXCEPT ![x] = "Undefined"]
            BY <1>1, <3>1, <4>1, <4>3 DEF TypeOK, NzbRecord
          <5>3. nzb[n].segs \in [Files \X Segments -> SegmentStatus]
            BY <4>1 DEF NzbRecord
          <5> QED BY <5>1, <5>2, <5>3
        <4> QED BY <4>2, <4>3
      <3> QED BY <1>1, <1>3, <1>7, <3>1, <3>2, <3>3, ResultLists
    <2>3. CASE ApplyOutcome(a[1], x, o) /\ o # "Blocked"
      <3>1. InQueue(a[1]) /\ SettleArticle(a[1], x, o)
        BY <2>3 DEF ApplyOutcome
      <3> QED BY <1>1, <1>3, <1>7, <3>1, SettleArticleLists
    <2> QED BY <1>4, <2>1, <2>2, <2>3
  <1>9. SlotsInv'
    <2>1. CASE shutdown
      <3>1. Active' = {} /\ shutdown'
        BY <1>1, <1>7, <2>1 DEF SlotsInv, StopInv
      <3>2. ConnectionLimit'
        BY <3>1, NoneActive
      <3> QED
        BY <1>1, <3>1, <3>2 DEF SlotsInv, StopInv, FlowIsExact, SlotAccounting
    <2>2. CASE ~shutdown
      <3>1. /\ IsInjective(ReportedArts) /\ ReportedArts \in Seq(ArticleIds)
            /\ Range(ReportedArts) = Reported /\ ReportedArts # <<>>
        <4>1. Len(results) # 0
          BY <1>1, <1>2
        <4> QED BY <1>1, <2>2, <4>1, ReportedArtsType DEF SlotsInv, FlowIsExact
      <3>2. /\ a \in Reported /\ IsInjective(ReportedArts')
            /\ Range(ReportedArts') = Reported \ {a}
        BY <1>5, <1>6, <3>1, TailRange
      <3>3. Reported' = Range(ReportedArts')
        BY DEF Reported, ReportedArts, Range
      <3>4. a \in Active /\ a \notin Range(assignments) /\ a \notin fetching
        BY <1>1, <2>2, <3>2 DEF SlotsInv, FlowIsExact
      <3>5. SlotAccounting' /\ ConnectionLimit'
        BY <1>1, <1>4, <2>2, <3>4, SlotReleased DEF SlotsInv
      <3>6. FlowIsExact'
        BY <1>1, <1>7, <2>2, <3>2, <3>3, <3>4 DEF SlotsInv, FlowIsExact
      <3>7. StopInv'
        BY <1>1, <2>2 DEF StopInv
      <3> QED BY <3>5, <3>6, <3>7 DEF SlotsInv
    <2> QED BY <2>1, <2>2
  <1> QED BY <1>8, <1>9

-----------------------------------------------------------------------------
(* The worker, the shutdown and the rest.                                  *)

LEMMA FillDoneStep ==
    ASSUME IInv, FillDone PROVE ListsInv' /\ SlotsInv'
  <1>1. /\ TypeOK /\ ListsInv /\ SlotsInv
        /\ UNCHANGED <<lists, active, slots, assignments, fetching, shutdown>>
    BY DEF IInv, FillDone, controls, slots
  <1>2. ListsInv'
    BY <1>1, ListsUnchanged
  <1>3. CASE shutdown /\ Active = {}
    <2>1. Active' = {} /\ shutdown'
      BY <1>1, <1>3 DEF Active
    <2>2. ConnectionLimit'
      BY <2>1, NoneActive
    <2> QED
      BY <1>2, <2>1, <2>2 DEF SlotsInv, StopInv, FlowIsExact, SlotAccounting
  <1>4. CASE ~(shutdown /\ Active = {})
    <2>1. pc' = "select" /\ UNCHANGED results
      BY <1>4 DEF FillDone
    <2> QED BY <1>1, <1>2, <2>1, SlotsKept DEF worker
  <1> QED BY <1>2, <1>3, <1>4

LEMMA StartFetchStep ==
    ASSUME IInv, StartFetch PROVE ListsInv' /\ SlotsInv'
  <1>1. /\ TypeOK /\ ListsInv /\ SlotsInv
        /\ UNCHANGED <<pc, lists, active, slots, shutdown, results>>
    BY DEF IInv, StartFetch, controls, slots
  <1>2. ListsInv'
    BY <1>1, ListsUnchanged
  <1>3. /\ assignments \in Seq(ArticleIds) /\ assignments # <<>>
        /\ fetching' = fetching \union {Head(assignments)}
        /\ assignments' = Tail(assignments)
    BY <1>1 DEF TypeOK, StartFetch
  <1>4. Active' = Active /\ Reported' = Reported /\ ReportedArts' = ReportedArts
    BY <1>1 DEF slots, Active, Reported, ReportedArts
  <1>5. FlowIsExact'
    <2>1. CASE shutdown
      BY <1>1, <2>1 DEF FlowIsExact
    <2>2. CASE ~shutdown
      <3>1. IsInjective(assignments)
        BY <1>1, <2>2 DEF SlotsInv, FlowIsExact
      <3>2. /\ Head(assignments) \in Range(assignments)
            /\ Range(assignments') = Range(assignments) \ {Head(assignments)}
            /\ IsInjective(assignments')
        BY <1>3, <3>1, TailRange
      <3> QED BY <1>1, <1>3, <1>4, <2>2, <3>2 DEF SlotsInv, FlowIsExact
    <2> QED BY <2>1, <2>2
  <1>6. StopInv' /\ SlotAccounting' /\ ConnectionLimit'
    BY <1>1, <1>4 DEF SlotsInv, StopInv, SlotAccounting, ConnectionLimit, slots,
                      PerFile, OnServer
  <1> QED BY <1>2, <1>5, <1>6 DEF SlotsInv

LEMMA FetchDoneStep ==
    ASSUME IInv, NEW a \in ArticleIds, FetchDone(a) PROVE ListsInv' /\ SlotsInv'
  <1>1. /\ TypeOK /\ ListsInv /\ SlotsInv
        /\ UNCHANGED <<pc, lists, active, slots, shutdown, assignments>>
    BY DEF IInv, FetchDone, controls, slots
  <1>2. ListsInv'
    BY <1>1, ListsUnchanged
  <1>3. Active' = Active
    BY <1>1 DEF slots, Active
  <1>4. FlowIsExact'
    <2>1. CASE shutdown
      BY <1>1, <2>1 DEF FlowIsExact
    <2>2. CASE ~shutdown
      <3>1. a \in fetching /\ fetching' = fetching \ {a} /\ pc # "stopped"
        BY <1>1, <2>2 DEF FetchDone, SlotsInv, StopInv
      <3>2. PICK o \in Outcomes : results' = Append(results, [art |-> a, outcome |-> o])
        BY <3>1 DEF FetchDone
      <3>3. /\ ReportedArts \in Seq(ArticleIds) /\ Len(ReportedArts) = Len(results)
            /\ Range(ReportedArts) = Reported
        BY <1>1, ReportedArtsType
      <3>4. ReportedArts' = Append(ReportedArts, a)
        <4> DEFINE r == [art |-> a, outcome |-> o]
        <4>1. /\ results \in Seq(DownloadResult) /\ r \in DownloadResult
              /\ results' = Append(results, r) /\ r.art = a
          BY <1>1, <3>2 DEF TypeOK, DownloadResult
        <4> HIDE DEF r
        <4>2. /\ results' \in Seq(DownloadResult) /\ Len(results') = Len(results) + 1
              /\ \A i \in 1..Len(results) : results'[i] = results[i]
              /\ results'[Len(results) + 1] = r
          BY <4>1, AppendProperties
        <4>3. /\ Len(results) \in Nat /\ DOMAIN results = 1..Len(results)
              /\ DOMAIN results' = 1..(Len(results) + 1)
          BY <4>1, <4>2
        <4>4. /\ ReportedArts = [i \in 1..Len(results) |-> results[i].art]
              /\ ReportedArts' = [i \in 1..(Len(results) + 1) |-> results'[i].art]
          BY <4>3 DEF ReportedArts
        <4>5. /\ Append(ReportedArts, a) \in Seq(ArticleIds)
              /\ Len(Append(ReportedArts, a)) = Len(results) + 1
              /\ \A i \in 1..Len(results) :
                    Append(ReportedArts, a)[i] = results[i].art
              /\ Append(ReportedArts, a)[Len(results) + 1] = a
          BY <3>3, <4>4, AppendProperties
        <4>6. /\ \A i \in 1..Len(results) : ReportedArts'[i] = results[i].art
              /\ ReportedArts'[Len(results) + 1] = a
          BY <4>1, <4>2, <4>3, <4>4
        <4>7. \A i \in 1..(Len(results) + 1) :
                 ReportedArts'[i] = Append(ReportedArts, a)[i]
          <5>1. ASSUME NEW i \in 1..(Len(results) + 1)
                PROVE  i \in 1..Len(results) \/ i = Len(results) + 1
            BY <4>3
          <5> QED BY <4>5, <4>6, <5>1
        <4>8. ReportedArts' \in Seq(ArticleIds) /\ Len(ReportedArts') = Len(results) + 1
          <5>1. \A i \in 1..(Len(results) + 1) : ReportedArts'[i] \in ArticleIds
            BY <4>5, <4>7
          <5> QED BY <4>3, <4>4, <5>1
        <4> QED BY <4>5, <4>7, <4>8, SeqEqual
      <3>5. a \notin Reported /\ IsInjective(ReportedArts)
        BY <1>1, <2>2, <3>1 DEF SlotsInv, FlowIsExact
      <3>6. Range(ReportedArts') = Reported \union {a} /\ IsInjective(ReportedArts')
        BY <3>3, <3>4, <3>5, AppendRange
      <3>7. Reported' = Range(ReportedArts')
        BY DEF Reported, ReportedArts, Range
      <3> QED
        BY <1>1, <1>3, <2>2, <3>1, <3>5, <3>6, <3>7 DEF SlotsInv, FlowIsExact
    <2> QED BY <2>1, <2>2
  <1>5. StopInv' /\ SlotAccounting' /\ ConnectionLimit'
    BY <1>1, <1>3 DEF SlotsInv, StopInv, SlotAccounting, ConnectionLimit, slots,
                      PerFile, OnServer
  <1> QED BY <1>2, <1>4, <1>5 DEF SlotsInv

LEMMA ShutdownStep ==
    ASSUME IInv, Shutdown PROVE ListsInv' /\ SlotsInv'
  <1>1. Active' = {} /\ shutdown' /\ UNCHANGED lists
    BY DEF Shutdown, Active
  <1>2. ListsInv'
    BY <1>1 DEF IInv, ListsInv, IdsAreUnique, ActiveIsAllocated, ActiveIsRunning,
                lists
  <1>3. ConnectionLimit'
    BY <1>1, NoneActive
  <1> QED
    BY <1>1, <1>2, <1>3 DEF SlotsInv, StopInv, FlowIsExact, SlotAccounting

-----------------------------------------------------------------------------
LEMMA InitInv == Init => IInv
  <1> SUFFICES ASSUME Init PROVE IInv
    OBVIOUS
  <1>1. /\ Active = {} /\ Reported = {} /\ ReportedArts = <<>>
        /\ Range(queue) = {} /\ Range(assignments) = {}
    BY DEF Init, Active, Reported, ReportedArts, Range
  <1>2. TypeOK
    BY InitType
  <1>3. ListsInv
    BY <1>1 DEF Init, ListsInv, IdsAreUnique, ActiveIsAllocated, ActiveIsRunning,
                IsInjective
  <1>4. /\ \A k : Cardinality(PerFile(k)) = 0
        /\ \A s : Cardinality(OnServer(s)) = 0
    BY <1>1, FS_EmptySet DEF PerFile, OnServer
  <1>5. SlotAccounting
    BY <1>4 DEF Init, SlotAccounting
  <1>6. ConnectionLimit
    BY <1>4, CoordinatorAssumption DEF ConnectionLimit
  <1>7. StopInv /\ FlowIsExact
    BY <1>1 DEF Init, StopInv, FlowIsExact, IsInjective
  <1> QED BY <1>2, <1>3, <1>5, <1>6, <1>7 DEF IInv, SlotsInv

LEMMA NextInv == IInv /\ [Next]_vars => IInv'
  <1> SUFFICES ASSUME IInv, [Next]_vars PROVE ListsInv' /\ SlotsInv'
    BY NextType DEF IInv
  <1>1. TypeOK /\ ListsInv /\ SlotsInv
    BY DEF IInv
  <1>2. CASE FillDownloadSlots
    BY <1>2, DispatchArticleStep, FillDoneStep DEF FillDownloadSlots
  <1>3. CASE RefillTick
    <2>1. UNCHANGED <<lists, active, slots, worker, shutdown>> /\ pc' = "fill"
      BY <1>3 DEF RefillTick, controls, slots
    <2> QED BY <1>1, <2>1, ListsUnchanged, SlotsKept
  <1>4. CASE Worker
    BY <1>4, StartFetchStep, FetchDoneStep DEF Worker
  <1>5. CASE HandleDownloadComplete
    BY <1>5, HandleDownloadCompleteStep
  <1>6. CASE QueueCommand
    <2>1. UNCHANGED <<slots, worker, shutdown>> /\ pc' = "fill"
      BY <1>6, OthersAreSlots
      DEF QueueCommand, AddNzb, PauseAll, ResumeAll, SetStrategy, RemoveNzb,
          SetNzbPaused, ParUnpause, MoveNzb, MoveToMissing, SetFilePaused,
          SetPriority, Command, controls
    <2>2. ListsInv'
      <3>1. CASE PauseAll \/ SetStrategy
        BY <1>1, <2>1, <3>1, ListsUnchanged DEF PauseAll, SetStrategy, slots
      <3>2. CASE AddNzb \/ ResumeAll
        BY <1>1, <3>2, AddNzbLists, ResumeAllLists
      <3>3. ASSUME NEW n \in NzbIds,
                   RemoveNzb(n) \/ MoveToMissing(n) \/ MoveNzb(n)
            PROVE  ListsInv'
        BY <1>1, <3>3, RemoveNzbLists, MoveNzbLists
      <3>4. ASSUME NEW n \in NzbIds,
                   \/ SetNzbPaused(n) \/ ParUnpause(n)
                   \/ \E f \in Files : SetFilePaused(n, f)
                   \/ \E p \in Priorities : SetPriority(n, p)
            PROVE  ListsInv'
        BY <1>1, <3>4, RecordCommandLists
      <3> QED BY <1>6, <3>1, <3>2, <3>3, <3>4 DEF QueueCommand
    <2>3. SlotsInv'
      BY <1>1, <2>1, SlotsKept
    <2> QED BY <2>2, <2>3
  <1>7. CASE HistoryCommand
    <2>1. UNCHANGED <<slots, worker, shutdown>> /\ pc' = "fill"
      BY <1>7, OthersAreSlots
      DEF HistoryCommand, HistoryReturn, HistoryProcess, HistoryRedownload,
          HistoryDelete, Command, controls
    <2> QED BY <1>1, <1>7, <2>1, HistoryLists, SlotsKept DEF HistoryCommand
  <1>8. CASE Shutdown
    BY <1>8, ShutdownStep
  <1>9. CASE PostProcessing
    <2>1. UNCHANGED <<slots, worker, shutdown>> /\ (pc' = pc \/ pc' = "fill")
      BY <1>9, OthersAreSlots
      DEF PostProcessing, ForwardTake, ForwardSend, PostTake, UpdatePostStage,
          FinishPostProcessing, FinishUnreported, controls
    <2>2. ListsInv'
      BY <1>1, <1>9, PostProcessingLists
    <2>3. SlotsInv'
      BY <1>1, <2>1, SlotsKept
    <2> QED BY <2>2, <2>3
  <1>10. CASE UNCHANGED vars
    <2>1. UNCHANGED <<pc, lists, active, slots, worker, shutdown>>
      BY <1>10 DEF vars, controls, slots
    <2> QED BY <1>1, <2>1, ListsUnchanged, SlotsKept
  <1> QED
    BY <1>2, <1>3, <1>4, <1>5, <1>6, <1>7, <1>8, <1>9, <1>10 DEF Next

THEOREM InvCorrect == Spec => []IInv
  <1>1. Init => IInv
    BY InitInv
  <1>2. IInv /\ [Next]_vars => IInv'
    BY NextInv
  <1> QED BY <1>1, <1>2, PTL DEF Spec

(* active_per_file and active_count, counted up when an article is sent    *)
(* and down when its result arrives, always equal the number of entries of *)
(* active_downloads for the file and for the server.                       *)
THEOREM SlotsAreCounted == Spec => []SlotAccounting
  <1>1. IInv => SlotAccounting
    BY DEF IInv, SlotsInv
  <1> QED BY <1>1, InvCorrect, PTL

(* A server is never asked for more articles at a time than it has         *)
(* connections, for any number of servers, levels, NZBs and connections.   *)
THEOREM ConnectionsAreBounded == Spec => []ConnectionLimit
  <1>1. IInv => ConnectionLimit
    BY DEF IInv, SlotsInv
  <1> QED BY <1>1, InvCorrect, PTL

(* Every active download is in one place between the coordinator and the   *)
(* worker: in the assignment channel, being fetched, or reported.          *)
THEOREM InFlightIsConserved == Spec => []InFlightConserved
  <1>1. IInv => InFlightConserved
    <2> SUFFICES ASSUME IInv, ~shutdown PROVE InFlightConserved
      BY DEF InFlightConserved
    <2>1. TypeOK /\ FlowIsExact
      BY DEF IInv, SlotsInv
    <2> DEFINE A == Range(assignments)
    <2>2. /\ A \intersect fetching = {} /\ A \intersect Reported = {}
          /\ fetching \intersect Reported = {}
          /\ Active = A \union fetching \union Reported
      BY <2>1 DEF FlowIsExact
    <2>3. /\ IsFiniteSet(A) /\ Cardinality(A) = Len(assignments)
          /\ Len(assignments) \in Nat
      BY <2>1, RangeCardinality DEF FlowIsExact, TypeOK
    <2>4. IsFiniteSet(Reported) /\ Cardinality(Reported) = Len(results)
      <3>1. /\ ReportedArts \in Seq(ArticleIds) /\ IsInjective(ReportedArts)
            /\ Len(ReportedArts) = Len(results) /\ Range(ReportedArts) = Reported
        BY <2>1, ReportedArtsType DEF FlowIsExact
      <3> QED BY <3>1, RangeCardinality
    <2>5. IsFiniteSet(fetching)
      BY <2>1, ArticlesAreFinite, FS_Subset DEF TypeOK
    <2> HIDE DEF A
    <2>6. /\ IsFiniteSet(A \union fetching)
          /\ Cardinality(A \union fetching) = Len(assignments) + Cardinality(fetching)
      BY <2>2, <2>3, <2>5, DisjointUnion
    <2>7. Cardinality(Active) = Cardinality(A \union fetching) + Cardinality(Reported)
      <3>1. (A \union fetching) \intersect Reported = {}
        BY <2>2
      <3> QED BY <2>2, <2>4, <2>6, <3>1, DisjointUnion
    <2> QED BY <2>2, <2>4, <2>6, <2>7 DEF InFlightConserved, A
  <1> QED BY <1>1, InvCorrect, PTL

(* The id of an NZB is used once: it is queued at most once, never both    *)
(* queued and in the history, and never allocated again.                   *)
THEOREM IdsStayUnique == Spec => []IdsAreUnique
  <1>1. IInv => IdsAreUnique
    BY DEF IInv, ListsInv
  <1> QED BY <1>1, InvCorrect, PTL

(* next_article cannot pick an article of a queued NZB that is already on  *)
(* its way: it is marked Running until its result arrives.                 *)
THEOREM ActiveStaysRunning == Spec => []ActiveIsRunning
  <1>1. IInv => ActiveIsRunning
    BY DEF IInv, ListsInv
  <1> QED BY <1>1, InvCorrect, PTL
=============================================================================
