-------------------------- MODULE ComponentProofs --------------------------
(* Theorems about the components that keep a state of their own beside the *)
(* queue, the server pool and the disk, each on its own.                   *)
EXTENDS YencDecoder, BackgroundServices, ArticleCache, NntpConnection, FileWriters,
        SpeedLimiter, RemoteControl, NzbParser, SequenceLemmas

-----------------------------------------------------------------------------
(* YencDecoder.                                                            *)

YencSpec == YencInit /\ [][YencNext]_yencVars

(* Until it has failed, the decoder has no more bytes than its range.      *)
YencInv ==
    /\ decoder \in [state : {"WaitingForHeader", "WaitingForPart", "DecodingBody", "Finished",
                             "Failed"},
                    begin : Optional, end : Optional, len : Nat, intact : BOOLEAN]
    /\ segment \in [result : {"none", "error", "segment"}, begin : Nat, len : Nat, crc : BOOLEAN]
    /\ decoder.begin = NoField <=> decoder.end = NoField
    /\ decoder.state \in {"WaitingForHeader", "WaitingForPart"} => decoder.len = 0
    /\ decoder.end # NoField /\ 1 <= decoder.begin /\ decoder.begin <= decoder.end
          => decoder.len <= decoder.end - decoder.begin + 1
    /\ Decoded => /\ decoder.state = "Finished" /\ segment.len = decoder.len
                  /\ decoder.begin # NoField => segment.begin = decoder.begin
                  /\ segment.crc => decoder.intact

LEMMA WrappedIsLess == \A n \in Nat : Wrapped(n) \in Nat /\ Wrapped(n) <= n
  <1>1. 2 ^ OffsetBits \in Nat \ {0}
    BY YencAssumption
  <1> QED BY <1>1 DEF Wrapped

LEMMA YencStep == YencInv /\ [YencNext]_yencVars => YencInv'
  <1> SUFFICES ASSUME YencInv, [YencNext]_yencVars PROVE YencInv'
    OBVIOUS
  <1>a. NoField \notin Fields /\ Fields \subseteq Nat
    BY YencAssumption DEF Fields
  <1>1. ASSUME Fails, ~Decoded PROVE YencInv'
    BY <1>1 DEF Fails, YencInv, Decoded
  <1>2. CASE parse_ybegin
    BY <1>1, <1>2 DEF parse_ybegin, In, YencInv, Decoded
  <1>3. CASE parse_ypart
    <2>1. decoder.state = "WaitingForPart" /\ ~Decoded /\ decoder.len = 0
      BY <1>3 DEF parse_ypart, In, YencInv
    <2>2. ASSUME NEW b \in Fields, NEW e \in Fields, segment' = segment,
                 decoder' = [decoder EXCEPT !.state = "DecodingBody", !.begin = b, !.end = e]
          PROVE  YencInv'
      <3>1. /\ decoder'.state = "DecodingBody" /\ decoder'.begin = b /\ decoder'.end = e
            /\ decoder'.len = 0
            /\ decoder' \in [state : {"WaitingForHeader", "WaitingForPart", "DecodingBody",
                                      "Finished", "Failed"},
                             begin : Optional, end : Optional, len : Nat, intact : BOOLEAN]
        BY <2>1, <2>2 DEF YencInv, Optional
      <3>2. b # NoField /\ e # NoField /\ b \in Nat /\ e \in Nat
        BY <1>a
      <3> QED BY <2>1, <2>2, <3>1, <3>2 DEF YencInv, Decoded
    <2> QED BY <1>1, <1>3, <2>1, <2>2 DEF parse_ypart
  <1>4. CASE decode_body
    <2>1. PICK n \in 1..2, good \in BOOLEAN :
             LET d == [decoder EXCEPT !.len = @ + n, !.intact = @ /\ good]
             IN IF TooLong(d) THEN Fails ELSE decoder' = d /\ UNCHANGED segment
      BY <1>4 DEF decode_body
    <2> DEFINE d == [decoder EXCEPT !.len = @ + n, !.intact = @ /\ good]
    <2>2. ~Decoded
      BY <1>4 DEF decode_body, In, YencInv
    <2>3. CASE TooLong(d)
      BY <1>1, <2>1, <2>2, <2>3
    <2>4. CASE ~TooLong(d)
      <3>1. decoder' = d /\ segment' = segment
        BY <2>1, <2>4
      <3>2. /\ d.begin = decoder.begin /\ d.end = decoder.end /\ d.state = "DecodingBody"
            /\ d.len \in Nat /\ d.intact \in BOOLEAN
            /\ d \in [state : {"WaitingForHeader", "WaitingForPart", "DecodingBody", "Finished",
                               "Failed"},
                      begin : Optional, end : Optional, len : Nat, intact : BOOLEAN]
        <4>1. decoder.state = "DecodingBody" /\ decoder.len + n \in Nat
              /\ (decoder.intact /\ good) \in BOOLEAN
          BY <1>4 DEF YencInv, decode_body, In
        <4> QED BY <4>1 DEF YencInv
      <3> HIDE DEF d
      <3>3. ASSUME d.end # NoField, 1 <= d.begin, d.begin <= d.end
            PROVE  d.len <= d.end - d.begin + 1
        <4>1. d.begin \in Nat /\ d.end \in Nat
          BY <1>a, <3>2, <3>3 DEF YencInv, Optional
        <4>2. d.end - d.begin + 1 \in Nat /\ Wrapped(d.end - d.begin + 1) <= d.end - d.begin + 1
              /\ Wrapped(d.end - d.begin + 1) \in Nat
          BY <3>3, <4>1, WrappedIsLess
        <4> QED BY <2>4, <3>2, <3>3, <4>1, <4>2 DEF TooLong
      <3> QED BY <2>2, <3>1, <3>2, <3>3 DEF YencInv, Decoded
    <2> QED BY <2>3, <2>4
  <1>5. CASE parse_yend
    BY <1>1, <1>5, <1>a DEF parse_yend, In, YencInv, Decoded, Optional
  <1>6. CASE UNCHANGED yencVars
    BY <1>6 DEF yencVars, YencInv, Decoded
  <1> QED BY <1>2, <1>3, <1>4, <1>5, <1>6 DEF YencNext

(* A decoded part ends within its range, so that it overwrites nothing of  *)
(* its neighbours, for any width of the offsets; what has a checksum is    *)
(* what the poster encoded.                                                *)
THEOREM PartsStayInRange == YencSpec => []YencStaysInPart
  <1>1. YencInit => YencInv
    BY YencAssumption DEF YencInit, YencInv, Optional, Fields, Decoded
  <1>2. YencInv => YencStaysInPart
    <2> SUFFICES ASSUME YencInv, Decoded PROVE YencStaysInPart
      BY DEF YencStaysInPart
    <2>1. ASSUME decoder.end # NoField, 1 <= decoder.begin, decoder.begin <= decoder.end
          PROVE  WriteOffset + segment.len <= decoder.end
      <3>1. decoder.begin \in Nat /\ decoder.end \in Nat /\ decoder.len \in Nat
        BY <2>1, YencAssumption DEF YencInv, Optional, Fields
      <3>2. segment.begin = decoder.begin /\ segment.len = decoder.len
        BY <2>1 DEF YencInv
      <3>3. decoder.len <= decoder.end - decoder.begin + 1
        BY <2>1 DEF YencInv
      <3>4. WriteOffset = decoder.begin - 1
        BY <2>1, <3>1, <3>2 DEF WriteOffset
      <3> QED BY <3>1, <3>2, <3>3, <3>4
    <2> QED BY <2>1 DEF YencStaysInPart, YencInv
  <1> QED BY <1>1, <1>2, YencStep, PTL DEF YencSpec

-----------------------------------------------------------------------------
(* BackgroundServices.                                                     *)

ServiceSpec == ServiceInit /\ [][ServiceStep \/ Cleanup]_serviceVars

(* Whoever pauses the queue says so in the same step, and whoever resumes  *)
(* it takes back no more than his own.                                     *)
PauseInv ==
    /\ PauseHasAnOwner
    /\ {paused, requested, paused_by_us, quota_paused} \subseteq BOOLEAN

LEMMA PauseStep == PauseInv /\ [ServiceStep \/ Cleanup]_serviceVars => PauseInv'
  <1> SUFFICES ASSUME PauseInv, [ServiceStep \/ Cleanup]_serviceVars PROVE PauseInv'
    OBVIOUS
  <1> USE DEF PauseInv, PauseHasAnOwner, taskVars, flagVars, monitorVars, queueVars, cleanupVars
  <1>1. CASE TimePasses \/ SetBack \/ BeginTick \/ SkipTask \/ TaskFails
    BY <1>1 DEF TimePasses, SetBack, BeginTick, SkipTask, TaskFails
  <1>2. CASE RunTask
    <2>1. PICK c : execute(c)
      BY <1>2 DEF RunTask
    <2>2. UNCHANGED <<paused_by_us, quota_paused>>
      BY <1>2 DEF RunTask
    <2>3. \/ paused' = TRUE /\ requested' = TRUE
          \/ paused' = FALSE /\ requested' = FALSE
          \/ paused' = paused /\ requested' = requested
      BY <2>1 DEF execute
    <2>4. CASE paused' = TRUE /\ requested' = TRUE
      BY <2>2, <2>4
    <2>5. CASE paused' = FALSE /\ requested' = FALSE
      BY <2>2, <2>5
    <2>6. CASE paused' = paused /\ requested' = requested
      BY <2>2, <2>6
    <2> QED BY <2>3, <2>4, <2>5, <2>6
  <1>3. CASE SpaceChanges
    BY <1>3 DEF SpaceChanges
  <1>4. CASE DiskSpaceLow
    <2>1. paused' = TRUE /\ paused_by_us' = TRUE /\ UNCHANGED <<requested, quota_paused>>
      BY <1>4 DEF DiskSpaceLow
    <2> QED BY <2>1
  <1>5. CASE DiskSpaceRecovered
    <2>1. paused' = FALSE /\ paused_by_us' = FALSE /\ UNCHANGED <<requested, quota_paused>>
      BY <1>5 DEF DiskSpaceRecovered
    <2> QED BY <2>1
  <1>6. CASE QuotaChanges \/ QuotaReached \/ QuotaReset
    BY <1>6 DEF QuotaChanges, QuotaReached, QuotaReset
  <1>7. CASE UpdateQueue
    <2>1. paused' = (updater = "Pause") /\ quota_paused' = (updater = "Pause")
          /\ requested' = requested /\ paused_by_us' = paused_by_us
      BY <1>7 DEF UpdateQueue
    <2>2. CASE updater = "Pause"
      BY <2>1, <2>2
    <2>3. CASE updater # "Pause"
      BY <2>1, <2>3
    <2> QED BY <2>2, <2>3
  <1>8. CASE rpc_pausedownload \/ rpc_resumedownload
    BY <1>8 DEF rpc_pausedownload, rpc_resumedownload
  <1>9. CASE RpcSetsFlag \/ Cleanup \/ UNCHANGED serviceVars
    <2>1. UNCHANGED <<paused, requested, paused_by_us, quota_paused>>
      BY <1>9 DEF RpcSetsFlag, Cleanup, ListHistory, CleanEntry, UserReturns, serviceVars
    <2> QED BY <2>1
  <1> QED BY <1>1, <1>2, <1>3, <1>4, <1>5, <1>6, <1>7, <1>8, <1>9 DEF ServiceStep

(* A paused queue has somebody who asked for it or who will resume it, for *)
(* any tasks and however the four parties interleave.                      *)
THEOREM PausesAreOwned == ServiceSpec => []PauseHasAnOwner
  <1>1. ServiceInit => PauseInv
    BY DEF ServiceInit, PauseInv, PauseHasAnOwner
  <1>2. PauseInv => PauseHasAnOwner
    BY DEF PauseInv
  <1> QED BY <1>1, <1>2, PauseStep, PTL DEF ServiceSpec

(* The days of a task's runs, of the tick under way and of the clock never *)
(* go back, although the clock does; so a task that runs again runs later  *)
(* or in the same minute, which the last execution rules out.              *)
IsIncreasing(s) == \A i, j \in DOMAIN s : i < j => s[i] < s[j]

RunsOf(t) ==
    /\ runs[t] \in Seq(Moments) /\ IsIncreasing(runs[t])
    /\ last_executed[t] = IF runs[t] = <<>> THEN Never ELSE runs[t][Len(runs[t])]
    /\ \A i \in DOMAIN runs[t] :
          /\ TimeOfDay(runs[t][i]) = parse_scheduler_tasks[t].time
          /\ Day(runs[t][i]) <= Day(IF tick_now = Idle THEN now ELSE tick_now)

RunsInv ==
    /\ now \in Moments /\ tick_now \in Moments \union {Idle}
    /\ tick_now # Idle => Day(tick_now) <= Day(now)
    /\ DOMAIN runs = Tasks /\ DOMAIN last_executed = Tasks
    /\ \A t \in Tasks : RunsOf(t)

LEMMA MomentType ==
    ASSUME NEW m \in Moments
    PROVE  m \in Nat /\ Day(m) \in Nat /\ TimeOfDay(m) \in Nat
           /\ m = Day(m) * DayMinutes + TimeOfDay(m)
  <1>1. m \in Nat /\ DayMinutes \in Nat \ {0}
    BY ServicesAssumption DEF Moments
  <1> QED BY <1>1 DEF Day, TimeOfDay

(* At one time of the day, the later day is the later moment.              *)
LEMMA LaterDay ==
    ASSUME NEW m \in Moments, NEW k \in Moments, TimeOfDay(k) = TimeOfDay(m), Day(k) <= Day(m),
           k # m
    PROVE  k < m
  <1>1. /\ m = Day(m) * DayMinutes + TimeOfDay(m) /\ k = Day(k) * DayMinutes + TimeOfDay(m)
        /\ Day(m) \in Nat /\ Day(k) \in Nat /\ TimeOfDay(m) \in Nat /\ m \in Nat /\ k \in Nat
    BY MomentType
  <1>2. DayMinutes \in Nat
    BY ServicesAssumption
  <1>3. Day(k) * DayMinutes <= Day(m) * DayMinutes
    <2>1. \A a, b, c \in Nat : a <= b => a * c <= b * c
      OBVIOUS
    <2> QED BY <1>1, <1>2, <2>1
  <1> QED BY <1>1, <1>2, <1>3

LEMMA DayGoesOn ==
    ASSUME NEW m \in Moments, m + 1 \in Moments
    PROVE  Day(m) <= Day(m + 1)
  <1>1. DayMinutes \in Nat \ {0} /\ m \in Nat
    BY ServicesAssumption DEF Moments
  <1> QED BY <1>1 DEF Day

LEMMA RunsStep == RunsInv /\ [ServiceStep \/ Cleanup]_serviceVars => RunsInv'
  <1> SUFFICES ASSUME RunsInv, [ServiceStep \/ Cleanup]_serviceVars PROVE RunsInv'
    OBVIOUS
  <1> USE DEF RunsInv
  <1>a. now \in Moments /\ tick_now \in Moments \union {Idle} /\ Idle \notin Moments
    BY ServicesAssumption
  <1>b. ASSUME now' \in Moments, tick_now' \in Moments \union {Idle},
               tick_now' # Idle => Day(tick_now') <= Day(now'),
               UNCHANGED <<runs, last_executed>>,
               LET seen == IF tick_now = Idle THEN now ELSE tick_now
               IN  Day(seen) <= Day(seen')
        PROVE  RunsInv'
    <2>1. ASSUME NEW t \in Tasks PROVE RunsOf(t)'
      <3> DEFINE seen == IF tick_now = Idle THEN now ELSE tick_now
      <3>1. RunsOf(t) /\ UNCHANGED <<runs, last_executed>> /\ Day(seen) <= Day(seen')
        BY <1>b
      <3>2. seen \in Moments /\ seen' \in Moments
        BY <1>a, <1>b
      <3>3. Day(seen) \in Nat /\ Day(seen') \in Nat
        BY <3>2, MomentType
      <3>4. ASSUME NEW i \in DOMAIN runs[t]
            PROVE  TimeOfDay(runs[t][i]) = parse_scheduler_tasks[t].time
                   /\ Day(runs[t][i]) <= Day(seen')
        <4>1. runs[t] \in Seq(Moments)
          BY <3>1 DEF RunsOf
        <4>2. Day(runs[t][i]) \in Nat
          BY <3>4, <4>1, MomentType
        <4> QED BY <3>1, <3>3, <3>4, <4>2 DEF RunsOf
      <3> QED BY <3>1, <3>4 DEF RunsOf
    <2> QED BY <1>b, <2>1
  <1>c. /\ Day(now) \in Nat
        /\ tick_now # Idle => Day(tick_now) \in Nat /\ Day(tick_now) <= Day(now)
    BY <1>a, MomentType
  <1>1. CASE TimePasses
    <2>1. now' = now + 1 /\ now' \in Moments /\ UNCHANGED <<tick_now, runs, last_executed>>
      BY <1>1 DEF TimePasses
    <2>2. Day(now) <= Day(now') /\ Day(now') \in Nat
      BY <1>a, <2>1, DayGoesOn, MomentType
    <2> QED BY <1>a, <1>b, <1>c, <2>1, <2>2
  <1>2. CASE SetBack
    <2>1. now' \in Moments /\ Day(now') = Day(now) /\ UNCHANGED <<tick_now, runs, last_executed>>
      BY <1>2 DEF SetBack
    <2> QED BY <1>a, <1>b, <1>c, <2>1
  <1>3. CASE BeginTick
    <2>1. tick_now = Idle /\ tick_now' = now /\ UNCHANGED <<now, runs, last_executed>>
      BY <1>3 DEF BeginTick
    <2> QED BY <1>a, <1>b, <1>c, <2>1
  <1>4. CASE SkipTask \/ TaskFails
    <2>1. /\ UNCHANGED <<now, runs, last_executed>> /\ tick_now # Idle
          /\ tick_now' \in {Idle, tick_now}
      BY <1>4 DEF SkipTask, TaskFails, NextTask
    <2>2. CASE tick_now' = Idle
      BY <1>a, <1>b, <1>c, <2>1, <2>2
    <2>3. CASE tick_now' = tick_now
      BY <1>a, <1>b, <1>c, <2>1, <2>3
    <2> QED BY <2>1, <2>2, <2>3
  <1>5. CASE RunTask
    <2>1. /\ UNCHANGED now /\ tick_now # Idle /\ tick_now' \in {Idle, tick_now}
          /\ should_execute(cursor, tick_now)
          /\ runs' = [runs EXCEPT ![cursor] = Append(@, tick_now)]
          /\ last_executed' = [last_executed EXCEPT ![cursor] = tick_now]
      BY <1>5 DEF RunTask, NextTask
    <2>2. /\ now' \in Moments /\ tick_now' \in Moments \union {Idle} /\ tick_now \in Moments
          /\ tick_now' # Idle => Day(tick_now') <= Day(now')
      BY <1>a, <1>c, <2>1
    <2>3. DOMAIN runs' = Tasks /\ DOMAIN last_executed' = Tasks
      BY <2>1
    <2> DEFINE seen == IF tick_now = Idle THEN now ELSE tick_now
    <2>4. Day(tick_now) <= Day(seen') /\ Day(tick_now) \in Nat /\ Day(seen') \in Nat
      BY <1>a, <1>c, <2>1, <2>2
    <2>5. ASSUME NEW t \in Tasks PROVE RunsOf(t)'
      <3>1. RunsOf(t)
        OBVIOUS
      <3>2. runs[t] \in Seq(Moments) /\ IsIncreasing(runs[t])
        BY <3>1 DEF RunsOf
      <3>3. ASSUME NEW i \in DOMAIN runs[t]
            PROVE  /\ TimeOfDay(runs[t][i]) = parse_scheduler_tasks[t].time
                   /\ Day(runs[t][i]) <= Day(tick_now) /\ Day(runs[t][i]) <= Day(seen')
                   /\ runs[t][i] \in Moments
        <4>1. runs[t][i] \in Moments /\ Day(runs[t][i]) \in Nat
          BY <3>2, MomentType
        <4>2. /\ TimeOfDay(runs[t][i]) = parse_scheduler_tasks[t].time
              /\ Day(runs[t][i]) <= Day(tick_now)
          BY <2>1, <3>1 DEF RunsOf
        <4> QED BY <2>4, <4>1, <4>2
      <3>4. CASE t # cursor
        <4>1. runs'[t] = runs[t] /\ last_executed'[t] = last_executed[t]
          BY <2>1, <3>4
        <4> QED BY <3>1, <3>3, <4>1 DEF RunsOf
      <3>5. CASE t = cursor
        <4>1. runs'[t] = Append(runs[t], tick_now) /\ last_executed'[t] = tick_now
          BY <2>1, <3>5
        <4>2. TimeOfDay(tick_now) = parse_scheduler_tasks[t].time /\ last_executed[t] # tick_now
          BY <2>1, <3>5 DEF should_execute
        <4>3. ASSUME NEW i \in DOMAIN runs[t] PROVE runs[t][i] < tick_now
          <5> DEFINE n == Len(runs[t])
          <5>1. n \in Nat \ {0} /\ i \in 1..n /\ runs[t] # <<>>
            BY <3>2, <4>3
          <5>2. runs[t][n] # tick_now /\ n \in DOMAIN runs[t]
            BY <3>1, <3>2, <4>2, <5>1 DEF RunsOf
          <5>3. runs[t][n] < tick_now
            BY <2>2, <3>3, <4>2, <5>2, LaterDay
          <5>4. runs[t][i] \in Nat /\ runs[t][n] \in Nat /\ tick_now \in Nat
            BY <2>2, <3>3, <5>2, MomentType
          <5>5. i = n \/ runs[t][i] < runs[t][n]
            BY <3>2, <5>1, <5>2 DEF IsIncreasing
          <5> QED BY <5>3, <5>4, <5>5
        <4>4. /\ runs'[t] \in Seq(Moments) /\ Len(runs'[t]) = Len(runs[t]) + 1
              /\ runs'[t] # <<>> /\ runs'[t][Len(runs'[t])] = tick_now
              /\ \A i \in DOMAIN runs[t] : runs'[t][i] = runs[t][i]
              /\ DOMAIN runs'[t] = DOMAIN runs[t] \union {Len(runs[t]) + 1}
          BY <2>2, <3>2, <4>1
        <4>5. IsIncreasing(runs'[t])
          <5>1. \A i \in DOMAIN runs[t] : i \in Nat /\ i <= Len(runs[t])
            BY <3>2
          <5>2. Len(runs[t]) \in Nat
            BY <3>2
          <5> QED BY <3>2, <4>3, <4>4, <5>1, <5>2 DEF IsIncreasing
        <4>6. \A i \in DOMAIN runs'[t] :
                 /\ TimeOfDay(runs'[t][i]) = parse_scheduler_tasks[t].time
                 /\ Day(runs'[t][i]) <= Day(seen')
          BY <2>4, <3>3, <4>2, <4>4
        <4> QED BY <4>1, <4>4, <4>5, <4>6 DEF RunsOf
      <3> QED BY <3>4, <3>5
    <2> QED BY <2>2, <2>3, <2>5
  <1>6. CASE UNCHANGED taskVars
    <2>1. UNCHANGED <<now, tick_now, runs, last_executed>>
      BY <1>6 DEF taskVars
    <2> QED BY <1>a, <1>b, <1>c, <2>1
  <1>7. UNCHANGED taskVars \/ TimePasses \/ SetBack \/ BeginTick \/ SkipTask \/ TaskFails \/ RunTask
    BY DEF ServiceStep, Cleanup, ListHistory, CleanEntry, UserReturns, serviceVars, SpaceChanges,
           DiskSpaceLow, DiskSpaceRecovered, QuotaChanges, QuotaReached, QuotaReset, UpdateQueue,
           rpc_pausedownload, rpc_resumedownload, RpcSetsFlag
  <1> QED BY <1>1, <1>2, <1>3, <1>4, <1>5, <1>6, <1>7

(* A task runs once for a minute of the clock: not again at the second     *)
(* tick of it, nor after another task failed, nor when the clock goes back *)
(* within the day; for any tasks, any length of the day and any calendar.  *)
THEOREM TasksRunOnce == ServiceSpec => []TaskRunsOncePerMinute
  <1>1. ServiceInit => RunsInv
    <2> SUFFICES ASSUME ServiceInit PROVE RunsInv
      OBVIOUS
    <2>1. ASSUME NEW t \in Tasks PROVE RunsOf(t)
      <3>1. runs[t] = <<>> /\ last_executed[t] = Never
        BY DEF ServiceInit
      <3>2. runs[t] \in Seq(Moments) /\ DOMAIN runs[t] = {}
        BY <3>1
      <3> QED BY <3>1, <3>2 DEF RunsOf, IsIncreasing
    <2> QED BY <2>1, ServicesAssumption DEF RunsInv, ServiceInit
  <1>2. RunsInv => TaskRunsOncePerMinute
    <2> SUFFICES ASSUME RunsInv, NEW t \in Tasks, NEW i \in DOMAIN runs[t], NEW j \in DOMAIN runs[t],
                        runs[t][i] = runs[t][j], i # j
                 PROVE  FALSE
      BY DEF TaskRunsOncePerMinute
    <2>1. runs[t] \in Seq(Moments) /\ IsIncreasing(runs[t])
      BY DEF RunsInv, RunsOf
    <2>2. i \in Nat /\ j \in Nat /\ runs[t][i] \in Nat
      BY <2>1, MomentType
    <2>3. i < j \/ j < i
      BY <2>2
    <2> QED BY <2>1, <2>2, <2>3 DEF IsIncreasing
  <1> QED BY <1>1, <1>2, RunsStep, PTL DEF ServiceSpec

-----------------------------------------------------------------------------
(* ArticleCache.                                                           *)

CacheSpec == CacheInit /\ [][CacheNext]_cacheVars

(* The article of the put that holds the lock is counted before it is      *)
(* inserted.  It is no larger than the limit: put_check has seen to that.  *)
Counted == cached \union {MessageOf[c] : c \in {d \in Puts : put[d] = "added"}}

CacheInv ==
    /\ put \in [Puts -> {"none", "checked", "locked", "added", "done"}]
    /\ eviction \in Seq(DOMAIN Size) /\ current_bytes \in Int
    /\ \A c, d \in Puts : {put[c], put[d]} \subseteq {"locked", "added"} => c = d
    /\ \A c \in Puts : put[c] \in {"checked", "locked", "added"} => Bytes(c) <= MaxBytes
    /\ Counted \subseteq Range(eviction)
    /\ IsFiniteSet(BytesIn(Counted))
    /\ Cardinality(BytesIn(Counted)) <= current_bytes
    /\ Cardinality(BytesIn(Counted)) <= MaxBytes

LEMMA BytesOfOne ==
    ASSUME NEW m \in DOMAIN Size
    PROVE  /\ Size[m] \in Nat /\ IsFiniteSet({m} \X (1..Size[m]))
           /\ Cardinality({m} \X (1..Size[m])) = Size[m]
  <1>1. Size[m] \in Nat
    BY CacheAssumption
  <1>2. IsFiniteSet(1..Size[m]) /\ Cardinality(1..Size[m]) = Size[m]
    BY <1>1, FS_Interval
  <1>3. IsFiniteSet({m}) /\ Cardinality({m}) = 1
    BY FS_Singleton
  <1> QED BY <1>1, <1>2, <1>3, FS_Product

LEMMA BytesGrow ==
    ASSUME NEW X, NEW m \in DOMAIN Size, IsFiniteSet(BytesIn(X))
    PROVE  /\ IsFiniteSet(BytesIn(X \union {m}))
           /\ Cardinality(BytesIn(X \union {m})) \in Nat
           /\ Cardinality(BytesIn(X \union {m})) <= Cardinality(BytesIn(X)) + Size[m]
  <1> DEFINE A == BytesIn(X)
             B == {m} \X (1..Size[m])
  <1>1. BytesIn(X \union {m}) = A \union B
    BY DEF BytesIn
  <1>2. IsFiniteSet(A) /\ IsFiniteSet(B) /\ Cardinality(B) = Size[m]
    BY BytesOfOne
  <1> HIDE DEF A, B
  <1>3. /\ IsFiniteSet(A \union B)
        /\ Cardinality(A \union B) = Cardinality(A) + Cardinality(B) - Cardinality(A \intersect B)
    BY <1>2, FS_Union
  <1>4. IsFiniteSet(A \intersect B)
    BY <1>2, FS_Subset
  <1>5. /\ Cardinality(A) \in Nat /\ Cardinality(B) \in Nat /\ Cardinality(A \union B) \in Nat
        /\ Cardinality(A \intersect B) \in Nat
    BY <1>2, <1>3, <1>4, FS_CardinalityType
  <1>6. Cardinality(A \union B) <= Cardinality(A) + Size[m]
    BY <1>2, <1>3, <1>5
  <1> QED BY <1>1, <1>3, <1>5, <1>6 DEF A

LEMMA BytesShrink ==
    ASSUME NEW X, NEW m \in DOMAIN Size, m \in X, IsFiniteSet(BytesIn(X))
    PROVE  /\ IsFiniteSet(BytesIn(X \ {m}))
           /\ Cardinality(BytesIn(X \ {m})) = Cardinality(BytesIn(X)) - Size[m]
  <1> DEFINE A == BytesIn(X)
             B == {m} \X (1..Size[m])
  <1>1. BytesIn(X \ {m}) = A \ B /\ A \intersect B = B
    BY DEF BytesIn
  <1>2. IsFiniteSet(A) /\ Cardinality(B) = Size[m]
    BY BytesOfOne
  <1> HIDE DEF A, B
  <1>3. IsFiniteSet(A \ B) /\ Cardinality(A \ B) = Cardinality(A) - Cardinality(A \intersect B)
    BY <1>2, FS_Difference
  <1> QED BY <1>1, <1>2, <1>3 DEF A

LEMMA OutOfLine ==
    ASSUME NEW S, NEW s \in Seq(S), s # <<>>
    PROVE  /\ Head(s) \in S /\ Tail(s) \in Seq(S)
           /\ \A x \in Range(s) : x = Head(s) \/ x \in Range(Tail(s))
  <1>1. /\ Len(s) \in Nat \ {0} /\ DOMAIN s = 1..Len(s) /\ Head(s) = s[1]
        /\ Tail(s) \in Seq(S) /\ Head(s) \in S
        /\ Len(Tail(s)) = Len(s) - 1 /\ \A k \in 1..(Len(s) - 1) : Tail(s)[k] = s[k + 1]
    BY HeadTailProperties
  <1>2. ASSUME NEW i \in DOMAIN s PROVE s[i] = Head(s) \/ s[i] \in Range(Tail(s))
    <2>1. CASE i = 1
      BY <1>1, <2>1
    <2>2. CASE i > 1
      <3>1. i - 1 \in DOMAIN Tail(s) /\ Tail(s)[i - 1] = s[i]
        BY <1>1, <2>2
      <3> QED BY <3>1 DEF Range
    <2> QED BY <1>1, <2>1, <2>2
  <1> QED BY <1>1, <1>2 DEF Range

LEMMA CacheStep == CacheInv /\ [CacheNext]_cacheVars => CacheInv'
  <1> SUFFICES ASSUME CacheInv, [CacheNext]_cacheVars PROVE CacheInv'
    OBVIOUS
  <1> USE DEF CacheInv
  <1>t. \A c \in Puts : MessageOf[c] \in DOMAIN Size /\ Bytes(c) \in Nat
    BY CacheAssumption DEF Bytes
  <1>n. MaxBytes \in Nat /\ Cardinality(BytesIn(Counted)) \in Nat
    BY CacheAssumption, FS_CardinalityType
  <1>a. ASSUME NEW c \in Puts, NEW to,
               \/ put[c] = "none" /\ to = "done"
               \/ put[c] = "none" /\ to = "checked" /\ Bytes(c) <= MaxBytes
               \/ put[c] = "checked" /\ ~Locked /\ to = "locked",
               put' = [put EXCEPT ![c] = to], UNCHANGED <<cached, eviction, current_bytes>>
        PROVE  CacheInv'
    <2>1. put' \in [Puts -> {"none", "checked", "locked", "added", "done"}]
      BY <1>a
    <2>2. \A d \in Puts : put'[d] = IF d = c THEN to ELSE put[d]
      BY <1>a
    <2>3. {d \in Puts : put'[d] = "added"} = {d \in Puts : put[d] = "added"}
      BY <1>a, <2>2
    <2>4. Counted' = Counted
      BY <1>a, <2>3 DEF Counted
    <2>5. \A x, y \in Puts : {put'[x], put'[y]} \subseteq {"locked", "added"} => x = y
      BY <1>a, <2>2 DEF Locked
    <2>6. \A d \in Puts : put'[d] \in {"checked", "locked", "added"} => Bytes(d) <= MaxBytes
      BY <1>a, <2>2
    <2> QED BY <1>a, <2>1, <2>4, <2>5, <2>6 DEF Bytes, BytesIn
  <1>1. ASSUME NEW c \in Puts, put_check(c) PROVE CacheInv'
    <2>1. CASE Bytes(c) > MaxBytes \/ MessageOf[c] \in cached
      BY <1>1, <1>a, <2>1 DEF put_check
    <2>2. CASE ~(Bytes(c) > MaxBytes \/ MessageOf[c] \in cached)
      <3>1. Bytes(c) <= MaxBytes
        BY <1>t, <1>n, <2>2
      <3> QED BY <1>1, <1>a, <2>2, <3>1 DEF put_check
    <2> QED BY <2>1, <2>2
  <1>2. ASSUME NEW c \in Puts, put_lock(c) PROVE CacheInv'
    BY <1>2, <1>a DEF put_lock
  <1>3. ASSUME NEW c \in Puts, evict(c) PROVE CacheInv'
    <2> DEFINE h == Head(eviction)
    <2>1. /\ put[c] = "locked" /\ UNCHANGED put /\ eviction # <<>> /\ eviction' = Tail(eviction)
          /\ cached' = cached \ {h}
          /\ current_bytes' = current_bytes - IF h \in cached THEN Size[h] ELSE 0
      BY <1>3 DEF evict
    <2>2. {d \in Puts : put[d] = "added"} = {}
      BY <2>1
    <2>3. Counted = cached /\ Counted' = cached \ {h}
      BY <2>1, <2>2 DEF Counted
    <2>4. /\ h \in DOMAIN Size /\ eviction' \in Seq(DOMAIN Size)
          /\ \A x \in Range(eviction) : x = h \/ x \in Range(eviction')
      BY <2>1, OutOfLine
    <2> HIDE DEF h
    <2>5. Counted' \subseteq Range(eviction')
      BY <2>3, <2>4
    <2>6. /\ IsFiniteSet(BytesIn(cached \ {h})) /\ current_bytes' \in Int
          /\ Cardinality(BytesIn(cached \ {h})) <= current_bytes'
          /\ Cardinality(BytesIn(cached \ {h})) <= MaxBytes
      <3>1. CASE h \in cached
        <4>1. /\ IsFiniteSet(BytesIn(cached \ {h}))
              /\ Cardinality(BytesIn(cached \ {h})) = Cardinality(BytesIn(cached)) - Size[h]
          BY <2>3, <2>4, <3>1, BytesShrink
        <4>2. Size[h] \in Nat /\ current_bytes' = current_bytes - Size[h]
          BY <2>1, <2>4, <3>1, BytesOfOne
        <4> QED BY <1>n, <2>3, <4>1, <4>2
      <3>2. CASE h \notin cached
        <4>1. cached \ {h} = cached /\ current_bytes' = current_bytes
          BY <2>1, <3>2
        <4> QED BY <2>3, <4>1
      <3> QED BY <3>1, <3>2
    <2>7. BytesIn(Counted)' = BytesIn(cached \ {h})
      BY <2>3 DEF BytesIn
    <2> QED BY <2>1, <2>4, <2>5, <2>6, <2>7 DEF Bytes
  <1>4. ASSUME NEW c \in Puts, put_add(c) PROVE CacheInv'
    <2> DEFINE m == MessageOf[c]
    <2>1. /\ put[c] = "locked" /\ (NoRoom(c) => eviction = <<>>)
          /\ put' = [put EXCEPT ![c] = "added"] /\ current_bytes' = current_bytes + Bytes(c)
          /\ eviction' = Append(eviction, m) /\ UNCHANGED cached
      BY <1>4 DEF put_add
    <2>a. put[c] \in {"checked", "locked", "added"}
      BY <2>1
    <2>b. Bytes(c) <= MaxBytes
      BY <2>a
    <2>2. m \in DOMAIN Size /\ Bytes(c) \in Nat /\ Bytes(c) = Size[m] /\ Bytes(c) <= MaxBytes
      BY <1>t, <2>b DEF Bytes
    <2>3. /\ put' \in [Puts -> {"none", "checked", "locked", "added", "done"}]
          /\ \A d \in Puts : put'[d] = IF d = c THEN "added" ELSE put[d]
      BY <2>1
    <2>c. \A x, y \in Puts : {put[x], put[y]} \subseteq {"locked", "added"} => x = y
      OBVIOUS
    <2>d. \A d \in Puts : put[d] \in {"locked", "added"} => d = c
      BY <2>1, <2>c
    <2>4. {d \in Puts : put[d] = "added"} = {} /\ {d \in Puts : put'[d] = "added"} = {c}
      BY <2>1, <2>3, <2>d
    <2>5. Counted = cached /\ Counted' = cached \union {m}
      BY <2>1, <2>4 DEF Counted
    <2> HIDE DEF m
    <2>6. eviction' \in Seq(DOMAIN Size) /\ Range(eviction') = Range(eviction) \union {m}
      BY <2>1, <2>2, AppendRange, AppendProperties
    <2>7. /\ IsFiniteSet(BytesIn(cached \union {m}))
          /\ Cardinality(BytesIn(cached \union {m})) \in Nat
          /\ Cardinality(BytesIn(cached \union {m})) <= Cardinality(BytesIn(cached)) + Size[m]
      BY <2>2, <2>5, BytesGrow
    <2>8. current_bytes' \in Int /\ Cardinality(BytesIn(cached \union {m})) <= current_bytes'
      BY <1>n, <2>1, <2>2, <2>5, <2>7
    <2>9. Cardinality(BytesIn(cached \union {m})) <= MaxBytes
      <3>1. CASE NoRoom(c)
        <4>a. eviction = <<>> /\ cached \subseteq Range(eviction)
          BY <2>1, <2>5, <3>1
        <4>b. Range(eviction) = {}
          BY <4>a DEF Range
        <4>1. cached = {}
          BY <4>a, <4>b
        <4>2. Cardinality(BytesIn(cached)) = 0
          BY <4>1, FS_EmptySet DEF BytesIn
        <4> QED BY <1>n, <2>2, <2>7, <4>2
      <3>2. CASE ~NoRoom(c)
        BY <1>n, <2>2, <2>5, <2>7, <3>2 DEF NoRoom
      <3> QED BY <3>1, <3>2
    <2>10. BytesIn(Counted)' = BytesIn(cached \union {m})
      BY <2>5 DEF BytesIn
    <2>11. \A x, y \in Puts : {put'[x], put'[y]} \subseteq {"locked", "added"} => x = y
      BY <2>3, <2>d
    <2>12. \A d \in Puts : put'[d] \in {"checked", "locked", "added"} => Bytes(d)' <= MaxBytes
      <3>1. ASSUME NEW d \in Puts, put'[d] \in {"checked", "locked", "added"}
            PROVE  put[d] \in {"checked", "locked", "added"}
        BY <2>3, <2>a, <3>1
      <3> QED BY <3>1 DEF Bytes
    <2> QED BY <2>3, <2>5, <2>6, <2>7, <2>8, <2>9, <2>10, <2>11, <2>12
  <1>5. ASSUME NEW c \in Puts, put_insert(c) PROVE CacheInv'
    <2>1. /\ put[c] = "added" /\ put' = [put EXCEPT ![c] = "done"]
          /\ cached' = cached \union {MessageOf[c]} /\ UNCHANGED <<eviction, current_bytes>>
      BY <1>5 DEF put_insert
    <2>2. /\ put' \in [Puts -> {"none", "checked", "locked", "added", "done"}]
          /\ \A d \in Puts : put'[d] = IF d = c THEN "done" ELSE put[d]
      BY <2>1
    <2>3. {d \in Puts : put[d] = "added"} = {c} /\ {d \in Puts : put'[d] = "added"} = {}
      BY <2>1, <2>2
    <2>4. Counted' = Counted
      BY <2>1, <2>3 DEF Counted
    <2> QED BY <2>1, <2>2, <2>4 DEF Bytes, BytesIn
  <1>6. CASE UNCHANGED cacheVars
    BY <1>6 DEF cacheVars, Counted, Bytes, BytesIn
  <1> QED BY <1>1, <1>2, <1>3, <1>4, <1>5, <1>6 DEF CacheNext

(* However many downloads insert articles at the same time, the articles   *)
(* in memory stay within the limit, and each can be evicted; for articles  *)
(* of any sizes, any limit and any number of puts.                         *)
THEOREM CacheKeepsItsLimit == CacheSpec => []CacheStaysWithinLimit
  <1>1. CacheInit => CacheInv
    <2> SUFFICES ASSUME CacheInit PROVE CacheInv
      OBVIOUS
    <2>1. Counted = {} /\ BytesIn(Counted) = {}
      BY DEF CacheInit, Counted, BytesIn
    <2>2. eviction \in Seq(DOMAIN Size)
      BY DEF CacheInit
    <2>3. IsFiniteSet({}) /\ Cardinality({}) = 0 /\ MaxBytes \in Nat
      BY FS_EmptySet, CacheAssumption
    <2>4. put = [c \in Puts |-> "none"] /\ current_bytes = 0
      BY DEF CacheInit
    <2>5. Counted \subseteq Range(eviction) /\ IsFiniteSet(BytesIn(Counted))
      BY <2>1, <2>3
    <2>6. Cardinality(BytesIn(Counted)) = 0
      BY <2>1, <2>3
    <2>7. \A c \in Puts : put[c] = "none"
      BY <2>4
    <2>8. put \in [Puts -> {"none", "checked", "locked", "added", "done"}]
      BY <2>4
    <2> QED BY <2>2, <2>3, <2>4, <2>5, <2>6, <2>7, <2>8 DEF CacheInv
  <1>2. CacheInv => CacheStaysWithinLimit
    <2> SUFFICES ASSUME CacheInv PROVE CacheStaysWithinLimit
      OBVIOUS
    <2>1. cached \subseteq Counted /\ BytesIn(cached) \in SUBSET BytesIn(Counted)
      BY DEF Counted, BytesIn
    <2>2. IsFiniteSet(BytesIn(Counted))
      BY DEF CacheInv
    <2>3. /\ IsFiniteSet(BytesIn(cached))
          /\ Cardinality(BytesIn(cached)) <= Cardinality(BytesIn(Counted))
      BY <2>1, <2>2, FS_Subset
    <2>4. Cardinality(BytesIn(cached)) \in Nat /\ Cardinality(BytesIn(Counted)) \in Nat
      BY <2>2, <2>3, FS_CardinalityType
    <2> QED BY <2>1, <2>3, <2>4, CacheAssumption DEF CacheInv, CacheStaysWithinLimit
  <1> QED BY <1>1, <1>2, CacheStep, PTL DEF CacheSpec

-----------------------------------------------------------------------------
(* NntpConnection.                                                         *)

NntpSpec == NntpInit /\ [][NntpNext]_nntpVars

(* What the machine asks in a state and waits to be answered.              *)
VerbOf(state) ==
    CASE state = "AwaitStartTlsResponse" -> "STARTTLS" [] state = "AwaitCompressResponse" -> "COMPRESS"
      [] state = "AwaitAuthUser" -> "USER"             [] state = "AwaitAuthPass" -> "PASS"
      [] state = "AwaitStat" -> "STAT"                 [] state = "AwaitQuit" -> "QUIT"
      [] state = "AwaitGroup" -> "GROUP"               [] OTHER -> "none"

PlainStates ==
    {"AwaitGreeting", "AwaitStartTlsResponse", "AwaitCompressResponse", "AwaitAuthUser",
     "AwaitAuthPass", "AwaitStat", "AwaitQuit", "AwaitGroup"}
BodyStates == {"AwaitBodyResponse", "AwaitPipelinedBodyResponse"}

(* The remembered group and the compression are the server's ...           *)
GroupAgrees == machine.current_group \in {None, server.group}
DeflateAgrees == open => server.deflate = deflated

(* ... or will be, when the answer that is on its way has been read.       *)
AgreesAfter(code) ==
    IF machine.state \in {"AwaitGroup", "AwaitPipelinedGroupResponse"} /\ code = 211
    THEN server.group = machine.pending_group /\ DeflateAgrees
    ELSE /\ GroupAgrees
         /\ IF machine.state = "AwaitCompressResponse" /\ code = 206 THEN server.deflate = TRUE
            ELSE DeflateAgrees

AskGroup == Send("GROUP", nntp_call.group)
AskBody == Send("BODY", nntp_call.id)

(* A command that is not sent, one that the server has not answered, an    *)
(* answer that is not read, and one that will not come.                    *)
Unsent == to_client = <<>> /\ (open => to_server = <<>>) /\ GroupAgrees /\ DeflateAgrees

Asked(cmds) ==
    /\ to_client = <<>> /\ open /\ to_server = cmds
    /\ GroupAgrees /\ DeflateAgrees

Answered ==
    /\ Len(to_client) = 1 /\ torn = <<>> /\ (open => to_server = <<>>)
    /\ AgreesAfter(to_client[1].code)

Lost ==
    /\ ~open /\ to_client = <<>>
    /\ machine.state = "AwaitCompressResponse" => GroupAgrees

(* What came of a line of the article.                                     *)
Begun(text, line) ==
    \E k \in 1..(Len(Stuffed(line)) - 1) : text = SubSeq(Stuffed(line), 1, k)

TornIn(i) ==
    torn # <<>> =>
       /\ i \in 1..Len(Articles[nntp_call.id]) /\ Begun(torn, Articles[nntp_call.id][i])

(* The answer to BODY follows n lines of the socket; where the connection  *)
(* broke, a part of it.                                                    *)
BodyFollows(n) ==
    \/ /\ Len(to_client) = n /\ (open => to_server = <<AskBody>>)
    \/ /\ Len(to_client) = n + 1 /\ (open => to_server = <<>>)
       /\ to_client[n + 1].code # 222 /\ torn = <<>>
    \/ /\ Len(to_client) > n /\ to_client[n + 1].code = 222 /\ (open => to_server = <<>>)
       /\ Len(to_client) - n <= Len(Articles[nntp_call.id]) + 2
       /\ open => Len(to_client) - n = Len(Articles[nntp_call.id]) + 2
       /\ \A i \in (n + 2)..Len(to_client) :
             to_client[i] = BodyOf(nntp_call.id)[i - n - 1]
       /\ TornIn(Len(to_client) - n)

NntpPlain ==
    /\ machine.state \in PlainStates /\ driver = "machine"
    /\ machine.state = "AwaitGroup" => machine.pending_group = nntp_call.group
    /\ \/ \E cmd :
             /\ cmd.verb = VerbOf(machine.state) /\ machine.state # "AwaitGreeting"
             /\ cmd.kind = "SendCommand"
             /\ machine.state = "AwaitGroup" => cmd.arg = nntp_call.group
             /\ \/ machine.outputs = <<cmd, Prompt>> /\ Unsent
                \/ machine.outputs = <<Prompt>> /\ Asked(<<cmd>>)
       \/ machine.outputs = <<Prompt>> /\ (Answered \/ Lost)

NntpBody ==
    /\ machine.state \in BodyStates /\ driver \in {"body", "pipelined"}
    /\ nntp_call.id \in DOMAIN Articles
    /\ GroupAgrees /\ DeflateAgrees /\ lines = <<>>
    /\ \/ machine.outputs = <<AskBody, Prompt>> /\ Unsent
       \/ machine.outputs = <<Prompt>> /\ BodyFollows(0)
       \/ /\ machine.outputs = <<Event("GroupJoined"), Prompt>> /\ driver = "pipelined"
          /\ BodyFollows(0)

NntpPipelined ==
    /\ machine.state = "AwaitPipelinedGroupResponse" /\ driver = "pipelined"
    /\ nntp_call.id \in DOMAIN Articles
    /\ machine.pending_group = nntp_call.group /\ lines = <<>>
    /\ \/ machine.outputs = <<AskGroup, AskBody, Prompt>> /\ Unsent
       \/ machine.outputs = <<AskBody, Prompt>> /\ (Asked(<<AskGroup>>) \/ Answered \/ Lost)
       \/ /\ machine.outputs = <<Prompt>>
          /\ \/ Asked(<<AskGroup, AskBody>>) \/ Lost
             \/ to_client # <<>> /\ AgreesAfter(to_client[1].code) /\ BodyFollows(1)

NntpReading ==
    /\ machine.state = "ReadingBody" /\ nntp_call.id \in DOMAIN Articles
    /\ GroupAgrees /\ DeflateAgrees
    /\ \/ driver \in {"body", "pipelined"} /\ machine.outputs = <<BodyPrompt>>
       \/ driver = "reading" /\ machine.outputs = <<>>
    /\ Len(lines) <= Len(Articles[nntp_call.id])
    /\ \A i \in 1..Len(lines) : lines[i] = Articles[nntp_call.id][i]
    /\ Len(lines) + Len(to_client) <= Len(Articles[nntp_call.id]) + 1
    /\ open => to_server = <<>> /\ Len(lines) + Len(to_client) = Len(Articles[nntp_call.id]) + 1
    /\ \A i \in 1..Len(to_client) : to_client[i] = BodyOf(nntp_call.id)[i + Len(lines)]
    /\ TornIn(Len(lines) + Len(to_client) + 1)

(* A line was handed over that had broken off: nothing comes after it.     *)
NntpCut ==
    /\ machine.state = "ReadingBody" /\ driver = "reading" /\ machine.outputs = <<>>
    /\ ~open /\ to_client = <<>> /\ torn = <<>>

NntpIdle ==
    /\ machine.state = "Idle" /\ to_client = <<>> /\ torn = <<>>
    /\ (open => to_server = <<>>) /\ GroupAgrees
    /\ \/ machine.outputs = <<>> /\ DeflateAgrees
       \/ Driving /\ DeflateAgrees /\ \E e : machine.outputs = <<Event(e)>>
       \/ /\ driver = "machine" /\ server.deflate = TRUE
          /\ machine.outputs = <<[kind |-> "UpgradeToDeflate"], Event("CompressActive")>>

NntpUpgrading ==
    /\ machine.state = "AwaitStartTlsGreeting" /\ driver = "machine"
    /\ machine.outputs = <<[kind |-> "UpgradeToTls"], Prompt>> /\ (open => to_server = <<>>)

(* Nothing is asked of the connection any more.                            *)
NntpOver ==
    \/ machine.state = "Done" \/ driver = "dropped"
    \/ driver = "failed" /\ machine.state # "Idle"

NntpLive ==
    /\ IsSequence(to_client) /\ IsSequence(lines)
    /\ \/ NntpIdle \/ NntpPlain \/ NntpBody \/ NntpPipelined \/ NntpReading \/ NntpCut
       \/ NntpUpgrading

IsMachine(m) ==
    DOMAIN m = {"state", "outputs", "current_group", "pending_group", "pending_password",
                "authenticated"}

NntpShape ==
    /\ IsMachine(machine) /\ DOMAIN server = {"group", "auth", "deflate"}
    /\ open => torn = <<>>

NntpInv == NntpShape /\ BodyIsTheArticle /\ (NntpOver \/ NntpLive)
-----------------------------------------------------------------------------
LEMMA Kinds ==
    /\ Prompt.kind = "NeedResponseLine" /\ BodyPrompt.kind = "NeedBodyLine"
    /\ \A v, x : Send(v, x).kind = "SendCommand" /\ Send(v, x).verb = v /\ Send(v, x).arg = x
    /\ \A e : Event(e).kind = "Event" /\ Event(e).event = e
    /\ [kind |-> "UpgradeToTls"].kind = "UpgradeToTls"
    /\ [kind |-> "UpgradeToDeflate"].kind = "UpgradeToDeflate"
  BY DEF Prompt, BodyPrompt, Send, Event

-----------------------------------------------------------------------------
(* What the outputs say of the state.                                      *)
LEMMA NextOutput ==
    ASSUME NntpLive, ~NntpOver
    PROVE  /\ Output("SendCommand") => NntpPlain \/ NntpBody \/ NntpPipelined
           /\ Output("NeedResponseLine") => NntpPlain \/ NntpBody \/ NntpPipelined
           /\ Output("Event") => NntpIdle \/ NntpBody
           /\ Output("NeedBodyLine") => NntpReading
           /\ Output("UpgradeToTls") => NntpUpgrading
           /\ Output("UpgradeToDeflate") => NntpIdle
           /\ Driving /\ machine.outputs = <<>> => NntpIdle
           /\ driver = "reading" => NntpReading \/ NntpIdle \/ NntpCut
           /\ driver \in {"ready", "failed"} => NntpIdle /\ machine.outputs = <<>> /\ DeflateAgrees
  <1>a. ASSUME NEW K, machine.outputs # <<>>, Head(machine.outputs).kind \in K
        PROVE  \A k : Output(k) => k \in K
    BY <1>a DEF Output
  <1>1. CASE NntpPlain
    <2>1. machine.outputs # <<>> /\ Head(machine.outputs).kind \in {"SendCommand", "NeedResponseLine"}
      <3>1. CASE machine.outputs = <<Prompt>>
        BY <3>1, Tuples, Kinds
      <3>2. CASE \E cmd : cmd.kind = "SendCommand" /\ machine.outputs = <<cmd, Prompt>>
        BY <3>2, Tuples
      <3> QED BY <1>1, <3>1, <3>2 DEF NntpPlain
    <2>2. \A k : Output(k) => k \in {"SendCommand", "NeedResponseLine"}
      BY <2>1, <1>a
    <2>3. driver = "machine"
      BY <1>1 DEF NntpPlain
    <2> QED BY <1>1, <2>1, <2>2, <2>3
  <1>2. CASE NntpBody
    <2>1. /\ machine.outputs # <<>>
          /\ Head(machine.outputs).kind \in {"SendCommand", "NeedResponseLine", "Event"}
      <3>1. CASE machine.outputs = <<AskBody, Prompt>>
        BY <3>1, Tuples, Kinds DEF AskBody
      <3>2. CASE machine.outputs = <<Prompt>>
        BY <3>2, Tuples, Kinds
      <3>3. CASE machine.outputs = <<Event("GroupJoined"), Prompt>>
        BY <3>3, Tuples, Kinds
      <3> QED BY <1>2, <3>1, <3>2, <3>3 DEF NntpBody
    <2>2. \A k : Output(k) => k \in {"SendCommand", "NeedResponseLine", "Event"}
      BY <2>1, <1>a
    <2>3. driver \in {"body", "pipelined"}
      BY <1>2 DEF NntpBody
    <2> QED BY <1>2, <2>1, <2>2, <2>3
  <1>3. CASE NntpPipelined
    <2>1. machine.outputs # <<>> /\ Head(machine.outputs).kind \in {"SendCommand", "NeedResponseLine"}
      BY <1>3, Tuples, Kinds DEF NntpPipelined, AskBody, AskGroup
    <2>2. \A k : Output(k) => k \in {"SendCommand", "NeedResponseLine"}
      BY <2>1, <1>a
    <2>3. driver = "pipelined"
      BY <1>3 DEF NntpPipelined
    <2> QED BY <1>3, <2>1, <2>2, <2>3
  <1>4. CASE NntpReading
    <2>1. CASE driver = "reading"
      BY <1>4, <2>1 DEF Output, Driving
    <2>2. CASE driver # "reading"
      <3>1. machine.outputs = <<BodyPrompt>> /\ driver \in {"body", "pipelined"}
        BY <1>4, <2>2 DEF NntpReading
      <3>3. machine.outputs # <<>> /\ Head(machine.outputs).kind \in {"NeedBodyLine"}
        BY <3>1, Tuples, Kinds
      <3>2. \A k : Output(k) => k \in {"NeedBodyLine"}
        BY <3>3, <1>a
      <3> QED BY <1>4, <3>1, <3>2, <3>3
    <2> QED BY <2>1, <2>2
  <1>5. CASE NntpIdle
    <2>1. CASE machine.outputs = <<>>
      BY <1>5, <2>1 DEF NntpIdle, Output, Driving
    <2>2. CASE machine.outputs # <<>>
      <3>1. Driving /\ Head(machine.outputs).kind \in {"Event", "UpgradeToDeflate"}
        BY <1>5, <2>2, Tuples, Kinds DEF NntpIdle, Driving
      <3>2. \A k : Output(k) => k \in {"Event", "UpgradeToDeflate"}
        BY <2>2, <3>1, <1>a
      <3> QED BY <1>5, <2>2, <3>1, <3>2 DEF Driving
    <2> QED BY <2>1, <2>2
  <1>6. CASE NntpUpgrading
    BY <1>6, Tuples, Kinds DEF NntpUpgrading, Output, Driving
  <1>7. CASE NntpCut
    BY <1>7 DEF NntpCut, Output, Driving
  <1> QED BY <1>1, <1>2, <1>3, <1>4, <1>5, <1>6, <1>7 DEF NntpLive

(* A machine that takes an output, and one that puts some out.             *)
LEMMA PoppedFields ==
    ASSUME IsMachine(machine)
    PROVE  /\ IsMachine(Popped) /\ Popped.outputs = Tail(machine.outputs)
           /\ Popped.state = machine.state /\ Popped.current_group = machine.current_group
           /\ Popped.pending_group = machine.pending_group
           /\ Popped.pending_password = machine.pending_password
  BY DEF IsMachine, Popped

LEMMA EmitFields ==
    ASSUME NEW m, IsMachine(m), m.outputs = <<>>, NEW st, NEW outs, IsSequence(outs)
    PROVE  LET e == Emit(m, outs, st)
           IN  /\ IsMachine(e) /\ e.outputs = outs /\ e.state = st
               /\ e.current_group = m.current_group /\ e.pending_group = m.pending_group
               /\ e.pending_password = m.pending_password
  <1>1. <<>> \o outs = outs
    BY EmptyBefore
  <1> QED BY <1>1 DEF IsMachine, Emit

LEMMA AskFields ==
    ASSUME NEW m, IsMachine(m), m.outputs = <<>>, NEW st, NEW outs, IsSequence(outs)
    PROVE  LET e == Ask(m, outs, st)
           IN  /\ IsMachine(e) /\ e.outputs = outs \o <<Prompt>> /\ e.state = st
               /\ e.current_group = m.current_group /\ e.pending_group = m.pending_group
  <1>1. <<>> \o outs = outs
    BY EmptyBefore
  <1> QED BY <1>1 DEF IsMachine, Ask

LEMMA AskTwo ==
    ASSUME NEW m, IsMachine(m), m.outputs = <<>>, NEW st, NEW x, NEW y
    PROVE  LET e == Ask(m, <<x, y>>, st)
           IN  /\ IsMachine(e) /\ e.outputs = <<x, y, Prompt>> /\ e.state = st
               /\ e.current_group = m.current_group /\ e.pending_group = m.pending_group
  <1> DEFINE two == <<x, y>>
  <1>1. IsSequence(two) /\ two \o <<Prompt>> = <<x, y, Prompt>>
    BY ConcatTuples, TupleSequences
  <1> HIDE DEF two
  <1>2. LET e == Ask(m, two, st)
        IN  /\ IsMachine(e) /\ e.outputs = two \o <<Prompt>> /\ e.state = st
            /\ e.current_group = m.current_group /\ e.pending_group = m.pending_group
    BY <1>1, AskFields
  <1> QED BY <1>1, <1>2 DEF two

LEMMA AskOne ==
    ASSUME NEW m, IsMachine(m), m.outputs = <<>>, NEW st, NEW x
    PROVE  LET e == Ask(m, <<x>>, st)
           IN  /\ IsMachine(e) /\ e.outputs = <<x, Prompt>> /\ e.state = st
               /\ e.current_group = m.current_group /\ e.pending_group = m.pending_group
  <1> DEFINE one == <<x>>
  <1>1. IsSequence(one) /\ one \o <<Prompt>> = <<x, Prompt>>
    BY ConcatTuples, TupleSequences
  <1> HIDE DEF one
  <1>2. LET e == Ask(m, one, st)
        IN  /\ IsMachine(e) /\ e.outputs = one \o <<Prompt>> /\ e.state = st
            /\ e.current_group = m.current_group /\ e.pending_group = m.pending_group
    BY <1>1, AskFields
  <1> QED BY <1>1, <1>2 DEF one

LEMMA EmitTwo ==
    ASSUME NEW m, IsMachine(m), m.outputs = <<>>, NEW st, NEW x, NEW y
    PROVE  LET e == Emit(m, <<x, y>>, st)
           IN  /\ IsMachine(e) /\ e.outputs = <<x, y>> /\ e.state = st
               /\ e.current_group = m.current_group /\ e.pending_group = m.pending_group
  <1> DEFINE two == <<x, y>>
  <1>1. IsSequence(two)
    BY TupleSequences
  <1> HIDE DEF two
  <1>2. LET e == Emit(m, two, st)
        IN  /\ IsMachine(e) /\ e.outputs = two /\ e.state = st
            /\ e.current_group = m.current_group /\ e.pending_group = m.pending_group
    BY <1>1, EmitFields
  <1> QED BY <1>2 DEF two

(* The machine waits for a response line: nothing comes before it.         *)
LEMMA PromptFirst ==
    ASSUME NEW outs, Head(outs).kind = "NeedResponseLine"
    PROVE  /\ \A x, y : outs = <<x, y>> => x.kind = "NeedResponseLine"
           /\ \A x, y, z : outs = <<x, y, z>> => x.kind = "NeedResponseLine"
  BY Tuples

(* Only read_line can end a call with a body.                              *)
LEMMA BodyKept ==
    ASSUME BodyIsTheArticle, [NntpNext]_nntpVars, ~read_line
    PROVE  BodyIsTheArticle'
  <1> USE NntpAssumption
  <1>o. ~open => ~open'
    BY DEF NntpNext, nntpVars, Calls, Call, starttls, compress, authenticate, quit, join_group, stat,
           fetch_body, fetch_body_pipelined, send_raw, read_response_line, drive_event,
           do_tls_upgrade, do_deflate_upgrade, read_line_eof, Dropped, GoOn, ServerAnswers,
           ServerCloses, Return, NntpStep
  <1>a. ASSUME UNCHANGED <<driver, nntp_call, lines>> PROVE BodyIsTheArticle'
    BY <1>a, <1>o DEF BodyIsTheArticle, CutAtDot
  <1>b. ASSUME driver' # "ready" PROVE BodyIsTheArticle'
    BY <1>b DEF BodyIsTheArticle
  <1>c. ASSUME nntp_call' = NoCall PROVE BodyIsTheArticle'
    BY <1>c DEF BodyIsTheArticle, NoCall
  <1>d. ASSUME NEW m, NEW to, Return(m, to) PROVE BodyIsTheArticle'
    BY <1>b, <1>c, <1>d DEF Return
  <1>1. CASE Calls
    BY <1>1, <1>b DEF Calls, Call, starttls, compress, authenticate, quit, join_group, stat,
                      fetch_body, fetch_body_pipelined
  <1>2. CASE send_raw
    BY <1>2, <1>a, <1>d DEF send_raw, NntpStep
  <1>3. CASE read_response_line
    BY <1>3, <1>a, <1>d DEF read_response_line, NntpStep
  <1>4. CASE drive_event
    BY <1>4, <1>d DEF drive_event
  <1>5. CASE do_tls_upgrade
    BY <1>5, <1>d DEF do_tls_upgrade
  <1>6. CASE do_deflate_upgrade
    BY <1>6, <1>a DEF do_deflate_upgrade, NntpStep
  <1>7. CASE read_line_eof
    BY <1>7, <1>d DEF read_line_eof
  <1>8. CASE Dropped
    BY <1>8, <1>c DEF Dropped
  <1>9. CASE GoOn
    BY <1>9, <1>d DEF GoOn
  <1>10. CASE ServerAnswers \/ ServerCloses \/ UNCHANGED nntpVars
    BY <1>10, <1>a DEF ServerAnswers, ServerCloses, nntpVars
  <1> QED BY <1>1, <1>2, <1>3, <1>4, <1>5, <1>6, <1>7, <1>8, <1>9, <1>10 DEF NntpNext

(* What is over stays so.                                                  *)
LEMMA OverStays ==
    ASSUME NntpOver, [NntpNext]_nntpVars, IsMachine(machine)
    PROVE  NntpOver'
  <1>1. CASE Calls
    BY <1>1 DEF NntpOver, Calls, Call, starttls, compress, authenticate, quit, join_group, stat,
                fetch_body, fetch_body_pipelined
  <1>2. CASE send_raw \/ drive_event \/ do_tls_upgrade \/ do_deflate_upgrade
    <2>1. Driving /\ (machine' = Popped \/ machine' = machine)
      BY <1>2 DEF send_raw, drive_event, do_tls_upgrade, do_deflate_upgrade, Return, NntpStep,
                  Output
    <2>2. machine.state = "Done" /\ machine'.state = "Done"
      BY <2>1, PoppedFields DEF NntpOver, Driving
    <2> QED BY <2>2 DEF NntpOver
  <1>3. CASE read_response_line
    <2>1. machine.state = "Done"
      BY <1>3 DEF NntpOver, read_response_line, Output, Driving
    <2>2. machine' = Popped \/ \E c : machine' = Response(Popped, c)
      BY <1>3 DEF read_response_line, Return, NntpStep
    <2>3. Popped.state = "Done"
      BY <2>1, PoppedFields
    <2>4. \A c : Response(Popped, c) = Popped
      BY <2>3 DEF Response
    <2> QED BY <2>2, <2>3, <2>4 DEF NntpOver
  <1>4. CASE read_line \/ read_line_eof
    BY <1>4 DEF NntpOver, read_line, read_line_eof, Return, NntpStep, IsMachine
  <1>5. CASE Dropped \/ GoOn
    BY <1>5 DEF NntpOver, Dropped, GoOn, Return, NntpStep
  <1>6. CASE ServerAnswers \/ ServerCloses \/ UNCHANGED nntpVars
    BY <1>6 DEF NntpOver, ServerAnswers, ServerCloses, nntpVars
  <1> QED BY <1>1, <1>2, <1>3, <1>4, <1>5, <1>6 DEF NntpNext

LEMMA ShapeKept ==
    ASSUME NntpShape, [NntpNext]_nntpVars
    PROVE  NntpShape'
  <1>o. open' => torn' = <<>>
    <2>1. \/ open' = open /\ torn' \in {torn, <<>>}
          \/ open' = FALSE
      BY DEF NntpNext, nntpVars, Calls, Call, starttls, compress, authenticate, quit, join_group, stat,
             fetch_body, fetch_body_pipelined, send_raw, read_response_line, drive_event,
             do_tls_upgrade, do_deflate_upgrade, read_line, read_line_eof, Dropped, GoOn,
             ServerAnswers, ServerCloses, Return, NntpStep
    <2> QED BY <2>1 DEF NntpShape
  <1> SUFFICES IsMachine(machine)' /\ DOMAIN server' = {"group", "auth", "deflate"}
    BY <1>o DEF NntpShape
  <1> USE DEF NntpShape
  <1>p. IsMachine(Popped)
    BY PoppedFields
  <1>a. ASSUME NEW m, IsMachine(m), NEW outs, NEW st
        PROVE  IsMachine(Emit(m, outs, st)) /\ IsMachine(Ask(m, outs, st))
    BY <1>a DEF IsMachine, Emit, Ask
  <1>b. ASSUME NEW m, IsMachine(m), NEW g, NEW b
        PROVE  /\ IsMachine([m EXCEPT !.pending_group = g]) /\ IsMachine([m EXCEPT !.outputs = g])
               /\ IsMachine([m EXCEPT !.state = g])
               /\ IsMachine([m EXCEPT !.current_group = g, !.pending_group = b])
               /\ IsMachine([m EXCEPT !.pending_password = b])
               /\ IsMachine([m EXCEPT !.authenticated = g, !.pending_password = b])
    BY <1>b DEF IsMachine
  <1>1. CASE Calls
    <2>1. \A id : /\ IsMachine(request_starttls(machine)) /\ IsMachine(request_compress(machine))
                  /\ IsMachine(request_quit(machine)) /\ IsMachine(request_stat(machine, id))
                  /\ IsMachine(request_body(machine, id))
      BY <1>a DEF request_starttls, request_compress, request_quit, request_stat, request_body
    <2>2. IsMachine(request_auth(machine))
      BY <1>a, <1>b DEF request_auth
    <2>3. ASSUME NEW g, NEW id
          PROVE  IsMachine(request_group(machine, g)) /\ IsMachine(request_group_body(machine, g, id))
      <3>1. IsMachine(request_group(machine, g))
        BY <1>a, <1>b DEF request_group
      <3>2. IsMachine(request_group_body(machine, g, id))
        BY <1>a, <1>b, <2>1 DEF request_group_body
      <3> QED BY <3>1, <3>2
    <2>4. UNCHANGED server
      BY <1>1 DEF Calls, Call, starttls, compress, authenticate, quit, join_group, stat,
            fetch_body, fetch_body_pipelined
    <2>5. IsMachine(machine')
      BY <1>1, <2>1, <2>2, <2>3 DEF Calls, Call, starttls, compress, authenticate, quit, join_group,
            stat, fetch_body, fetch_body_pipelined
    <2> QED BY <2>4, <2>5 DEF IsMachine
  <1>2. CASE send_raw \/ drive_event \/ do_tls_upgrade \/ do_deflate_upgrade \/ GoOn
    <2>1. (machine' = Popped \/ machine' = machine) /\ UNCHANGED server
      BY <1>2 DEF send_raw, drive_event, do_tls_upgrade, do_deflate_upgrade, GoOn, Return, NntpStep
    <2> QED BY <1>p, <2>1 DEF IsMachine
  <1>3. CASE read_response_line
    <2>1. UNCHANGED server /\ (machine' = Popped \/ \E c : machine' = Response(Popped, c))
      BY <1>3 DEF read_response_line, Return, NntpStep
    <2>2. ASSUME NEW c, NEW m, IsMachine(m) PROVE IsMachine(Response(m, c))
      <3> USE DEF Quit, Refuse, Authenticated, Joined
      <3>1. IsMachine(OnGreeting(m, c)) /\ IsMachine(OnAuthPass(m, c)) /\ IsMachine(OnStat(m, c))
        BY <2>2, <1>a, <1>b DEF OnGreeting, OnAuthPass, OnStat
      <3>2. IsMachine(OnAuthUser(m, c))
        BY <2>2, <1>a, <1>b DEF OnAuthUser
      <3>3. IsMachine(OnGroup(m, c)) /\ IsMachine(OnPipelinedGroup(m, c))
        <4>1. IsMachine(Joined(m)) /\ IsMachine([m EXCEPT !.pending_group = None])
          BY <2>2 DEF IsMachine
        <4> HIDE DEF Joined
        <4>2. IsMachine(OnGroup(m, c))
          BY <4>1, <1>a DEF OnGroup
        <4>3. IsMachine(OnPipelinedGroup(m, c))
          BY <4>1, <1>a DEF OnPipelinedGroup
        <4> QED BY <4>2, <4>3
      <3>4. IsMachine(OnBodyResponse(m, c)) /\ IsMachine(OnStartTls(m, c)) /\ IsMachine(OnCompress(m, c))
        BY <2>2, <1>a, <1>b DEF OnBodyResponse, OnStartTls, OnCompress
      <3> QED BY <2>2, <3>1, <3>2, <3>3, <3>4, <1>a DEF Response
    <2>3. IsMachine(machine')
      BY <1>p, <2>1, <2>2
    <2> QED BY <2>1, <2>3 DEF IsMachine
  <1>4. CASE read_line \/ read_line_eof
    <2>1. /\ machine' = machine \/ \E st : machine' = [machine EXCEPT !.state = st]
          /\ UNCHANGED server
      BY <1>4 DEF read_line, BodyLine, read_line_eof, Return, NntpStep
    <2> QED BY <2>1 DEF IsMachine
  <1>5. CASE ServerAnswers
    <2>1. UNCHANGED machine
      BY <1>5 DEF ServerAnswers
    <2>2. DOMAIN server' = DOMAIN server
      BY ZenonT(60), <1>5 DEF ServerAnswers
    <2> QED BY <2>1, <2>2 DEF IsMachine
  <1>6. CASE Dropped \/ ServerCloses \/ UNCHANGED nntpVars
    BY <1>6 DEF Dropped, ServerCloses, nntpVars, IsMachine
  <1> QED BY <1>1, <1>2, <1>3, <1>4, <1>5, <1>6 DEF NntpNext

-----------------------------------------------------------------------------
(* The steps of a connection in use.                                       *)
LEMMA CallStep ==
    ASSUME NntpShape, NntpLive, ~NntpOver, Calls
    PROVE  NntpLive'
  <1>1. /\ NntpIdle /\ driver = "ready" /\ machine.outputs = <<>> /\ DeflateAgrees
        /\ IsMachine(machine)
    BY NextOutput DEF NntpShape, Calls, Call, starttls, compress, authenticate, quit, join_group,
                      stat, fetch_body, fetch_body_pipelined
  <1>2. /\ UNCHANGED <<to_server, to_client, open, torn, deflated, server>> /\ lines' = <<>>
        /\ machine.state = "Idle"
    BY DEF Calls, Call, starttls, compress, authenticate, quit, join_group,
           stat, fetch_body, fetch_body_pipelined
  <1>3. IsSequence(to_client)' /\ IsSequence(lines)'
    BY <1>2, TupleSequences DEF NntpLive, IsSequence
  <1>4. ASSUME machine'.current_group = machine.current_group
        PROVE  Unsent' /\ GroupAgrees' /\ DeflateAgrees'
    BY <1>1, <1>2, <1>4 DEF NntpIdle, Unsent, GroupAgrees, DeflateAgrees
  <1>5. ASSUME NEW v, NEW x, NEW st \in PlainStates, st # "AwaitGreeting", VerbOf(st) = v,
               NEW m, IsMachine(m), m.outputs = <<>>, m.current_group = machine.current_group,
               machine' = Ask(m, <<Send(v, x)>>, st), driver' = "machine",
               st = "AwaitGroup" => m.pending_group = nntp_call'.group /\ x = nntp_call'.group
        PROVE  NntpLive'
    <2>1. /\ machine'.outputs = <<Send(v, x), Prompt>> /\ machine'.state = st
          /\ machine'.current_group = m.current_group /\ machine'.pending_group = m.pending_group
      BY <1>5, AskFields, ConcatTuples, TupleSequences
    <2>2. Unsent'
      BY <2>1, <1>4, <1>5
    <2>3. NntpPlain'
      BY <2>1, <2>2, <1>5, Kinds DEF NntpPlain
    <2> QED BY <1>3, <2>3 DEF NntpLive
  <1>6. CASE starttls
    BY <1>6, <1>1, <1>5 DEF starttls, Call, request_starttls, PlainStates, VerbOf
  <1>7. CASE compress
    BY <1>7, <1>1, <1>5 DEF compress, Call, request_compress, PlainStates, VerbOf
  <1>8. CASE authenticate
    <2> PICK m : m = [machine EXCEPT !.pending_password = TRUE]
      OBVIOUS
    <2>1. IsMachine(m) /\ m.outputs = <<>> /\ m.current_group = machine.current_group
      BY <1>1 DEF IsMachine
    <2> QED BY <2>1, <1>8, <1>1, <1>5 DEF authenticate, Call, request_auth, PlainStates, VerbOf
  <1>9. CASE quit
    BY <1>9, <1>1, <1>5 DEF quit, Call, request_quit, PlainStates, VerbOf
  <1>10. ASSUME NEW id \in DOMAIN Articles, stat(id) PROVE NntpLive'
    BY <1>10, <1>1, <1>5 DEF stat, Call, request_stat, PlainStates, VerbOf
  <1>11. ASSUME NEW g \in Groups, join_group(g) PROVE NntpLive'
    <2>1. driver' = "machine" /\ nntp_call'.group = g /\ machine' = request_group(machine, g)
      BY <1>11 DEF join_group, Call
    <2>2. CASE machine.current_group = g
      <3>1. machine' = [machine EXCEPT !.outputs = <<Event("GroupJoined")>>]
        BY <1>1, <2>1, <2>2 DEF request_group
      <3>2. /\ machine'.outputs = <<Event("GroupJoined")>> /\ machine'.state = "Idle"
            /\ machine'.current_group = machine.current_group
        BY <1>1, <1>2, <3>1 DEF IsMachine
      <3>3. NntpIdle'
        BY <1>1, <1>2, <1>4, <2>1, <3>2 DEF NntpIdle, Unsent, Driving
      <3> QED BY <1>3, <3>3 DEF NntpLive
    <2>3. CASE machine.current_group # g
      <3> PICK m : m = [machine EXCEPT !.pending_group = g]
        OBVIOUS
      <3>1. /\ IsMachine(m) /\ m.outputs = <<>> /\ m.current_group = machine.current_group
            /\ m.pending_group = g
        BY <1>1 DEF IsMachine
      <3>2. machine' = Ask(m, <<Send("GROUP", g)>>, "AwaitGroup")
        BY <2>1, <2>3 DEF request_group
      <3> QED BY <2>1, <3>1, <3>2, <1>5 DEF PlainStates, VerbOf
    <2> QED BY <2>2, <2>3
  <1>12. ASSUME NEW id \in DOMAIN Articles, nntp_call'.id = id, driver' \in {"body", "pipelined"},
                machine' = request_body(machine, id)
         PROVE  NntpLive'
    <2>1. /\ machine'.outputs = <<Send("BODY", id), Prompt>> /\ machine'.state = "AwaitBodyResponse"
          /\ machine'.current_group = machine.current_group
      BY SMTT(30), <1>12, <1>1, AskFields, ConcatTuples, TupleSequences DEF request_body
    <2>2. NntpBody'
      BY <2>1, <1>4, <1>2, <1>12 DEF NntpBody, BodyStates, AskBody
    <2> QED BY <1>3, <2>2 DEF NntpLive
  <1>13. ASSUME NEW id \in DOMAIN Articles, fetch_body(id) PROVE NntpLive'
    BY <1>13, <1>12 DEF fetch_body, Call
  <1>14. ASSUME NEW m, IsMachine(m), m.outputs = <<>>, NEW st, NEW x, NEW y,
                machine' = Ask(m, <<x, y>>, st)
         PROVE  /\ machine'.outputs = <<x, y, Prompt>> /\ machine'.state = st
                /\ machine'.current_group = m.current_group
                /\ machine'.pending_group = m.pending_group
    BY <1>14, AskTwo
  <1>15. ASSUME NEW g \in Groups, NEW id \in DOMAIN Articles, fetch_body_pipelined(g, id)
         PROVE  NntpLive'
    <2>1. /\ driver' = "pipelined" /\ nntp_call'.group = g /\ nntp_call'.id = id
          /\ machine' = request_group_body(machine, g, id)
      BY <1>15 DEF fetch_body_pipelined, Call
    <2>2. CASE machine.current_group = g
      BY <2>1, <2>2, <1>12 DEF request_group_body
    <2>3. CASE machine.current_group # g
      <3> PICK m : m = [machine EXCEPT !.pending_group = g]
        OBVIOUS
      <3>1. /\ IsMachine(m) /\ m.outputs = <<>> /\ m.current_group = machine.current_group
            /\ m.pending_group = g
        BY <1>1 DEF IsMachine
      <3>2. machine' = Ask(m, <<Send("GROUP", g), Send("BODY", id)>>, "AwaitPipelinedGroupResponse")
        BY <2>1, <2>3 DEF request_group_body
      <3>3. /\ machine'.outputs = <<Send("GROUP", g), Send("BODY", id), Prompt>>
            /\ machine'.state = "AwaitPipelinedGroupResponse"
            /\ machine'.current_group = machine.current_group /\ machine'.pending_group = g
        BY ZenonT(60), <3>1, <3>2, <1>14
      <3>4. NntpPipelined'
        BY <1>2, <1>4, <2>1, <3>3 DEF NntpPipelined, AskGroup, AskBody
      <3> QED BY <1>3, <3>4 DEF NntpLive
    <2> QED BY <2>2, <2>3
  <1> QED BY <1>6, <1>7, <1>8, <1>9, <1>10, <1>11, <1>13, <1>15 DEF Calls

LEMMA SendStep ==
    ASSUME NntpShape, NntpLive, ~NntpOver, send_raw
    PROVE  NntpLive' \/ NntpOver'
  <1>1. Output("SendCommand") /\ machine.outputs # <<>> /\ Head(machine.outputs).kind = "SendCommand"
    BY DEF send_raw, Output
  <1>2. CASE ~open /\ Return(Popped, "failed")
    <2>1. driver' = "failed" /\ machine'.state = machine.state
      BY <1>2, PoppedFields DEF Return, NntpStep, NntpShape
    <2>2. machine.state # "Idle"
      BY <1>1, NextOutput DEF NntpPlain, PlainStates, NntpBody, BodyStates, NntpPipelined
    <2> QED BY <2>1, <2>2 DEF NntpOver
  <1>3. CASE to_server' = Append(to_server, Head(machine.outputs)) /\ NntpStep(Popped)
             /\ UNCHANGED <<driver, nntp_call, to_client, torn, deflated>>
    <2>1. /\ machine'.outputs = Tail(machine.outputs) /\ machine'.state = machine.state
          /\ machine'.current_group = machine.current_group
          /\ machine'.pending_group = machine.pending_group
          /\ UNCHANGED <<lines, open, server>>
      BY <1>3, PoppedFields DEF NntpStep, NntpShape
    <2>2. IsSequence(to_client)' /\ IsSequence(lines)'
      BY <1>3, <2>1 DEF NntpLive, IsSequence
    <2>3. ASSUME NEW cmd, Unsent, to_server' = Append(to_server, cmd)
          PROVE  Asked(<<cmd>>)' \/ Lost'
      <3>1. Append(<<>>, cmd) = <<cmd>>
        OBVIOUS
      <3> QED BY <1>3, <2>1, <2>3, <3>1 DEF Unsent, Asked, Lost, GroupAgrees, DeflateAgrees
    <2>4. CASE NntpPlain
      <3>1. PICK cmd : /\ cmd.verb = VerbOf(machine.state) /\ machine.state # "AwaitGreeting"
                       /\ cmd.kind = "SendCommand"
                       /\ machine.state = "AwaitGroup" => cmd.arg = nntp_call.group
                       /\ machine.outputs = <<cmd, Prompt>> /\ Unsent
        <4>1. machine.outputs # <<Prompt>>
          BY <1>1, Tuples, Kinds
        <4> QED BY <2>4, <4>1 DEF NntpPlain
      <3>2. Asked(<<cmd>>)' \/ Lost'
        BY <1>3, <2>3, <3>1, Tuples
      <3>3. machine'.outputs = <<Prompt>>
        BY <2>1, <3>1, Tuples
      <3>4. NntpPlain'
        BY <1>3, <2>1, <2>4, <3>1, <3>2, <3>3 DEF NntpPlain
      <3> QED BY <2>2, <3>4 DEF NntpLive
    <2>5. CASE NntpBody
      <3>1. machine.outputs = <<AskBody, Prompt>> /\ Unsent
        BY <1>1, <2>5, Tuples, Kinds DEF NntpBody
      <3>6. to_server' = Append(to_server, AskBody)
        BY <1>3, <3>1, Tuples
      <3>2. Asked(<<AskBody>>)' \/ Lost'
        <4> PICK cmd : cmd = AskBody
          OBVIOUS
        <4>1. Asked(<<cmd>>)' \/ Lost'
          BY <2>3, <3>1, <3>6
        <4>2. AskBody' = AskBody
          BY <1>3 DEF AskBody
        <4> QED BY <1>3, <4>1, <4>2 DEF Asked
      <3>3. machine'.outputs = <<Prompt>>
        BY <2>1, <3>1, Tuples
      <3>4. BodyFollows(0)'
        <4>1. AskBody' = AskBody /\ to_client' = <<>> /\ Len(to_client') = 0
          BY <1>3, <3>1 DEF AskBody, Unsent
        <4> QED BY <3>2, <4>1 DEF BodyFollows, Asked, Lost
      <3>5. NntpBody'
        BY <1>3, <2>1, <2>5, <3>3, <3>4 DEF NntpBody, GroupAgrees, DeflateAgrees
      <3> QED BY <2>2, <3>5 DEF NntpLive
    <2>6. CASE NntpPipelined
      <3>0. AskBody' = AskBody /\ AskGroup' = AskGroup
        BY <1>3 DEF AskBody, AskGroup
      <3>1. CASE machine.outputs = <<AskGroup, AskBody, Prompt>> /\ Unsent
        <4>4. to_server' = Append(to_server, AskGroup)
          BY <1>3, <3>1, Tuples
        <4>1. Asked(<<AskGroup>>)' \/ Lost'
          <5> PICK cmd : cmd = AskGroup
            OBVIOUS
          <5>1. Asked(<<cmd>>)' \/ Lost'
            BY <2>3, <3>1, <4>4
          <5> QED BY <3>0, <5>1 DEF Asked
        <4>2. machine'.outputs = <<AskBody, Prompt>>
          BY <2>1, <3>1, Tuples
        <4>3. NntpPipelined'
          BY <1>3, <2>1, <2>6, <3>0, <4>1, <4>2 DEF NntpPipelined
        <4> QED BY <2>2, <4>3 DEF NntpLive
      <3>2. CASE machine.outputs = <<AskBody, Prompt>> /\ (Asked(<<AskGroup>>) \/ Answered \/ Lost)
        <4>1. machine'.outputs = <<Prompt>> /\ to_server' = Append(to_server, AskBody)
          BY <1>3, <2>1, <3>2, Tuples
        <4>2. CASE Asked(<<AskGroup>>)
          <5>1. Append(<<AskGroup>>, AskBody) = <<AskGroup, AskBody>>
            BY AppendPair
          <5>2. Asked(<<AskGroup, AskBody>>)'
            BY <1>3, <2>1, <3>0, <4>1, <4>2, <5>1 DEF Asked, GroupAgrees, DeflateAgrees
          <5>3. NntpPipelined'
            BY <1>3, <2>1, <2>6, <4>1, <5>2, <3>0 DEF NntpPipelined
          <5> QED BY <2>2, <5>3 DEF NntpLive
        <4>3. CASE Answered
          <5>1. Append(<<>>, AskBody) = <<AskBody>>
            OBVIOUS
          <5>6. IsSequence(to_client) /\ Len(to_client) = 1
            BY <4>3 DEF Answered, NntpLive
          <5>7. to_client # <<>>
            BY <5>6, EmptyOrNot
          <5>5. to_client # <<>> /\ UNCHANGED <<to_client, to_client[1].code>>
            BY <1>3, <5>7
          <5>2. AgreesAfter(to_client[1].code)' /\ to_client' # <<>>
            BY <1>3, <2>1, <4>3, <5>5 DEF Answered, AgreesAfter, GroupAgrees, DeflateAgrees
          <5>3. BodyFollows(1)'
            BY <1>3, <2>1, <3>0, <4>1, <4>3, <5>1 DEF BodyFollows, Answered
          <5>4. NntpPipelined'
            BY <1>3, <2>1, <2>6, <4>1, <5>2, <5>3 DEF NntpPipelined
          <5> QED BY <2>2, <5>4 DEF NntpLive
        <4>4. CASE Lost
          <5>1. Lost'
            BY <1>3, <2>1, <4>4 DEF Lost, GroupAgrees
          <5>2. NntpPipelined'
            BY <1>3, <2>1, <2>6, <4>1, <5>1 DEF NntpPipelined
          <5> QED BY <2>2, <5>2 DEF NntpLive
        <4> QED BY <3>2, <4>2, <4>3, <4>4
      <3>3. machine.outputs # <<Prompt>>
        BY <1>1, Tuples, Kinds
      <3> QED BY <2>6, <3>1, <3>2, <3>3 DEF NntpPipelined
    <2> QED BY <1>1, <2>4, <2>5, <2>6, NextOutput
  <1> QED BY <1>2, <1>3 DEF send_raw

(* What follows no line, and one.                                          *)
LEMMA BodyNext ==
    ASSUME BodyFollows(0), IsSequence(to_client), nntp_call.id \in DOMAIN Articles
    PROVE  \/ Len(to_client) = 0 /\ (open => to_server = <<AskBody>>)
           \/ /\ Len(to_client) = 1 /\ (open => to_server = <<>>) /\ to_client[1].code # 222
              /\ torn = <<>>
           \/ /\ Len(to_client) > 0 /\ to_client[1].code = 222 /\ (open => to_server = <<>>)
              /\ Len(to_client) <= Len(Articles[nntp_call.id]) + 2
              /\ open => Len(to_client) = Len(Articles[nntp_call.id]) + 2
              /\ \A i \in 2..Len(to_client) : to_client[i] = BodyOf(nntp_call.id)[i - 1]
              /\ TornIn(Len(to_client))
  <1>1. Len(to_client) \in Nat /\ Len(Articles[nntp_call.id]) \in Nat
    BY EmptyOrNot, NntpAssumption
  <1>2. 0 + 1 = 1 /\ 0 + 2 = 2 /\ Len(to_client) - 0 = Len(to_client)
    BY <1>1
  <1>3. \A i \in 2..Len(to_client) : i - 0 - 1 = i - 1
    BY <1>1
  <1>4. CASE Len(to_client) = 0 /\ (open => to_server = <<AskBody>>)
    BY <1>4
  <1>5. CASE /\ Len(to_client) = 0 + 1 /\ (open => to_server = <<>>)
             /\ to_client[0 + 1].code # 222 /\ torn = <<>>
    BY <1>2, <1>5
  <1>6. CASE /\ Len(to_client) > 0 /\ to_client[0 + 1].code = 222 /\ (open => to_server = <<>>)
             /\ Len(to_client) - 0 <= Len(Articles[nntp_call.id]) + 2
             /\ open => Len(to_client) - 0 = Len(Articles[nntp_call.id]) + 2
             /\ \A i \in (0 + 2)..Len(to_client) :
                   to_client[i] = BodyOf(nntp_call.id)[i - 0 - 1]
             /\ TornIn(Len(to_client) - 0)
    <2>1. ASSUME NEW i \in 2..Len(to_client) PROVE to_client[i] = BodyOf(nntp_call.id)[i - 1]
      <3>1. i \in (0 + 2)..Len(to_client) /\ i - 0 - 1 = i - 1
        BY <1>1
      <3>2. to_client[i] = BodyOf(nntp_call.id)[i - 0 - 1]
        BY <1>6, <3>1
      <3> QED BY <3>1, <3>2
    <2> QED BY <1>2, <1>6, <2>1
  <1> QED BY <1>4, <1>5, <1>6 DEF BodyFollows

LEMMA BodyAfterOne ==
    ASSUME BodyFollows(1), IsSequence(to_client), nntp_call.id \in DOMAIN Articles
    PROVE  \/ Len(to_client) = 1 /\ (open => to_server = <<AskBody>>)
           \/ /\ Len(to_client) = 2 /\ (open => to_server = <<>>) /\ to_client[2].code # 222
              /\ torn = <<>>
           \/ /\ Len(to_client) > 1 /\ to_client[2].code = 222 /\ (open => to_server = <<>>)
              /\ Len(to_client) - 1 <= Len(Articles[nntp_call.id]) + 2
              /\ open => Len(to_client) - 1 = Len(Articles[nntp_call.id]) + 2
              /\ \A i \in 3..Len(to_client) : to_client[i] = BodyOf(nntp_call.id)[i - 2]
              /\ TornIn(Len(to_client) - 1)
  <1>1. Len(to_client) \in Nat /\ Len(Articles[nntp_call.id]) \in Nat
    BY EmptyOrNot, NntpAssumption
  <1>2. 1 + 1 = 2 /\ 1 + 2 = 3
    OBVIOUS
  <1>3. \A i \in 3..Len(to_client) : i - 1 - 1 = i - 2
    BY <1>1
  <1>4. CASE Len(to_client) = 1 /\ (open => to_server = <<AskBody>>)
    BY <1>4
  <1>5. CASE /\ Len(to_client) = 1 + 1 /\ (open => to_server = <<>>)
             /\ to_client[1 + 1].code # 222 /\ torn = <<>>
    BY <1>2, <1>5
  <1>6. CASE /\ Len(to_client) > 1 /\ to_client[1 + 1].code = 222 /\ (open => to_server = <<>>)
             /\ Len(to_client) - 1 <= Len(Articles[nntp_call.id]) + 2
             /\ open => Len(to_client) - 1 = Len(Articles[nntp_call.id]) + 2
             /\ \A i \in (1 + 2)..Len(to_client) :
                   to_client[i] = BodyOf(nntp_call.id)[i - 1 - 1]
             /\ TornIn(Len(to_client) - 1)
    <2>1. \A i \in 3..Len(to_client) : to_client[i] = BodyOf(nntp_call.id)[i - 2]
      BY <1>2, <1>3, <1>6
    <2> QED BY <1>2, <1>6, <2>1
  <1> QED BY <1>4, <1>5, <1>6 DEF BodyFollows

(* One line less on the socket.                                            *)
LEMMA BodyMovesUp ==
    ASSUME BodyFollows(1), IsSequence(to_client), to_client # <<>>, to_client' = Tail(to_client),
           UNCHANGED <<to_server, open, torn, nntp_call>>, nntp_call.id \in DOMAIN Articles
    PROVE  BodyFollows(0)'
  <1>1. /\ Len(to_client) \in Nat \ {0} /\ Len(to_client') = Len(to_client) - 1
        /\ Len(to_client') \in Nat
    BY TailElements
  <1>8. \A i \in 1..(Len(to_client) - 1) : to_client'[i] = to_client[i + 1]
    BY TailElements
  <1>2. AskBody' = AskBody /\ BodyOf(nntp_call.id)' = BodyOf(nntp_call.id)
    BY DEF AskBody, BodyOf
  <1>3. Len(Articles[nntp_call.id]) \in Nat
    BY NntpAssumption
  <1>4. CASE Len(to_client) = 1 /\ (open => to_server = <<AskBody>>)
    <2>1. Len(to_client') = 0 /\ (open' => to_server' = <<AskBody'>>)
      BY <1>1, <1>2, <1>4
    <2> QED BY <2>1 DEF BodyFollows
  <1>5. CASE /\ Len(to_client) = 2 /\ (open => to_server = <<>>) /\ to_client[2].code # 222
             /\ torn = <<>>
    <2>1. 1 \in 1..(Len(to_client) - 1) /\ 1 + 1 = 2 /\ 0 + 1 = 1
      BY <1>5
    <2>2. to_client'[1] = to_client[2]
      BY <1>8, <2>1
    <2>3. to_client'[0 + 1].code # 222
      <3>1. to_client'[1].code = to_client[2].code
        BY <2>2
      <3>2. to_client'[1].code # 222
        BY <1>5, <3>1
      <3> QED BY <2>1, <3>2, Zenon
    <2>4. Len(to_client') = 0 + 1
      BY <1>1, <1>5
    <2> QED BY <1>5, <2>3, <2>4 DEF BodyFollows
  <1>6. CASE /\ Len(to_client) > 1 /\ to_client[2].code = 222 /\ (open => to_server = <<>>)
             /\ Len(to_client) - 1 <= Len(Articles[nntp_call.id]) + 2
             /\ open => Len(to_client) - 1 = Len(Articles[nntp_call.id]) + 2
             /\ \A i \in 3..Len(to_client) : to_client[i] = BodyOf(nntp_call.id)[i - 2]
             /\ TornIn(Len(to_client) - 1)
    <2>1. ASSUME NEW i \in (0 + 2)..Len(to_client')
          PROVE  to_client'[i] = BodyOf(nntp_call.id)'[i - 0 - 1]
      <3>1. i \in 1..(Len(to_client) - 1)
        BY <1>1
      <3>2. i + 1 \in 3..Len(to_client)
        BY <1>1
      <3>3. (i + 1) - 2 = i - 0 - 1
        BY <1>1
      <3>4. to_client'[i] = to_client[i + 1]
        BY <1>8, <3>1
      <3>5. to_client[i + 1] = BodyOf(nntp_call.id)[(i + 1) - 2]
        BY <1>6, <3>2
      <3> QED BY <1>2, <3>3, <3>4, <3>5
    <2>2. to_client'[0 + 1].code = 222
      <3>0. Len(to_client) > 1 /\ Len(to_client) \in Nat
        BY <1>1, <1>6
      <3>1. 1 \in 1..(Len(to_client) - 1) /\ 1 + 1 = 2 /\ 0 + 1 = 1
        BY <3>0
      <3>2. to_client'[1] = to_client[2]
        BY <1>8, <3>1
      <3> QED BY <1>6, <3>1, <3>2
    <2>3. Len(to_client') > 0 /\ Len(to_client') - 0 = Len(to_client) - 1
      <3>0. Len(to_client) > 1 /\ Len(to_client) \in Nat
        BY <1>1, <1>6
      <3> QED BY <1>1, <3>0
    <2>4. /\ Len(to_client') - 0 <= Len(Articles[nntp_call.id]) + 2
          /\ open => Len(to_client') - 0 = Len(Articles[nntp_call.id]) + 2
      BY <1>6, <2>3
    <2>5. nntp_call'.id = nntp_call.id /\ open' = open
      OBVIOUS
    <2>6. BodyOf(nntp_call.id)' = BodyOf(nntp_call'.id)
      BY DEF BodyOf
    <2>7. open' => to_server' = <<>>
      BY <1>6
    <2>8. /\ Len(to_client') - 0 <= Len(Articles[nntp_call'.id]) + 2
          /\ open' => Len(to_client') - 0 = Len(Articles[nntp_call'.id]) + 2
      BY <2>4, <2>5
    <2>9. \A i \in (0 + 2)..Len(to_client') : to_client'[i] = BodyOf(nntp_call.id)'[i - 0 - 1]
      BY <2>1
    <2>10. TornIn(Len(to_client) - 0)'
      <3>1. Len(to_client') - 0 = Len(to_client) - 1
        BY <2>3
      <3>2. torn' # <<>> =>
               /\ Len(to_client) - 1 \in 1..Len(Articles[nntp_call'.id])
               /\ Begun(torn', Articles[nntp_call'.id][Len(to_client) - 1])
        BY <1>6 DEF TornIn
      <3> QED BY <3>1, <3>2 DEF TornIn
    <2> QED BY <2>2, <2>3, <2>7, <2>8, <2>9, <2>10, Zenon DEF BodyFollows
  <1> QED BY <1>4, <1>5, <1>6, BodyAfterOne

(* A response line has been read: m is the machine without the request for *)
(* it, and c the code of the response.                                     *)
ResponseRead(m, c) ==
    /\ to_client # <<>> /\ to_client' = Tail(to_client) /\ machine' = Response(m, c)
    /\ UNCHANGED <<driver, nntp_call, to_server, deflated, lines, open, torn, server>>
    /\ IsMachine(m) /\ m.outputs = Tail(machine.outputs) /\ m.state = machine.state
    /\ m.current_group = machine.current_group /\ m.pending_group = machine.pending_group
    /\ IsSequence(to_client) /\ IsSequence(lines) /\ c = to_client[1].code
    /\ Driving /\ machine.outputs # <<>> /\ Head(machine.outputs).kind = "NeedResponseLine"

(* The call has its result, or its error.                                  *)
LEMMA BackToIdle ==
    ASSUME NEW m, NEW c, ResponseRead(m, c), Len(to_client) = 1, (open => to_server = <<>>), DeflateAgrees,
           torn = <<>>, NEW n, IsMachine(n), n.outputs = <<>>, n.current_group \in {None, server.group},
           \/ \E e : machine' = Emit(n, <<Event(e)>>, "Idle")
           \/ machine' = Refuse(n, c)
           \/ machine' = Quit(n)
    PROVE  NntpLive' \/ NntpOver'
  <1>1. /\ UNCHANGED <<driver, nntp_call, to_server, deflated, lines, open, torn, server>>
        /\ to_client' = Tail(to_client) /\ Driving
        /\ IsSequence(to_client) /\ IsSequence(lines) /\ to_client # <<>>
    BY DEF ResponseRead
  <1>2. IsSequence(to_client') /\ Len(to_client') = 0
    BY <1>1, TailElements
  <1>3. to_client' = <<>>
    BY <1>2, EmptyOrNot
  <1>4. IsSequence(to_client)' /\ IsSequence(lines)'
    BY <1>1, <1>2 DEF IsSequence
  <1>5. ASSUME NEW e, machine' = Emit(n, <<Event(e)>>, "Idle") PROVE NntpLive'
    <2>1. /\ machine'.outputs = <<Event(e)>> /\ machine'.state = "Idle"
          /\ machine'.current_group = n.current_group
      BY <1>5, EmitFields, TupleSequences
    <2>2. NntpIdle'
      BY <1>1, <1>3, <2>1 DEF NntpIdle, GroupAgrees, DeflateAgrees, Driving
    <2> QED BY <1>4, <2>2 DEF NntpLive
  <1>6. ASSUME NEW e, machine' = Emit(n, <<Event(e)>>, "Done") PROVE NntpOver'
    BY <1>6, EmitFields, TupleSequences DEF NntpOver
  <1>7. CASE machine' = Refuse(n, c)
    BY <1>5, <1>6, <1>7 DEF Refuse, Failure
  <1>8. CASE machine' = Quit(n)
    BY <1>6, <1>8 DEF Quit, Failure
  <1> QED BY <1>5, <1>7, <1>8

LEMMA PlainResponse ==
    ASSUME NEW m, NEW c, ResponseRead(m, c), NntpPlain
    PROVE  NntpLive' \/ NntpOver'
  <1>1. /\ machine' = Response(m, c) /\ IsMachine(m) /\ m.state = machine.state
        /\ m.current_group = machine.current_group /\ m.pending_group = machine.pending_group
        /\ UNCHANGED <<driver, nntp_call, to_server, deflated, lines, open, torn, server>>
        /\ c = to_client[1].code
    BY DEF ResponseRead
  <1>2. machine.outputs = <<Prompt>> /\ m.outputs = <<>>
    <2>1. Head(machine.outputs).kind = "NeedResponseLine" /\ m.outputs = Tail(machine.outputs)
      BY DEF ResponseRead
    <2>2. \A x, y : machine.outputs = <<x, y>> => x.kind = "NeedResponseLine"
      BY <2>1, PromptFirst
    <2>3. machine.outputs = <<Prompt>>
      BY <2>2 DEF NntpPlain
    <2> QED BY <2>1, <2>3, Tuples
  <1>3. Answered
    <2>1. ~Lost /\ \A cmds : ~Asked(cmds)
      BY DEF Lost, Asked, ResponseRead
    <2>2. \A cmd : machine.outputs # <<cmd, Prompt>>
      BY <1>2, Len(<<Prompt>>) = 1, \A cmd : Len(<<cmd, Prompt>>) = 2
    <2> QED BY <2>1, <2>2 DEF NntpPlain
  <1>4. /\ Len(to_client) = 1 /\ torn = <<>> /\ (open => to_server = <<>>) /\ AgreesAfter(c)
    BY <1>1, <1>3 DEF Answered
  <1>5. /\ IsSequence(to_client') /\ Len(to_client') = 0 /\ IsSequence(lines)
    BY <1>4, TailElements DEF ResponseRead
  <1>6. to_client' = <<>>
    BY <1>5, EmptyOrNot
  <1>7. IsSequence(to_client)' /\ IsSequence(lines)'
    BY <1>1, <1>5 DEF IsSequence
  <1>8. machine.state \in PlainStates /\ driver = "machine"
    BY DEF NntpPlain
  <1>9. CASE machine.state = "AwaitGreeting"
    <2>1. GroupAgrees /\ DeflateAgrees
      BY <1>4, <1>9 DEF AgreesAfter
    <2>2. machine' = OnGreeting(m, c)
      BY <1>1, <1>9 DEF Response
    <2> QED BY <1>1, <1>2, <1>4, <2>1, <2>2, BackToIdle DEF OnGreeting, GroupAgrees
  <1>10. CASE machine.state = "AwaitAuthUser"
    <2>1. GroupAgrees /\ DeflateAgrees
      BY <1>4, <1>10 DEF AgreesAfter
    <2>2. machine' = OnAuthUser(m, c)
      BY <1>1, <1>10 DEF Response
    <2>0. ASSUME NEW q, IsMachine(q), q.outputs = <<>>,
                 machine' = Ask(q, <<Send("PASS", None)>>, "AwaitAuthPass")
          PROVE  /\ machine'.outputs = <<Send("PASS", None), Prompt>>
                 /\ machine'.state = "AwaitAuthPass" /\ machine'.current_group = q.current_group
      BY <2>0, AskOne
    <2> PICK n : n = [m EXCEPT !.pending_password = FALSE]
      OBVIOUS
    <2> PICK k : k = [m EXCEPT !.authenticated = TRUE, !.pending_password = FALSE]
      OBVIOUS
    <2>3. /\ IsMachine(n) /\ n.outputs = <<>> /\ n.current_group = machine.current_group
          /\ IsMachine(k) /\ k.outputs = <<>> /\ k.current_group = machine.current_group
      BY <1>1, <1>2 DEF IsMachine
    <2>4. \/ machine' = Emit(k, <<Event("Authenticated")>>, "Idle") \/ machine' = Quit(n)
          \/ machine' = Ask(n, <<Send("PASS", None)>>, "AwaitAuthPass")
      BY <2>2 DEF OnAuthUser, Authenticated
    <2>5. CASE machine' = Ask(n, <<Send("PASS", None)>>, "AwaitAuthPass")
      <3>1. /\ machine'.outputs = <<Send("PASS", None), Prompt>> /\ machine'.state = "AwaitAuthPass"
            /\ machine'.current_group = n.current_group
        BY <2>0, <2>3, <2>5
      <3>2. Unsent'
        BY <1>1, <1>4, <1>6, <2>1, <2>3, <3>1 DEF Unsent, GroupAgrees, DeflateAgrees
      <3>3. NntpPlain'
        <4> PICK cmd : cmd = Send("PASS", None)
          OBVIOUS
        <4>1. cmd.kind = "SendCommand" /\ cmd.verb = "PASS"
          BY Kinds
        <4>2. VerbOf("AwaitAuthPass") = "PASS" /\ "AwaitAuthPass" \in PlainStates
          BY DEF VerbOf, PlainStates
        <4>3. machine'.outputs = <<cmd, Prompt>> /\ machine'.state = "AwaitAuthPass" /\ driver' = "machine"
          BY <1>1, <1>8, <3>1
        <4> QED BY <3>2, <4>1, <4>2, <4>3 DEF NntpPlain
      <3> QED BY <1>7, <3>3 DEF NntpLive
    <2> QED BY <1>1, <1>4, <2>1, <2>3, <2>4, <2>5, BackToIdle DEF GroupAgrees
  <1>11. CASE machine.state = "AwaitAuthPass"
    <2>1. GroupAgrees /\ DeflateAgrees
      BY <1>4, <1>11 DEF AgreesAfter
    <2>2. machine' = OnAuthPass(m, c)
      BY <1>1, <1>11 DEF Response
    <2> PICK k : k = [m EXCEPT !.authenticated = TRUE, !.pending_password = FALSE]
      OBVIOUS
    <2>3. IsMachine(k) /\ k.outputs = <<>> /\ k.current_group = machine.current_group
      BY <1>1, <1>2 DEF IsMachine
    <2>4. machine' = Emit(k, <<Event("Authenticated")>>, "Idle") \/ machine' = Quit(m)
      BY <2>2 DEF OnAuthPass, Authenticated
    <2> QED BY <1>1, <1>2, <1>4, <2>1, <2>3, <2>4, BackToIdle DEF GroupAgrees
  <1>12. CASE machine.state = "AwaitGroup"
    <2>1. DeflateAgrees /\ IF c = 211 THEN server.group = m.pending_group ELSE GroupAgrees
      BY <1>1, <1>4, <1>12 DEF AgreesAfter
    <2>2. machine' = OnGroup(m, c)
      BY <1>1, <1>12 DEF Response
    <2>3. CASE c = 211
      <3> PICK n : n = Joined(m)
        OBVIOUS
      <3>1. IsMachine(n) /\ n.outputs = <<>> /\ n.current_group = server.group
        BY <1>1, <1>2, <2>1, <2>3 DEF IsMachine, Joined
      <3>2. machine' = Emit(n, <<Event("GroupJoined")>>, "Idle")
        BY <2>2, <2>3 DEF OnGroup
      <3> QED BY <1>4, <2>1, <3>1, <3>2, BackToIdle
    <2>4. CASE c # 211
      <3> PICK n : n = [m EXCEPT !.pending_group = None]
        OBVIOUS
      <3>1. IsMachine(n) /\ n.outputs = <<>> /\ n.current_group = machine.current_group
        BY <1>1, <1>2 DEF IsMachine
      <3>2. machine' = Refuse(n, c)
        BY <2>2, <2>4 DEF OnGroup
      <3> QED BY <1>4, <2>1, <2>4, <3>1, <3>2, BackToIdle DEF GroupAgrees
    <2> QED BY <2>3, <2>4
  <1>13. CASE machine.state = "AwaitStat"
    <2>1. GroupAgrees /\ DeflateAgrees
      BY <1>4, <1>13 DEF AgreesAfter
    <2>2. machine' = OnStat(m, c)
      BY <1>1, <1>13 DEF Response
    <2> QED BY <1>1, <1>2, <1>4, <2>1, <2>2, BackToIdle DEF OnStat, GroupAgrees
  <1>14. CASE machine.state = "AwaitStartTlsResponse"
    <2>1. GroupAgrees /\ DeflateAgrees
      BY <1>4, <1>14 DEF AgreesAfter
    <2>2. machine' = OnStartTls(m, c)
      BY <1>1, <1>14 DEF Response
    <2>3. CASE c = 382
      <3>1. machine' = Emit(m, <<[kind |-> "UpgradeToTls"], Prompt>>, "AwaitStartTlsGreeting")
        BY <2>2, <2>3 DEF OnStartTls
      <3>2. /\ machine'.outputs = <<[kind |-> "UpgradeToTls"], Prompt>>
            /\ machine'.state = "AwaitStartTlsGreeting"
        BY <1>1, <1>2, <3>1, EmitTwo
      <3>3. NntpUpgrading'
        BY <1>1, <1>4, <1>8, <3>2 DEF NntpUpgrading, Prompt
      <3> QED BY <1>7, <3>3 DEF NntpLive
    <2>4. CASE c # 382
      BY <1>1, <1>2, <1>4, <2>1, <2>2, <2>4, BackToIdle DEF OnStartTls, GroupAgrees
    <2> QED BY <2>3, <2>4
  <1>15. CASE machine.state = "AwaitCompressResponse"
    <2>1. GroupAgrees /\ IF c = 206 THEN server.deflate = TRUE ELSE DeflateAgrees
      BY <1>4, <1>15 DEF AgreesAfter
    <2>2. machine' = OnCompress(m, c)
      BY <1>1, <1>15 DEF Response
    <2>3. CASE c = 206
      <3>1. machine' = Emit(m, <<[kind |-> "UpgradeToDeflate"], Event("CompressActive")>>, "Idle")
        BY <2>2, <2>3 DEF OnCompress
      <3>2. /\ machine'.outputs = <<[kind |-> "UpgradeToDeflate"], Event("CompressActive")>>
            /\ machine'.state = "Idle" /\ machine'.current_group = m.current_group
        BY <1>1, <1>2, <3>1, EmitTwo
      <3>3. NntpIdle'
        BY <1>1, <1>4, <1>6, <1>8, <2>1, <2>3, <3>2 DEF NntpIdle, GroupAgrees, Event
      <3> QED BY <1>7, <3>3 DEF NntpLive
    <2>4. CASE c # 206
      BY <1>1, <1>2, <1>4, <2>1, <2>2, <2>4, BackToIdle DEF OnCompress, GroupAgrees, Failure
    <2> QED BY <2>3, <2>4
  <1>16. CASE machine.state = "AwaitQuit"
    <2>1. machine' = Emit(m, <<Event("QuitAck")>>, "Done")
      BY <1>1, <1>16 DEF Response
    <2> QED BY <1>1, <1>2, <2>1, EmitFields, TupleSequences DEF NntpOver
  <1> QED BY <1>8, <1>9, <1>10, <1>11, <1>12, <1>13, <1>14, <1>15, <1>16 DEF PlainStates

LEMMA BodyResponse ==
    ASSUME NEW m, NEW c, ResponseRead(m, c), NntpBody
    PROVE  NntpLive' \/ NntpOver'
  <1>1. /\ machine' = Response(m, c) /\ IsMachine(m) /\ m.state = machine.state
        /\ m.current_group = machine.current_group
        /\ UNCHANGED <<driver, nntp_call, to_server, deflated, lines, open, torn, server>>
        /\ c = to_client[1].code /\ IsSequence(to_client) /\ IsSequence(lines) /\ to_client # <<>>
        /\ to_client' = Tail(to_client)
    BY DEF ResponseRead
  <1>2. machine.outputs = <<Prompt>> /\ m.outputs = <<>>
    <2>1. Head(machine.outputs).kind = "NeedResponseLine" /\ m.outputs = Tail(machine.outputs)
      BY DEF ResponseRead
    <2>2. \A x, y : machine.outputs = <<x, y>> => x.kind = "NeedResponseLine"
      BY <2>1, PromptFirst
    <2>4. AskBody.kind # "NeedResponseLine" /\ Event("GroupJoined").kind # "NeedResponseLine"
      BY DEF AskBody, Send, Event
    <2>3. machine.outputs = <<Prompt>>
      BY <2>2, <2>4 DEF NntpBody
    <2> QED BY <2>1, <2>3, Tuples
  <1>3. BodyFollows(0)
    <2>1. Len(<<Prompt>>) = 1 /\ Len(<<AskBody, Prompt>>) = 2 /\ Len(<<Event("GroupJoined"), Prompt>>) = 2
      OBVIOUS
    <2> QED BY <1>2, <2>1 DEF NntpBody
  <1>4. /\ IsSequence(to_client') /\ Len(to_client') = Len(to_client) - 1
        /\ Len(to_client) \in Nat \ {0}
        /\ \A i \in 1..(Len(to_client) - 1) : to_client'[i] = to_client[i + 1]
    BY <1>1, TailElements
  <1>5. IsSequence(to_client)' /\ IsSequence(lines)'
    BY <1>1, <1>4 DEF IsSequence
  <1>6. machine' = OnBodyResponse(m, c)
    BY <1>1 DEF Response, NntpBody, BodyStates
  <1>7. GroupAgrees /\ DeflateAgrees /\ lines = <<>> /\ nntp_call.id \in DOMAIN Articles
        /\ driver \in {"body", "pipelined"}
    BY DEF NntpBody
  <1>8. CASE c # 222
    <2>1. Len(to_client) = 1 /\ torn = <<>> /\ (open => to_server = <<>>)
      BY <1>1, <1>3, <1>4, <1>7, <1>8, BodyNext
    <2> QED BY <1>1, <1>2, <1>6, <1>7, <1>8, <2>1, BackToIdle DEF OnBodyResponse, GroupAgrees
  <1>9. CASE c = 222
    <2>1. /\ open => to_server = <<>> /\ Len(to_client) = Len(Articles[nntp_call.id]) + 2
          /\ Len(to_client) <= Len(Articles[nntp_call.id]) + 2
          /\ \A i \in 2..Len(to_client) : to_client[i] = BodyOf(nntp_call.id)[i - 1]
          /\ TornIn(Len(to_client))
      BY <1>1, <1>3, <1>4, <1>7, <1>9, BodyNext
    <2>2. machine' = Emit(m, <<BodyPrompt>>, "ReadingBody")
      BY <1>6, <1>9 DEF OnBodyResponse
    <2>3. /\ machine'.outputs = <<BodyPrompt>> /\ machine'.state = "ReadingBody"
          /\ machine'.current_group = m.current_group
      BY <1>1, <1>2, <2>2, EmitFields, TupleSequences
    <2>4. Len(Articles[nntp_call.id]) \in Nat /\ lines' = <<>> /\ Len(lines') = 0
      BY <1>1, <1>7, NntpAssumption
    <2>5. BodyOf(nntp_call.id)' = BodyOf(nntp_call.id)
      BY <1>1 DEF BodyOf
    <2>6. \A i \in 1..Len(to_client') : to_client'[i] = BodyOf(nntp_call.id)[i + Len(lines')]
      BY <1>4, <2>1, <2>4
    <2>7. GroupAgrees' /\ DeflateAgrees'
      BY <1>1, <1>7, <2>3 DEF GroupAgrees, DeflateAgrees
    <2>9. /\ Len(lines') + Len(to_client') <= Len(Articles[nntp_call.id]) + 1
          /\ Len(lines') <= Len(Articles[nntp_call.id])
          /\ open => Len(lines') + Len(to_client') = Len(Articles[nntp_call.id]) + 1
      BY <1>4, <2>1, <2>4
    <2>10. nntp_call'.id = nntp_call.id /\ open' = open /\ to_server' = to_server
           /\ driver' \in {"body", "pipelined"}
      BY <1>1, <1>7
    <2>11. \A i \in 1..Len(lines') : lines'[i] = Articles[nntp_call.id][i]
      BY <2>4
    <2>12. BodyPrompt' = BodyPrompt
      BY DEF BodyPrompt
    <2>13. TornIn(Len(lines) + Len(to_client) + 1)'
      <3>1. Len(lines') + Len(to_client') + 1 = Len(to_client)
        BY <1>4, <2>4
      <3>2. (torn # <<>>)' => /\ Len(to_client) \in 1..Len(Articles[nntp_call'.id])
                             /\ Begun(torn', Articles[nntp_call'.id][Len(to_client)])
        BY <1>1, <2>1, <2>10 DEF TornIn
      <3> QED BY <3>1, <3>2 DEF TornIn
    <2>8. NntpReading'
      BY <1>7, <2>1, <2>3, <2>5, <2>6, <2>7, <2>9, <2>10, <2>11, <2>12, <2>13 DEF NntpReading
    <2> QED BY <1>5, <2>8 DEF NntpLive
  <1> QED BY <1>8, <1>9

LEMMA GroupResponse ==
    ASSUME NEW m, NEW c, ResponseRead(m, c), NntpPipelined
    PROVE  NntpLive' \/ NntpOver'
  <1>1. /\ machine' = Response(m, c) /\ IsMachine(m) /\ m.state = machine.state
        /\ m.current_group = machine.current_group /\ m.pending_group = machine.pending_group
        /\ UNCHANGED <<driver, nntp_call, to_server, deflated, lines, open, torn, server>>
        /\ c = to_client[1].code /\ IsSequence(to_client) /\ IsSequence(lines) /\ to_client # <<>>
        /\ to_client' = Tail(to_client)
    BY DEF ResponseRead
  <1>2. machine.outputs = <<Prompt>> /\ m.outputs = <<>>
    <2>1. Head(machine.outputs).kind = "NeedResponseLine" /\ m.outputs = Tail(machine.outputs)
      BY DEF ResponseRead
    <2>2. /\ \A x, y : machine.outputs = <<x, y>> => x.kind = "NeedResponseLine"
          /\ \A x, y, z : machine.outputs = <<x, y, z>> => x.kind = "NeedResponseLine"
      BY <2>1, PromptFirst
    <2>4. AskBody.kind # "NeedResponseLine" /\ AskGroup.kind # "NeedResponseLine"
      BY DEF AskBody, AskGroup, Send
    <2>3. machine.outputs = <<Prompt>>
      BY <2>2, <2>4 DEF NntpPipelined
    <2> QED BY <2>1, <2>3, Tuples
  <1>3. AgreesAfter(c) /\ BodyFollows(1)
    <2>1. /\ Len(<<Prompt>>) = 1 /\ Len(<<AskBody, Prompt>>) = 2
          /\ Len(<<AskGroup, AskBody, Prompt>>) = 3
      OBVIOUS
    <2>2. ~Lost /\ \A cmds : ~Asked(cmds)
      BY <1>1 DEF Lost, Asked
    <2> QED BY <1>1, <1>2, <2>1, <2>2 DEF NntpPipelined
  <1>4. IsSequence(to_client')
    BY <1>1, TailElements
  <1>5. IsSequence(to_client)' /\ IsSequence(lines)'
    BY <1>1, <1>4 DEF IsSequence
  <1>6. machine' = OnPipelinedGroup(m, c)
    BY <1>1 DEF Response, NntpPipelined
  <1>7. CASE c = 211
    <2> PICK n : n = Joined(m)
      OBVIOUS
    <2>1. /\ IsMachine(n) /\ n.outputs = <<>> /\ n.current_group = server.group
          /\ DeflateAgrees
      BY <1>1, <1>2, <1>3, <1>7 DEF IsMachine, Joined, AgreesAfter, NntpPipelined
    <2>2. machine' = Emit(n, <<Event("GroupJoined"), Prompt>>, "AwaitPipelinedBodyResponse")
      BY <1>6, <1>7 DEF OnPipelinedGroup
    <2>3. /\ machine'.outputs = <<Event("GroupJoined"), Prompt>>
          /\ machine'.state = "AwaitPipelinedBodyResponse"
          /\ machine'.current_group = n.current_group
      BY <2>1, <2>2, EmitTwo
    <2>4. BodyFollows(0)'
      BY <1>1, <1>3, BodyMovesUp DEF NntpPipelined
    <2>5. GroupAgrees' /\ DeflateAgrees'
      BY <1>1, <2>1, <2>3 DEF GroupAgrees, DeflateAgrees
    <2>6. NntpBody'
      BY <1>1, <2>3, <2>4, <2>5 DEF NntpBody, NntpPipelined, BodyStates, Event, Prompt
    <2> QED BY <1>5, <2>6 DEF NntpLive
  <1>8. CASE c # 211
    <2> PICK n : n = [m EXCEPT !.pending_group = None]
      OBVIOUS
    <2>1. IsMachine(n) /\ n.outputs = <<>>
      BY <1>1, <1>2 DEF IsMachine
    <2>2. machine' = Emit(n, <<Failure>>, "Done")
      BY <1>6, <1>8 DEF OnPipelinedGroup, Quit
    <2> QED BY <2>1, <2>2, EmitFields, TupleSequences DEF NntpOver
  <1> QED BY <1>7, <1>8

(* A response that broke off ends the connection, except where compression *)
(* was asked for, which goes on without it.                                *)
LEMMA NoResponse ==
    ASSUME NEW m, IsMachine(m),
           m.state \in PlainStates \cup BodyStates \cup {"AwaitPipelinedGroupResponse"},
           m.state # "AwaitCompressResponse"
    PROVE  Response(m, 0).state = "Done"
  <1>1. ASSUME NEW n, IsMachine(n), NEW outs PROVE Emit(n, outs, "Done").state = "Done"
    BY <1>1 DEF IsMachine, Emit
  <1>2. Quit(m).state = "Done" /\ Refuse(m, 0).state = "Done"
    BY <1>1 DEF Quit, Refuse
  <1>3. ASSUME NEW g PROVE Quit([m EXCEPT !.pending_group = g]).state = "Done"
                           /\ Refuse([m EXCEPT !.pending_group = g], 0).state = "Done"
                           /\ Quit([m EXCEPT !.pending_password = g]).state = "Done"
    <2>1. IsMachine([m EXCEPT !.pending_group = g]) /\ IsMachine([m EXCEPT !.pending_password = g])
      BY DEF IsMachine
    <2> QED BY <1>1, <2>1 DEF Quit, Refuse
  <1>4. /\ OnGreeting(m, 0) = Quit(m) /\ OnAuthPass(m, 0) = Quit(m) /\ OnStartTls(m, 0) = Quit(m)
        /\ OnAuthUser(m, 0) = Quit([m EXCEPT !.pending_password = FALSE])
        /\ OnStat(m, 0) = Refuse(m, 0) /\ OnBodyResponse(m, 0) = Refuse(m, 0)
        /\ OnGroup(m, 0) = Refuse([m EXCEPT !.pending_group = None], 0)
        /\ OnPipelinedGroup(m, 0) = Quit([m EXCEPT !.pending_group = None])
    BY DEF OnGreeting, OnAuthPass, OnStartTls, OnAuthUser, OnStat, OnBodyResponse, OnGroup,
           OnPipelinedGroup
  <1>5. Emit(m, <<Event("QuitAck")>>, "Done").state = "Done"
    BY <1>1
  <1> QED BY <1>2, <1>3, <1>4, <1>5 DEF Response, PlainStates, BodyStates

LEMMA TornResponse ==
    ASSUME NntpShape, NntpLive, ~NntpOver, Output("NeedResponseLine"),
           to_client = <<>>, torn # <<>>, torn' = <<>>, NntpStep(Response(Popped, 0)),
           UNCHANGED <<driver, nntp_call, to_server, to_client, deflated>>
    PROVE  NntpLive' \/ NntpOver'
  <1> PICK m : m = Popped
    OBVIOUS
  <1>1. /\ IsMachine(m) /\ m.outputs = Tail(machine.outputs) /\ m.state = machine.state
        /\ m.current_group = machine.current_group
    BY PoppedFields DEF NntpShape
  <1>2. /\ machine' = Response(m, 0) /\ UNCHANGED <<lines, open, server>>
        /\ ~open /\ machine.outputs # <<>> /\ Head(machine.outputs).kind = "NeedResponseLine"
    BY DEF NntpStep, NntpShape, Output
  <1>3. m.state \in PlainStates \cup BodyStates \cup {"AwaitPipelinedGroupResponse"}
    BY <1>1, NextOutput DEF NntpPlain, NntpBody, NntpPipelined
  <1>4. CASE m.state # "AwaitCompressResponse"
    BY <1>1, <1>2, <1>3, <1>4, NoResponse DEF NntpOver
  <1>5. CASE m.state = "AwaitCompressResponse"
    <2>1. NntpPlain
      BY <1>1, <1>5, NextOutput DEF NntpBody, BodyStates, NntpPipelined
    <2>2. machine.outputs = <<Prompt>> /\ m.outputs = <<>>
      <3>1. \A x, y : machine.outputs = <<x, y>> => x.kind = "NeedResponseLine"
        BY <1>2, PromptFirst
      <3>2. machine.outputs = <<Prompt>>
        BY <2>1, <3>1 DEF NntpPlain
      <3> QED BY <1>1, <3>2, Tuples
    <2>3. GroupAgrees /\ driver = "machine"
      <3>1. Len(to_client) = 0 /\ ~Answered
        BY DEF Answered
      <3>2. \A cmd : machine.outputs # <<cmd, Prompt>>
        BY <2>2, Len(<<Prompt>>) = 1, \A cmd : Len(<<cmd, Prompt>>) = 2
      <3>3. \A cmds : ~Asked(cmds)
        BY <1>2 DEF Asked
      <3>4. Lost
        BY <2>1, <3>1, <3>2, <3>3 DEF NntpPlain
      <3> QED BY <1>1, <1>5, <2>1, <3>4 DEF Lost, NntpPlain
    <2>4. machine' = Emit(m, <<Failure>>, "Idle")
      BY <1>2, <1>5 DEF Response, OnCompress
    <2>5. /\ machine'.outputs = <<Failure>> /\ machine'.state = "Idle"
          /\ machine'.current_group = m.current_group
      BY <1>1, <2>2, <2>4, EmitFields, TupleSequences
    <2>6. NntpIdle'
      BY <1>1, <1>2, <2>3, <2>5 DEF NntpIdle, GroupAgrees, DeflateAgrees, Driving, Failure
    <2>7. IsSequence(to_client)' /\ IsSequence(lines)'
      BY <1>2 DEF NntpLive, IsSequence
    <2> QED BY <2>6, <2>7 DEF NntpLive
  <1> QED BY <1>4, <1>5

LEMMA ResponseStep ==
    ASSUME NntpShape, NntpLive, ~NntpOver, read_response_line
    PROVE  NntpLive' \/ NntpOver'
  <1>1. Output("NeedResponseLine") /\ machine.outputs # <<>>
        /\ Head(machine.outputs).kind = "NeedResponseLine"
    BY DEF read_response_line, Output
  <1>2. CASE Return(Popped, "failed")
    <2>1. driver' = "failed" /\ machine'.state = machine.state
      BY <1>2, PoppedFields DEF Return, NntpStep, NntpShape
    <2>2. machine.state # "Idle"
      BY <1>1, NextOutput DEF NntpPlain, PlainStates, NntpBody, BodyStates, NntpPipelined
    <2> QED BY <2>1, <2>2 DEF NntpOver
  <1>3. CASE /\ to_client # <<>> /\ to_client' = Tail(to_client)
             /\ NntpStep(Response(Popped, Head(to_client).code))
             /\ UNCHANGED <<driver, nntp_call, to_server, torn, deflated>>
    <2> PICK m : m = Popped
      OBVIOUS
    <2> PICK c : c = Head(to_client).code
      OBVIOUS
    <2>1. /\ to_client # <<>> /\ to_client' = Tail(to_client) /\ machine' = Response(m, c)
          /\ UNCHANGED <<driver, nntp_call, to_server, deflated, lines, open, torn, server>>
      BY <1>3 DEF NntpStep
    <2>2. /\ IsMachine(m) /\ m.outputs = Tail(machine.outputs) /\ m.state = machine.state
          /\ m.current_group = machine.current_group /\ m.pending_group = machine.pending_group
      BY PoppedFields DEF NntpShape
    <2>3. IsSequence(to_client) /\ IsSequence(lines)
      BY DEF NntpLive
    <2>4. c = to_client[1].code
      BY <2>1, <2>3, TailElements
    <2>5. ResponseRead(m, c)
      BY <1>1, <2>1, <2>2, <2>3, <2>4 DEF ResponseRead, Output
    <2> QED BY <1>1, <2>5, NextOutput, PlainResponse, BodyResponse, GroupResponse
  <1>4. CASE /\ to_client = <<>> /\ torn # <<>> /\ torn' = <<>>
             /\ NntpStep(Response(Popped, 0))
             /\ UNCHANGED <<driver, nntp_call, to_server, to_client, deflated>>
    BY <1>1, <1>4, TornResponse
  <1> QED BY <1>2, <1>3, <1>4 DEF read_response_line

LEMMA EventStep ==
    ASSUME NntpShape, NntpLive, ~NntpOver, drive_event
    PROVE  NntpLive' \/ NntpOver'
  <1>1. UNCHANGED <<lines, open, torn, server, to_server, to_client, deflated>>
    BY DEF drive_event, Return, NntpStep
  <1>2. IsSequence(to_client)' /\ IsSequence(lines)'
    BY <1>1 DEF NntpLive, IsSequence
  <1>3. ASSUME NntpIdle, DeflateAgrees, machine'.outputs = <<>>, machine'.state = "Idle",
               machine'.current_group = machine.current_group
        PROVE  NntpLive'
    <2>1. NntpIdle'
      BY <1>1, <1>3 DEF NntpIdle, GroupAgrees, DeflateAgrees
    <2> QED BY <1>2, <2>1 DEF NntpLive
  <1>4. CASE Output("Event") /\ drive_event
    <2>1. /\ machine.outputs # <<>> /\ Head(machine.outputs).kind = "Event" /\ Driving
          /\ machine' = Popped
      <3>1. Head(machine.outputs).kind = "Event" /\ machine.outputs # <<>> /\ Driving
        BY <1>4 DEF Output
      <3>2. machine' = Popped
        BY <1>4, <3>1 DEF drive_event, Output, Return, NntpStep
      <3> QED BY <3>1, <3>2
    <2>2. /\ machine'.outputs = Tail(machine.outputs) /\ machine'.state = machine.state
          /\ machine'.current_group = machine.current_group
      BY <2>1, PoppedFields DEF NntpShape
    <2>3. CASE NntpIdle
      <3>1. PICK e : machine.outputs = <<Event(e)>> /\ DeflateAgrees
        BY <2>1, <2>3, Tuples, Kinds DEF NntpIdle
      <3>2. machine'.outputs = <<>>
        BY <2>2, <3>1, Tuples
      <3> QED BY <1>3, <2>2, <2>3, <3>1, <3>2 DEF NntpIdle
    <2>4. CASE NntpBody
      <3>1. machine.outputs = <<Event("GroupJoined"), Prompt>> /\ driver = "pipelined" /\ BodyFollows(0)
        BY <2>1, <2>4, Tuples, Kinds DEF NntpBody, AskBody
      <3>2. Head(machine.outputs).event = "GroupJoined" /\ machine'.outputs = <<Prompt>>
        BY <2>2, <3>1, Tuples, Kinds
      <3>3. driver' = driver /\ nntp_call' = nntp_call
        BY <1>4, <2>1, <3>1, <3>2 DEF drive_event, Output, Return
      <3>4. BodyFollows(0)'
        <4>1. AskBody' = AskBody /\ BodyOf(nntp_call.id)' = BodyOf(nntp_call.id)
          BY <3>3 DEF AskBody, BodyOf
        <4> QED BY <1>1, <3>1, <3>3, <4>1 DEF BodyFollows, TornIn
      <3>5. NntpBody'
        BY <1>1, <2>2, <2>4, <3>2, <3>3, <3>4 DEF NntpBody, GroupAgrees, DeflateAgrees
      <3> QED BY <1>2, <3>5 DEF NntpLive
    <2> QED BY <1>4, <2>3, <2>4, NextOutput
  <1>5. CASE Output("NeedBodyLine") /\ Return(Popped, "reading")
    <2>1. NntpReading /\ machine.outputs # <<>>
      BY <1>5, NextOutput DEF Output
    <2>2. machine.outputs = <<BodyPrompt>>
      BY <2>1 DEF NntpReading
    <2>3. /\ machine'.outputs = <<>> /\ machine'.state = machine.state
          /\ machine'.current_group = machine.current_group
          /\ driver' = "reading" /\ nntp_call' = nntp_call
      BY <1>5, <2>2, PoppedFields, Tuples DEF NntpShape, Return, NntpStep
    <2>4. BodyOf(nntp_call.id)' = BodyOf(nntp_call.id)
      BY <2>3 DEF BodyOf
    <2>5. NntpReading'
      BY <1>1, <2>1, <2>3, <2>4 DEF NntpReading, TornIn, GroupAgrees, DeflateAgrees
    <2> QED BY <1>2, <2>5 DEF NntpLive
  <1>6. CASE Driving /\ machine.outputs = <<>> /\ Return(machine, "failed")
    BY <1>3, <1>6, NextOutput DEF NntpIdle, Driving, Return, NntpStep
  <1> QED BY <1>4, <1>5, <1>6 DEF drive_event

(* The other steps of the client that read no line.                        *)
LEMMA UpgradeStep ==
    ASSUME NntpShape, NntpLive, ~NntpOver,
           do_tls_upgrade \/ do_deflate_upgrade \/ GoOn \/ Dropped \/ read_line_eof
    PROVE  NntpLive' \/ NntpOver'
  <1>1. CASE do_tls_upgrade
    <2>1. machine.state = "AwaitStartTlsGreeting" /\ machine'.state = machine.state /\ driver' = "failed"
      BY <1>1, NextOutput, PoppedFields DEF do_tls_upgrade, Return, NntpStep, NntpShape, NntpUpgrading
    <2> QED BY <2>1 DEF NntpOver
  <1>2. CASE do_deflate_upgrade
    <2>1. NntpIdle /\ machine.outputs # <<>> /\ Head(machine.outputs).kind = "UpgradeToDeflate" /\ Driving
      BY <1>2, NextOutput DEF do_deflate_upgrade, Output
    <2>2. /\ machine.outputs = <<[kind |-> "UpgradeToDeflate"], Event("CompressActive")>>
          /\ server.deflate = TRUE
      BY <2>1, Tuples, Kinds DEF NntpIdle
    <2>3. /\ machine'.outputs = <<Event("CompressActive")>> /\ machine'.state = machine.state
          /\ machine'.current_group = machine.current_group
      BY <1>2, <2>2, PoppedFields, Tuples DEF do_deflate_upgrade, NntpStep, NntpShape
    <2>4. UNCHANGED <<driver, to_server, to_client, lines, open, torn, server>> /\ deflated' = TRUE
      BY <1>2 DEF do_deflate_upgrade, NntpStep
    <2>5. NntpIdle'
      BY <2>1, <2>2, <2>3, <2>4 DEF NntpIdle, GroupAgrees, DeflateAgrees, Driving
    <2> QED BY <2>4, <2>5 DEF NntpLive, IsSequence
  <1>3. CASE GoOn
    <2>1. NntpIdle /\ machine.outputs = <<>> /\ DeflateAgrees
      BY <1>3, NextOutput DEF GoOn
    <2>2. UNCHANGED <<machine, to_server, to_client, lines, open, torn, server, deflated>>
      BY <1>3 DEF GoOn, Return, NntpStep
    <2>3. NntpIdle'
      BY <2>1, <2>2 DEF NntpIdle, GroupAgrees, DeflateAgrees
    <2> QED BY <2>2, <2>3 DEF NntpLive, IsSequence
  <1>4. CASE Dropped \/ read_line_eof
    BY <1>4 DEF Dropped, read_line_eof, Return, NntpStep, NntpOver, NntpShape, IsMachine
  <1> QED BY <1>1, <1>2, <1>3, <1>4

-----------------------------------------------------------------------------
(* Dots: a line is sent with one more, and comes back without it.          *)
LEMMA DotsComeAndGo ==
    ASSUME NEW x, IsSequence(x)
    PROVE  Stuffed(x) # <<Dot>> /\ Unstuffed(Stuffed(x)) = x
  <1>1. Len(x) \in Nat /\ (Len(x) = 0 <=> x = <<>>) /\ Len(<<Dot>>) = 1
    BY EmptyOrNot
  <1>2. CASE x # <<>> /\ x[1] = Dot
    <2> PICK s : s = <<Dot>> \o x
      OBVIOUS
    <2>1. IsSequence(<<Dot>>) /\ <<Dot>>[1] = Dot
      BY TupleSequences
    <2>2. /\ IsSequence(s) /\ Len(s) = Len(x) + 1 /\ s[1] = Dot
          /\ \A i \in 1..Len(x) : s[1 + i] = x[i]
      BY <1>1, <2>1, ConcatElements
    <2>3. Len(s) > 1 /\ s[2] = Dot
      <3>1. 1 \in 1..Len(x) /\ 1 + 1 = 2
        BY <1>1, <1>2
      <3> QED BY <1>1, <1>2, <2>2, <3>1
    <2>4. s # <<>>
      BY <1>1, <2>2, EmptyOrNot
    <2>5. Tail(s) = x
      <3> PICK t : t = Tail(s)
        OBVIOUS
      <3>1. IsSequence(t) /\ Len(t) = Len(x) /\ \A i \in 1..(Len(s) - 1) : t[i] = s[i + 1]
        <4>1. /\ IsSequence(t) /\ Len(t) = Len(s) - 1
              /\ \A i \in 1..(Len(s) - 1) : t[i] = s[i + 1]
          BY <2>2, <2>4, TailElements
        <4> QED BY <1>1, <2>2, <4>1
      <3>2. \A i \in 1..Len(x) : t[i] = x[i]
        BY <1>1, <2>2, <3>1
      <3> QED BY <3>1, <3>2, SameElements
    <2>6. Stuffed(x) = s /\ Unstuffed(s) = Tail(s)
      BY <1>2, <2>2, <2>3 DEF Stuffed, Unstuffed
    <2>7. s # <<Dot>>
      BY <1>1, <2>3
    <2> QED BY <2>5, <2>6, <2>7
  <1>3. CASE ~(x # <<>> /\ x[1] = Dot)
    <2>1. Stuffed(x) = x
      BY <1>3 DEF Stuffed
    <2>2. x # <<Dot>>
      <3>1. <<Dot>> # <<>> /\ <<Dot>>[1] = Dot
        OBVIOUS
      <3> QED BY <1>3, <3>1
    <2>3. ~(Len(x) > 1 /\ x[1] = Dot)
      BY <1>1, <1>3
    <2> QED BY <2>1, <2>2, <2>3 DEF Unstuffed
  <1> QED BY <1>2, <1>3

(* Where the beginning of a line looks like the end, the line began with   *)
(* a dot.                                                                  *)
LEMMA DotOfTwo ==
    ASSUME NEW x, IsSequence(x), Begun(<<Dot>>, x)
    PROVE  x # <<>> /\ x[1] = Dot
  <1> SUFFICES ASSUME ~(x # <<>> /\ x[1] = Dot) PROVE FALSE
    OBVIOUS
  <1>1. Stuffed(x) = x
    BY DEF Stuffed
  <1>2. PICK k \in 1..(Len(x) - 1) : <<Dot>> = SubSeq(x, 1, k)
    BY <1>1 DEF Begun
  <1>3. Len(x) \in Nat /\ (Len(x) = 0 <=> x = <<>>)
    BY EmptyOrNot
  <1>4. k \in 0..Len(x) /\ 1 \in 1..k
    BY <1>2, <1>3
  <1>5. SubSeq(x, 1, k)[1] = x[1]
    BY <1>4, PrefixElements
  <1> QED BY <1>2, <1>3, <1>4, <1>5

(* The body of an article: its lines, and the line that ends it.           *)
LEMMA BodyLines ==
    ASSUME NEW id \in DOMAIN Articles
    PROVE  /\ Len(Articles[id]) \in Nat /\ IsSequence(Articles[id])
           /\ IsSequence(BodyOf(id)) /\ Len(BodyOf(id)) = Len(Articles[id]) + 1
           /\ \A i \in 1..Len(Articles[id]) : BodyOf(id)[i].text = Stuffed(Articles[id][i])
           /\ BodyOf(id)[Len(Articles[id]) + 1].text = <<Dot>>
           /\ \A i \in 1..(Len(Articles[id]) + 1) : "code" \notin DOMAIN BodyOf(id)[i]
  <1> DEFINE ls == [i \in 1..Len(Articles[id]) |-> [to |-> "line", text |-> Stuffed(Articles[id][i])]]
             end == [to |-> "line", text |-> <<Dot>>]
  <1>1. Len(Articles[id]) \in Nat /\ IsSequence(Articles[id])
    BY NntpAssumption DEF IsSequence
  <1>2. IsSequence(ls) /\ Len(ls) = Len(Articles[id])
    <2>1. ls \in [1..Len(Articles[id]) -> Range(ls)]
      BY DEF Range
    <2> HIDE DEF ls
    <2>2. ls \in Seq(Range(ls)) /\ Len(ls) = Len(Articles[id])
      BY <1>1, <2>1
    <2> QED BY <2>2 DEF IsSequence
  <1>3. \A i \in 1..Len(Articles[id]) :
           ls[i].text = Stuffed(Articles[id][i]) /\ "code" \notin DOMAIN ls[i]
    OBVIOUS
  <1>4. end.text = <<Dot>> /\ BodyOf(id) = ls \o <<end>> /\ "code" \notin DOMAIN end
    BY DEF BodyOf
  <1> HIDE DEF ls, end
  <1> PICK last : last = <<end>>
    OBVIOUS
  <1>5. IsSequence(last) /\ Len(last) = 1 /\ last[1] = end
    BY TupleSequences
  <1> PICK b : b = ls \o last
    OBVIOUS
  <1>6. /\ IsSequence(b) /\ Len(b) = Len(ls) + Len(last)
        /\ \A i \in 1..Len(ls) : b[i] = ls[i]
        /\ \A i \in 1..Len(last) : b[Len(ls) + i] = last[i]
    BY SMTT(30), <1>2, <1>5, ConcatElements
  <1>7. b[Len(Articles[id]) + 1] = end
    BY <1>2, <1>5, <1>6
  <1>8. \A i \in 1..Len(Articles[id]) :
           b[i].text = Stuffed(Articles[id][i]) /\ "code" \notin DOMAIN b[i]
    BY <1>2, <1>3, <1>6
  <1>10. ASSUME NEW i \in 1..(Len(Articles[id]) + 1) PROVE "code" \notin DOMAIN b[i]
    <2>1. i \in 1..Len(Articles[id]) \/ i = Len(Articles[id]) + 1
      BY <1>1
    <2> QED BY <1>4, <1>7, <1>8, <2>1
  <1>9. BodyOf(id) = b
    BY <1>4
  <1> QED BY <1>1, <1>2, <1>4, <1>5, <1>6, <1>7, <1>8, <1>9, <1>10

(* The last line of a body is too short to break off.                      *)
LEMMA TornBody ==
    ASSUME NEW id \in DOMAIN Articles, NEW i \in 1..(Len(Articles[id]) + 1),
           NEW t \in Torn(BodyOf(id)[i])
    PROVE  i \in 1..Len(Articles[id]) /\ Begun(t, Articles[id][i])
  <1> PICK line : line = BodyOf(id)[i]
    OBVIOUS
  <1>1. /\ Len(Articles[id]) \in Nat /\ "code" \notin DOMAIN line
        /\ i \in 1..Len(Articles[id]) => line.text = Stuffed(Articles[id][i])
        /\ i = Len(Articles[id]) + 1 => line.text = <<Dot>>
    BY BodyLines
  <1>2. PICK k \in 1..(Len(line.text) - 1) : t = SubSeq(line.text, 1, k)
    BY <1>1 DEF Torn
  <1>3. i # Len(Articles[id]) + 1
    <2>1. Len(<<Dot>>) = 1 /\ 1..(1 - 1) = {}
      OBVIOUS
    <2> QED BY <1>1, <1>2, <2>1
  <1>4. i \in 1..Len(Articles[id])
    BY <1>1, <1>3
  <1> QED BY <1>1, <1>2, <1>4 DEF Begun

(* A line of a body: the line itself, or the end of the article.           *)
LEMMA WholeLineStep ==
    ASSUME NntpShape, NntpLive, ~NntpOver, read_line, to_client # <<>>
    PROVE  NntpLive' /\ BodyIsTheArticle'
  <1>1. NntpReading /\ driver = "reading" /\ machine.outputs = <<>>
    <2>1. driver = "reading" /\ machine.state = "ReadingBody"
      BY DEF read_line
    <2> QED BY <2>1, NextOutput DEF NntpReading, NntpIdle, NntpCut
  <1>2. IsSequence(to_client) /\ IsSequence(lines)
    BY DEF NntpLive
  <1> PICK art : art = Articles[nntp_call.id]
    OBVIOUS
  <1> PICK body : body = BodyOf(nntp_call.id)
    OBVIOUS
  <1>3. /\ Len(art) \in Nat /\ IsSequence(art) /\ Len(body) = Len(art) + 1
        /\ \A i \in 1..Len(art) : body[i].text = Stuffed(art[i])
        /\ body[Len(art) + 1].text = <<Dot>>
    BY <1>1, BodyLines DEF NntpReading
  <1>4. \A i \in 1..Len(art) : IsSequence(art[i])
    <2>1. DOMAIN art = 1..Len(art)
      BY <1>1, NntpAssumption DEF NntpReading
    <2> QED BY <1>1, <2>1, NntpAssumption DEF NntpReading, IsSequence
  <1>5. /\ to_client # <<>> /\ to_client' = Tail(to_client) /\ BodyLine(Head(to_client).text)
        /\ UNCHANGED <<nntp_call, calls_left, to_server, open, torn, deflated, server>>
    BY DEF read_line
  <1>6. /\ IsSequence(to_client') /\ Len(to_client') = Len(to_client) - 1
        /\ Len(to_client) \in Nat \ {0} /\ Head(to_client) = to_client[1]
        /\ \A i \in 1..(Len(to_client) - 1) : to_client'[i] = to_client[i + 1]
    BY <1>2, <1>5, TailElements
  <1>7. /\ Len(lines) \in Nat /\ Len(lines) <= Len(art)
        /\ Len(lines) + Len(to_client) <= Len(art) + 1
    BY <1>1, <1>2, EmptyOrNot DEF NntpReading
  <1>8. /\ \A i \in 1..Len(lines) : lines[i] = art[i]
        /\ open => to_server = <<>> /\ Len(lines) + Len(to_client) = Len(art) + 1
    BY <1>1 DEF NntpReading
  <1>9. \A i \in 1..Len(to_client) : to_client[i] = body[i + Len(lines)]
    BY <1>1 DEF NntpReading
  <1>10. Head(to_client) = body[Len(lines) + 1]
    <2>1. 1 \in 1..Len(to_client) /\ 1 + Len(lines) = Len(lines) + 1
      BY <1>6, <1>7
    <2> QED BY <1>6, <1>9, <2>1
  <1>11. CASE Len(lines) = Len(art)
    <2>1. Head(to_client).text = <<Dot>>
      BY <1>3, <1>10, <1>11
    <2>2. machine' = [machine EXCEPT !.state = "Idle"] /\ driver' = "ready" /\ lines' = lines
      BY <1>5, <2>1 DEF BodyLine
    <2>3. /\ machine'.state = "Idle" /\ machine'.outputs = <<>>
          /\ machine'.current_group = machine.current_group
      BY <1>1, <2>2 DEF NntpShape, IsMachine
    <2>4. to_client' = <<>>
      <3>1. Len(to_client') = 0
        BY <1>6, <1>7, <1>11
      <3> QED BY <1>6, <3>1, EmptyOrNot
    <2>9. torn' = <<>>
      <3>1. Len(lines) + Len(to_client) + 1 \notin 1..Len(art)
        BY <1>3, <1>6, <1>7, <1>11
      <3> QED BY <1>1, <1>5, <3>1 DEF NntpReading, TornIn
    <2>5. NntpIdle'
      BY <1>1, <1>5, <1>8, <2>3, <2>4, <2>9 DEF NntpIdle, NntpReading, GroupAgrees, DeflateAgrees
    <2>6. lines = art
      BY <1>2, <1>3, <1>8, <1>11, SameElements
    <2>7. BodyIsTheArticle'
      BY <1>5, <2>2, <2>6 DEF BodyIsTheArticle
    <2>8. NntpLive'
      <3>1. IsSequence(to_client)' /\ IsSequence(lines)'
        BY <1>2, <1>6, <2>2 DEF IsSequence
      <3> QED BY <2>5, <3>1 DEF NntpLive
    <2> QED BY <2>7, <2>8
  <1>12. CASE Len(lines) # Len(art)
    <2>1. Len(lines) + 1 \in 1..Len(art)
      BY <1>3, <1>7, <1>12
    <2>2. Head(to_client).text = Stuffed(art[Len(lines) + 1])
      BY <1>3, <1>10, <2>1
    <2>3. Head(to_client).text # <<Dot>> /\ Unstuffed(Head(to_client).text) = art[Len(lines) + 1]
      BY <1>4, <2>1, <2>2, DotsComeAndGo
    <2>4. lines' = Append(lines, art[Len(lines) + 1]) /\ UNCHANGED <<machine, driver>>
      BY <1>5, <2>3 DEF BodyLine
    <2>5. /\ IsSequence(lines') /\ Len(lines') = Len(lines) + 1
          /\ \A i \in 1..Len(lines) : lines'[i] = lines[i]
          /\ lines'[Len(lines) + 1] = art[Len(lines) + 1]
      BY <1>2, <2>4, AppendElements
    <2>6. ASSUME NEW i \in 1..Len(lines') PROVE lines'[i] = art[i]
      <3>1. i \in 1..Len(lines) \/ i = Len(lines) + 1
        BY <1>7, <2>5
      <3> QED BY <1>8, <2>5, <3>1
    <2>7. ASSUME NEW i \in 1..Len(to_client') PROVE to_client'[i] = body[i + Len(lines')]
      <3>1. i \in 1..(Len(to_client) - 1) /\ i + 1 \in 1..Len(to_client)
        BY <1>6
      <3>2. (i + 1) + Len(lines) = i + Len(lines')
        BY <1>7, <2>5
      <3>3. to_client[i + 1] = body[(i + 1) + Len(lines)]
        BY <1>9, <3>1
      <3> QED BY <1>6, <3>1, <3>2, <3>3
    <2>8. /\ Len(lines') <= Len(art) /\ Len(lines') + Len(to_client') <= Len(art) + 1
          /\ open => to_server = <<>> /\ Len(lines') + Len(to_client') = Len(art) + 1
      <3>1. Len(lines') + Len(to_client') = Len(lines) + Len(to_client)
        BY <1>6, <1>7, <2>5
      <3>2. Len(lines') <= Len(art)
        BY <1>3, <2>1, <2>5
      <3> QED BY <1>7, <1>8, <3>1, <3>2
    <2>9. Articles[nntp_call'.id] = art /\ BodyOf(nntp_call.id)' = body
      BY <1>5 DEF BodyOf
    <2>10. GroupAgrees' /\ DeflateAgrees'
      BY <1>1, <1>5, <2>4 DEF NntpReading, GroupAgrees, DeflateAgrees
    <2>11. NntpReading'
      <3>1. /\ machine'.state = "ReadingBody" /\ driver' = "reading" /\ machine'.outputs = <<>>
            /\ nntp_call'.id \in DOMAIN Articles /\ open' = open /\ to_server' = to_server
        BY <1>1, <1>5, <2>4 DEF NntpReading
      <3>2. \A i \in 1..Len(lines') : lines'[i] = Articles[nntp_call'.id][i]
        BY <2>6, <2>9
      <3>3. \A i \in 1..Len(to_client') : to_client'[i] = BodyOf(nntp_call.id)'[i + Len(lines')]
        BY <2>7, <2>9
      <3>4. /\ Len(lines') <= Len(Articles[nntp_call'.id])
            /\ Len(lines') + Len(to_client') <= Len(Articles[nntp_call'.id]) + 1
            /\ open' => to_server' = <<>> /\ Len(lines') + Len(to_client') = Len(Articles[nntp_call'.id]) + 1
        BY <2>8, <2>9, <3>1
      <3>5. TornIn(Len(lines) + Len(to_client) + 1)'
        <4>1. Len(lines') + Len(to_client') + 1 = Len(lines) + Len(to_client) + 1
          BY <1>6, <1>7, <2>5
        <4>2. TornIn(Len(lines) + Len(to_client) + 1)
          BY <1>1 DEF NntpReading
        <4>3. nntp_call' = nntp_call /\ torn' = torn
          BY <1>5
        <4> QED BY <4>1, <4>2, <4>3 DEF TornIn
      <3> QED BY <2>10, <3>1, <3>2, <3>3, <3>4, <3>5, Zenon DEF NntpReading
    <2>12. BodyIsTheArticle'
      BY <1>1, <2>4 DEF BodyIsTheArticle
    <2>13. NntpLive'
      <3>1. IsSequence(to_client)' /\ IsSequence(lines)'
        BY <1>6, <2>5 DEF IsSequence
      <3> QED BY <2>11, <3>1 DEF NntpLive
    <2> QED BY <2>12, <2>13
  <1> QED BY <1>11, <1>12

(* A line that broke off: it may look like the end of the article.         *)
LEMMA TornLineStep ==
    ASSUME NntpShape, NntpLive, ~NntpOver, read_line, to_client = <<>>
    PROVE  NntpLive' /\ BodyIsTheArticle'
  <1>1. NntpReading /\ driver = "reading" /\ machine.outputs = <<>>
    <2>1. driver = "reading" /\ machine.state = "ReadingBody" /\ torn # <<>>
      BY DEF read_line
    <2> QED BY <2>1, NextOutput DEF NntpReading, NntpIdle, NntpCut
  <1>2. /\ torn # <<>> /\ torn' = <<>> /\ BodyLine(torn)
        /\ UNCHANGED <<nntp_call, calls_left, to_server, to_client, open, deflated, server>>
        /\ ~open /\ IsSequence(lines)
    BY DEF read_line, NntpShape, NntpLive
  <1> PICK art : art = Articles[nntp_call.id]
    OBVIOUS
  <1> PICK i : i = Len(lines) + 1
    OBVIOUS
  <1>3. /\ Len(art) \in Nat /\ IsSequence(art) /\ DOMAIN art = 1..Len(art)
    BY <1>1, BodyLines, NntpAssumption DEF NntpReading
  <1>4. Len(lines) \in Nat /\ \A j \in 1..Len(lines) : lines[j] = art[j]
    BY <1>1, <1>2, EmptyOrNot DEF NntpReading
  <1>5. i \in 1..Len(art) /\ Begun(torn, art[i])
    <2>1. Len(lines) + Len(to_client) + 1 = i
      BY <1>4
    <2> QED BY <1>1, <1>2, <2>1 DEF NntpReading, TornIn
  <1>6. IsSequence(art[i])
    BY <1>1, <1>3, <1>5, NntpAssumption DEF NntpReading, IsSequence
  <1>7. IsSequence(to_client)' /\ to_client' = <<>>
    BY <1>2 DEF NntpLive, IsSequence
  <1>8. CASE torn = <<Dot>>
    <2>1. machine' = [machine EXCEPT !.state = "Idle"] /\ driver' = "ready" /\ lines' = lines
      BY <1>2, <1>8 DEF BodyLine
    <2>2. /\ machine'.state = "Idle" /\ machine'.outputs = <<>>
          /\ machine'.current_group = machine.current_group
      BY <1>1, <2>1 DEF NntpShape, IsMachine
    <2>3. NntpIdle'
      BY <1>1, <1>2, <1>7, <2>2 DEF NntpIdle, NntpReading, GroupAgrees, DeflateAgrees
    <2>4. NntpLive'
      BY <1>2, <1>7, <2>1, <2>3 DEF NntpLive, IsSequence
    <2>5. art[i] # <<>> /\ art[i][1] = Dot
      BY <1>5, <1>6, <1>8, DotOfTwo
    <2>6. lines = SubSeq(art, 1, i - 1)
      <3> PICK front : front = SubSeq(art, 1, i - 1)
        OBVIOUS
      <3>1. i - 1 = Len(lines) /\ i - 1 \in 0..Len(art)
        BY <1>3, <1>4, <1>5
      <3>2. /\ IsSequence(front) /\ Len(front) = i - 1
            /\ \A j \in 1..(i - 1) : front[j] = art[j]
        BY <1>3, <3>1, PrefixElements
      <3> QED BY <1>2, <1>4, <3>1, <3>2, SameElements
    <2>7. CutAtDot(lines, art)
      BY <1>3, <1>5, <2>5, <2>6 DEF CutAtDot
    <2>8. BodyIsTheArticle'
      BY <1>2, <2>1, <2>7 DEF BodyIsTheArticle
    <2> QED BY <2>4, <2>8
  <1>9. CASE torn # <<Dot>>
    <2>1. lines' = Append(lines, Unstuffed(torn)) /\ UNCHANGED <<machine, driver>>
      BY <1>2, <1>9 DEF BodyLine
    <2>2. IsSequence(lines')
      BY <1>2, <2>1, AppendElements
    <2>3. NntpCut'
      BY <1>1, <1>2, <1>7, <2>1 DEF NntpCut, NntpReading
    <2>4. NntpLive'
      BY <1>7, <2>2, <2>3 DEF NntpLive, IsSequence
    <2>5. BodyIsTheArticle'
      BY <1>1, <2>1 DEF BodyIsTheArticle
    <2> QED BY <2>4, <2>5
  <1> QED BY <1>8, <1>9

LEMMA LineStep ==
    ASSUME NntpShape, NntpLive, ~NntpOver, read_line
    PROVE  NntpLive' /\ BodyIsTheArticle'
  BY WholeLineStep, TornLineStep

-----------------------------------------------------------------------------
(* The server's steps.  It appends an answer with a code; only one to BODY *)
(* has more than one line, and only GROUP and COMPRESS change what the     *)
(* client must know of.                                                    *)
AnswerIs(cmd, r) ==
    /\ \/ r.code # 222 /\ to_client' = to_client \o <<r>>
       \/ /\ r.code = 222 /\ cmd.verb = "BODY"
          /\ to_client' = to_client \o <<r>> \o BodyOf(cmd.arg)
    /\ IF cmd.verb = "GROUP" /\ r.code = 211 THEN server'.group = cmd.arg
       ELSE server'.group = server.group
    /\ IF cmd.verb = "COMPRESS" /\ r.code = 206 THEN server'.deflate = TRUE
       ELSE server'.deflate = server.deflate

LEMMA AnswerGiven ==
    ASSUME NntpShape, ServerAnswers
    PROVE  \E r : AnswerIs(Head(to_server), r)
  <1> DEFINE cmd == Head(to_server)
             R(code) == [to |-> cmd.verb, code |-> code, deflate |-> server.deflate]
             B == [to |-> "BODY", code |-> 222, deflate |-> server.deflate]
  <1>1. B.code = 222 /\ \A code : R(code).code = code
    OBVIOUS
  <1> DEFINE Sends(code, s) == to_client' = to_client \o <<R(code)>> /\ server' = s
  <1>4. \/ Sends(0, server) \/ Sends(500, server)
        \/ cmd.verb = "GROUP" /\ Sends(211, [server EXCEPT !.group = cmd.arg])
        \/ cmd.verb = "STAT" /\ \E code \in {223, 430} : Sends(code, server)
        \/ cmd.verb = "BODY" /\ \E code \in {430, 480} : Sends(code, server)
        \/ /\ cmd.verb = "BODY" /\ UNCHANGED server
           /\ to_client' = to_client \o <<B>> \o BodyOf(cmd.arg)
        \/ cmd.verb = "USER" /\ \E code \in {281, 381} :
              Sends(code, [server EXCEPT !.auth = code = 281])
        \/ cmd.verb = "PASS" /\ Sends(281, [server EXCEPT !.auth = TRUE])
        \/ cmd.verb = "STARTTLS" /\ Sends(382, server)
        \/ cmd.verb = "COMPRESS" /\ Sends(206, [server EXCEPT !.deflate = TRUE])
        \/ cmd.verb = "QUIT" /\ Sends(205, server)
    BY DEF ServerAnswers, Reply
  <1> HIDE DEF R, B, cmd
  <1>3. ASSUME NEW code, code # 222, server'.group = server.group,
               server'.deflate = server.deflate,
               to_client' = to_client \o <<R(code)>>,
               ~(cmd.verb = "GROUP" /\ code = 211), ~(cmd.verb = "COMPRESS" /\ code = 206)
        PROVE  AnswerIs(cmd, R(code))
    BY <1>1, <1>3 DEF AnswerIs
  <1>5. ASSUME NEW code \in {0, 500, 223, 430, 480, 382, 205}, Sends(code, server)
        PROVE  AnswerIs(cmd, R(code))
    BY <1>3, <1>5
  <1>6. CASE cmd.verb = "GROUP" /\ Sends(211, [server EXCEPT !.group = cmd.arg])
    <2>1. server'.group = cmd.arg /\ server'.deflate = server.deflate
      BY <1>6 DEF NntpShape
    <2>2. AnswerIs(cmd, R(211))
      BY <1>1, <1>6, <2>1 DEF AnswerIs
    <2> QED BY <2>2 DEF cmd
  <1>7. CASE /\ cmd.verb = "BODY" /\ UNCHANGED server
             /\ to_client' = to_client \o <<B>> \o BodyOf(cmd.arg)
    <2>1. AnswerIs(cmd, B)
      BY <1>1, <1>7 DEF AnswerIs
    <2> QED BY <2>1 DEF cmd
  <1>8. ASSUME NEW code \in {281, 381}, to_client' = to_client \o <<R(code)>>,
               server' = [server EXCEPT !.auth = TRUE] \/ server' = [server EXCEPT !.auth = FALSE]
        PROVE  AnswerIs(cmd, R(code))
    <2>1. server'.group = server.group /\ server'.deflate = server.deflate
      BY <1>8 DEF NntpShape
    <2> QED BY <1>3, <1>8, <2>1
  <1>9. CASE cmd.verb = "COMPRESS" /\ Sends(206, [server EXCEPT !.deflate = TRUE])
    <2>1. server'.group = server.group /\ server'.deflate = TRUE
      BY <1>9 DEF NntpShape
    <2>2. AnswerIs(cmd, R(206))
      <3>1. R(206).code # 222 /\ R(206).code = 206 /\ cmd.verb # "GROUP" /\ R(206).code # 211
        BY <1>1, <1>9
      <3>2. to_client' = to_client \o <<R(206)>>
        BY <1>9
      <3> QED BY <1>9, <2>1, <3>1, <3>2, Zenon DEF AnswerIs
    <2> QED BY <2>2 DEF cmd
  <1>10. (\E r : AnswerIs(cmd, r)) => \E r : AnswerIs(Head(to_server), r)
    BY DEF cmd
  <1>13. ASSUME NEW code \in {281, 381}, Sends(code, [server EXCEPT !.auth = code = 281])
         PROVE  \E r : AnswerIs(Head(to_server), r)
    <2>1. code = 281 => (code = 281) = TRUE
      OBVIOUS
    <2>2. code # 281 => (code = 281) = FALSE
      OBVIOUS
    <2>3. AnswerIs(cmd, R(code))
      BY ZenonT(60), <1>8, <1>13, <2>1, <2>2
    <2> QED BY <1>10, <2>3
  <1>14. CASE Sends(281, [server EXCEPT !.auth = TRUE])
    BY <1>8, <1>10, <1>14
  <1> HIDE DEF Sends
  <1>11. CASE \E code \in {0, 500, 223, 430, 480, 382, 205} : Sends(code, server)
    BY <1>5, <1>10, <1>11
  <1>15. CASE \E code \in {281, 381} : Sends(code, [server EXCEPT !.auth = code = 281])
    BY <1>13, <1>15
  <1>16. \/ \E code \in {0, 500, 223, 430, 480, 382, 205} : Sends(code, server)
         \/ cmd.verb = "GROUP" /\ Sends(211, [server EXCEPT !.group = cmd.arg])
         \/ /\ cmd.verb = "BODY" /\ UNCHANGED server
            /\ to_client' = to_client \o <<B>> \o BodyOf(cmd.arg)
         \/ \E code \in {281, 381} : Sends(code, [server EXCEPT !.auth = code = 281])
         \/ Sends(281, [server EXCEPT !.auth = TRUE])
         \/ cmd.verb = "COMPRESS" /\ Sends(206, [server EXCEPT !.deflate = TRUE])
    BY SMTT(30), <1>4
  <1>17. cmd.verb = "GROUP" /\ Sends(211, [server EXCEPT !.group = cmd.arg])
            => \E r : AnswerIs(Head(to_server), r)
    BY <1>6
  <1>18. cmd.verb = "BODY" /\ server' = server
            /\ to_client' = to_client \o <<B>> \o BodyOf(cmd.arg)
            => \E r : AnswerIs(Head(to_server), r)
    BY <1>7
  <1>19. cmd.verb = "COMPRESS" /\ Sends(206, [server EXCEPT !.deflate = TRUE])
            => \E r : AnswerIs(Head(to_server), r)
    BY <1>9
  <1>20. Sends(281, [server EXCEPT !.auth = TRUE])
            => \E r : AnswerIs(Head(to_server), r)
    BY <1>14
  <1> QED BY <1>11, <1>15, <1>16, <1>17, <1>18, <1>19, <1>20, Zenon

(* A body that follows n lines is answered after them.                     *)
LEMMA BodyAnswered ==
    ASSUME NEW n \in Nat, BodyFollows(n), open, to_server # <<>>, IsSequence(to_client),
           nntp_call.id \in DOMAIN Articles,
           UNCHANGED <<nntp_call, open>>, to_server' = Tail(to_server), torn' = <<>>,
           NEW r, AnswerIs(Head(to_server), r)
    PROVE  /\ BodyFollows(n)' /\ IsSequence(to_client') /\ Len(to_client) = n
           /\ Len(to_client') > n
           /\ \A i \in 1..n : to_client'[i] = to_client[i]
           /\ server'.group = server.group /\ server'.deflate = server.deflate
  <1>1. Len(to_client) = n /\ to_server = <<AskBody>>
    BY DEF BodyFollows
  <1>2. Head(to_server) = AskBody /\ to_server' = <<>>
    BY <1>1, Tuples
  <1>3. AskBody.verb = "BODY" /\ AskBody.arg = nntp_call.id
    BY Kinds DEF AskBody
  <1>4. /\ server'.group = server.group /\ server'.deflate = server.deflate
        /\ \/ r.code # 222 /\ to_client' = to_client \o <<r>>
           \/ r.code = 222 /\ to_client' = to_client \o <<r>> \o BodyOf(nntp_call.id)
    BY <1>2, <1>3 DEF AnswerIs
  <1> DEFINE More(t) == to_client \o <<r>> \o t
  <1>8. ASSUME NEW t, IsSequence(t)
        PROVE  /\ IsSequence(More(t)) /\ Len(More(t)) = n + 1 + Len(t)
               /\ \A i \in 1..n : More(t)[i] = to_client[i]
               /\ More(t)[n + 1] = r
    BY <1>1, <1>8, OneAndOthersMore
  <1>9. ASSUME NEW t, IsSequence(t)
        PROVE  \A i \in (n + 2)..Len(More(t)) : More(t)[i] = t[i - n - 1]
    BY <1>1, <1>9, OneAndOthersMore
  <1>6. CASE r.code # 222 /\ to_client' = to_client \o <<r>>
    <2>1. /\ IsSequence(to_client') /\ Len(to_client') = n + 1
          /\ \A i \in 1..n : to_client'[i] = to_client[i]
          /\ to_client'[n + 1] = r
      <3>1. /\ IsSequence(to_client') /\ Len(to_client') = Len(to_client) + 1
            /\ \A i \in 1..Len(to_client) : to_client'[i] = to_client[i]
            /\ to_client'[Len(to_client) + 1] = r
        <4> DEFINE more == to_client \o <<r>>
        <4>1. /\ IsSequence(more) /\ Len(more) = Len(to_client) + 1
              /\ \A i \in 1..Len(to_client) : more[i] = to_client[i]
              /\ more[Len(to_client) + 1] = r
          BY OneElementMore
        <4>2. to_client' = more
          BY <1>6
        <4> HIDE DEF more
        <4> QED BY <4>1, <4>2
      <3> QED BY <1>1, <3>1
    <2>2. to_client'[n + 1].code # 222
      BY <1>6, <2>1, Zenon
    <2>3. BodyFollows(n)'
      BY <1>2, <2>1, <2>2, torn' = <<>>, Zenon DEF BodyFollows
    <2>4. Len(to_client') > n
      BY <2>1
    <2> QED BY <1>1, <1>4, <2>1, <2>3, <2>4
  <1>7. CASE r.code = 222 /\ to_client' = to_client \o <<r>> \o BodyOf(nntp_call.id)
    <2> PICK body : body = BodyOf(nntp_call.id)
      OBVIOUS
    <2>1. /\ Len(Articles[nntp_call.id]) \in Nat /\ IsSequence(body)
          /\ Len(body) = Len(Articles[nntp_call.id]) + 1
      BY BodyLines
    <2>2. /\ IsSequence(to_client') /\ Len(to_client') = n + 1 + Len(body)
          /\ \A i \in 1..n : to_client'[i] = to_client[i]
          /\ to_client'[n + 1] = r
          /\ \A i \in (n + 2)..Len(to_client') : to_client'[i] = body[i - n - 1]
      <3>1. /\ IsSequence(More(body)) /\ Len(More(body)) = n + 1 + Len(body)
            /\ \A i \in 1..n : More(body)[i] = to_client[i]
            /\ More(body)[n + 1] = r
        BY <1>8, <2>1
      <3>2. \A i \in (n + 2)..Len(More(body)) : More(body)[i] = body[i - n - 1]
        BY <1>9, <2>1
      <3> DEFINE more == More(body)
      <3>3. to_client' = more
        BY <1>7
      <3> HIDE DEF more, More
      <3>4. /\ IsSequence(more) /\ Len(more) = n + 1 + Len(body)
            /\ \A i \in 1..n : more[i] = to_client[i]
            /\ more[n + 1] = r /\ \A i \in (n + 2)..Len(more) : more[i] = body[i - n - 1]
        BY <3>1, <3>2 DEF more
      <3> QED BY <3>3, <3>4
    <2>7. /\ Len(to_client') > n /\ Len(to_client') - n = Len(Articles[nntp_call.id]) + 2
          /\ Len(to_client') - n <= Len(Articles[nntp_call.id]) + 2
      <3>1. Len(to_client') = n + 1 + Len(body)
        BY <2>2
      <3>2. Len(body) \in Nat
        BY <2>1
      <3>3. \A k \in Nat : n + 1 + k > n /\ (n + 1 + k) - n = k + 1
        OBVIOUS
      <3>4. \A a \in Nat : a + 1 + 1 = a + 2 /\ a + 2 <= a + 2
        OBVIOUS
      <3>5. Len(to_client') > n /\ Len(to_client') - n = Len(body) + 1
        BY <3>1, <3>2, <3>3
      <3>6. Len(body) + 1 = Len(Articles[nntp_call.id]) + 2
        BY <2>1, <3>4
      <3> QED BY <2>1, <3>4, <3>5, <3>6
    <2>8. BodyOf(nntp_call.id)' = body /\ nntp_call'.id = nntp_call.id
      BY DEF BodyOf
    <2>9. BodyFollows(n)'
      <3>1. \A i \in (n + 2)..Len(to_client') : to_client'[i] = BodyOf(nntp_call.id)'[i - n - 1]
        BY <2>2, <2>8
      <3>2. /\ Len(to_client') > n /\ Len(to_client') - n = Len(Articles[nntp_call'.id]) + 2
            /\ Len(to_client') - n <= Len(Articles[nntp_call'.id]) + 2
        BY <2>7, <2>8
      <3>3. to_client'[n + 1].code = 222
        BY <1>7, <2>2, Zenon
      <3>4. TornIn(Len(to_client) - n)'
        BY DEF TornIn
      <3> QED BY <1>2, <3>1, <3>2, <3>3, <3>4, Zenon DEF BodyFollows
    <2> QED BY <1>1, <1>4, <2>2, <2>7, <2>9
  <1> QED BY <1>4, <1>6, <1>7

(* An answer to the only command, or to the first of two.                  *)
LEMMA FirstAnswer ==
    ASSUME to_client = <<>>, GroupAgrees, DeflateAgrees, UNCHANGED <<machine, deflated, open>>,
           NEW cmd, NEW r, AnswerIs(cmd, r), cmd.verb # "BODY",
           cmd.verb = "GROUP" <=> machine.state \in {"AwaitGroup", "AwaitPipelinedGroupResponse"},
           cmd.verb = "GROUP" => cmd.arg = machine.pending_group,
           cmd.verb = "COMPRESS" <=> machine.state = "AwaitCompressResponse"
    PROVE  /\ IsSequence(to_client') /\ Len(to_client') = 1 /\ to_client' # <<>>
           /\ AgreesAfter(to_client[1].code)'
  <1>1. r.code # 222 /\ to_client' = to_client \o <<r>>
    BY DEF AnswerIs
  <1>2. /\ IsSequence(to_client') /\ Len(to_client') = 1 /\ to_client'[1] = r
    <2>1. to_client' = <<>> \o <<r>>
      BY <1>1, Zenon
    <2>2. <<>> \o <<r>> = <<r>>
      BY EmptyBefore, TupleSequences, Zenon
    <2>3. to_client' = <<r>>
      BY <2>1, <2>2, Zenon
    <2> QED BY <2>3, TupleSequences
  <1>3. to_client' # <<>>
    BY <1>2, EmptyOrNot
  <1>4. to_client'[1].code = r.code
    BY <1>2
  <1>5. CASE cmd.verb = "GROUP" /\ r.code = 211
    <2>1. server'.group = machine'.pending_group /\ DeflateAgrees'
      BY <1>5 DEF AnswerIs, DeflateAgrees
    <2>2. machine'.state \in {"AwaitGroup", "AwaitPipelinedGroupResponse"}
      BY <1>5
    <2> QED BY <1>2, <1>3, <1>4, <1>5, <2>1, <2>2 DEF AgreesAfter
  <1>6. CASE cmd.verb = "COMPRESS" /\ r.code = 206
    <2>1. server'.deflate = TRUE /\ GroupAgrees'
      BY <1>6 DEF AnswerIs, GroupAgrees
    <2>2. machine'.state = "AwaitCompressResponse"
      BY <1>6
    <2> QED BY <1>2, <1>3, <1>4, <1>6, <2>1, <2>2 DEF AgreesAfter
  <1>7. CASE ~(cmd.verb = "GROUP" /\ r.code = 211) /\ ~(cmd.verb = "COMPRESS" /\ r.code = 206)
    <2>1. server'.group = server.group /\ server'.deflate = server.deflate
      BY <1>7 DEF AnswerIs
    <2>2. GroupAgrees' /\ DeflateAgrees'
      BY <2>1 DEF GroupAgrees, DeflateAgrees
    <2>3. /\ ~(machine'.state \in {"AwaitGroup", "AwaitPipelinedGroupResponse"} /\ r.code = 211)
          /\ ~(machine'.state = "AwaitCompressResponse" /\ r.code = 206)
      BY <1>7
    <2> QED BY <1>2, <1>3, <1>4, <2>2, <2>3 DEF AgreesAfter
  <1> QED BY <1>5, <1>6, <1>7

LEMMA AnswerStep ==
    ASSUME NntpShape, NntpLive, ~NntpOver, ServerAnswers
    PROVE  NntpLive'
  <1>1. /\ open /\ to_server # <<>> /\ to_server' = Tail(to_server)
        /\ torn = <<>> /\ torn' = <<>>
        /\ UNCHANGED <<machine, driver, nntp_call, lines, calls_left, open, deflated>>
    BY DEF ServerAnswers, NntpShape
  <1>2. PICK r : AnswerIs(Head(to_server), r)
    BY AnswerGiven
  <1>3. IsSequence(to_client) /\ IsSequence(lines) /\ IsSequence(lines)'
    BY <1>1 DEF NntpLive, IsSequence
  <1>4. CASE NntpPlain
    <2>1. PICK cmd : /\ cmd.verb = VerbOf(machine.state) /\ machine.state # "AwaitGreeting"
                     /\ cmd.kind = "SendCommand"
                     /\ machine.state = "AwaitGroup" => cmd.arg = nntp_call.group
                     /\ machine.outputs = <<Prompt>> /\ Asked(<<cmd>>)
      BY <1>1, <1>4 DEF NntpPlain, Unsent, Answered, Lost
    <2>2. /\ Head(to_server) = cmd /\ to_server' = <<>> /\ to_client = <<>>
          /\ GroupAgrees /\ DeflateAgrees
      BY <1>1, <2>1, Tuples DEF Asked
    <2>3. /\ machine.state \in PlainStates
          /\ machine.state = "AwaitGroup" => machine.pending_group = nntp_call.group
      BY <1>4 DEF NntpPlain
    <2>4. /\ cmd.verb # "BODY"
          /\ cmd.verb = "GROUP" <=> machine.state \in {"AwaitGroup", "AwaitPipelinedGroupResponse"}
          /\ cmd.verb = "COMPRESS" <=> machine.state = "AwaitCompressResponse"
      BY <2>1, <2>3 DEF VerbOf, PlainStates
    <2>5. cmd.verb = "GROUP" => cmd.arg = machine.pending_group
      BY <2>1, <2>3, <2>4 DEF PlainStates
    <2>6. /\ IsSequence(to_client') /\ Len(to_client') = 1 /\ AgreesAfter(to_client[1].code)'
      BY <1>1, <1>2, <2>2, <2>4, <2>5, FirstAnswer
    <2>7. Answered'
      BY <1>1, <2>2, <2>6 DEF Answered
    <2>8. NntpPlain'
      BY <1>1, <1>4, <2>1, <2>7 DEF NntpPlain
    <2>9. IsSequence(to_client)'
      BY <2>6 DEF IsSequence
    <2> QED BY <1>3, <2>8, <2>9 DEF NntpLive
  <1>5. CASE NntpBody
    <2>1. /\ BodyFollows(0) /\ nntp_call.id \in DOMAIN Articles /\ GroupAgrees /\ DeflateAgrees
          /\ \/ machine.outputs = <<Prompt>>
             \/ machine.outputs = <<Event("GroupJoined"), Prompt>> /\ driver = "pipelined"
      BY <1>1, <1>5 DEF NntpBody, Unsent
    <2>2. /\ BodyFollows(0)' /\ IsSequence(to_client')
          /\ server'.group = server.group /\ server'.deflate = server.deflate
      BY <1>1, <1>2, <1>3, <2>1, BodyAnswered
    <2>3. NntpBody'
      BY <1>1, <1>5, <2>1, <2>2 DEF NntpBody, GroupAgrees, DeflateAgrees
    <2>4. IsSequence(to_client)'
      BY <2>2 DEF IsSequence
    <2> QED BY <1>3, <2>3, <2>4 DEF NntpLive
  <1>6. CASE NntpPipelined
    <2>1. /\ machine.state = "AwaitPipelinedGroupResponse" /\ driver = "pipelined"
          /\ nntp_call.id \in DOMAIN Articles
          /\ machine.pending_group = nntp_call.group /\ lines = <<>>
      BY <1>6 DEF NntpPipelined
    <2>2. /\ AskGroup.verb = "GROUP" /\ AskGroup.arg = nntp_call.group
          /\ AskBody' = AskBody /\ AskGroup' = AskGroup /\ Prompt' = Prompt
      BY <1>1, Kinds DEF AskGroup, AskBody, Prompt
    <2>3. ASSUME Head(to_server) = AskGroup, to_client = <<>>, GroupAgrees, DeflateAgrees
          PROVE  /\ IsSequence(to_client') /\ Len(to_client') = 1 /\ to_client' # <<>>
                 /\ AgreesAfter(to_client[1].code)'
      <3> PICK cmd : cmd = AskGroup
        OBVIOUS
      <3>1. /\ cmd.verb = "GROUP" /\ cmd.arg = machine.pending_group /\ AnswerIs(cmd, r)
        BY <1>2, <2>1, <2>2, <2>3
      <3>2. /\ cmd.verb # "BODY"
            /\ cmd.verb = "GROUP" <=> machine.state \in {"AwaitGroup", "AwaitPipelinedGroupResponse"}
            /\ cmd.verb = "COMPRESS" <=> machine.state = "AwaitCompressResponse"
        BY <2>1, <3>1
      <3> QED BY <1>1, <2>3, <3>1, <3>2, FirstAnswer
    <2>4. CASE machine.outputs = <<AskBody, Prompt>> /\ Asked(<<AskGroup>>)
      <3>1. Head(to_server) = AskGroup /\ to_server' = <<>>
        BY <1>1, <2>4, Tuples DEF Asked
      <3>2. /\ IsSequence(to_client') /\ Len(to_client') = 1 /\ AgreesAfter(to_client[1].code)'
        BY <2>3, <2>4, <3>1 DEF Asked
      <3>3. Answered'
        BY <1>1, <3>1, <3>2 DEF Answered
      <3>4. NntpPipelined'
        BY <1>1, <2>1, <2>2, <2>4, <3>3 DEF NntpPipelined
      <3>5. IsSequence(to_client)'
        BY <3>2 DEF IsSequence
      <3> QED BY <1>3, <3>4, <3>5 DEF NntpLive
    <2>5. CASE machine.outputs = <<Prompt>> /\ Asked(<<AskGroup, AskBody>>)
      <3>1. Head(to_server) = AskGroup /\ to_server' = <<AskBody>>
        BY <1>1, <2>5, Tuples DEF Asked
      <3>2. /\ IsSequence(to_client') /\ Len(to_client') = 1 /\ to_client' # <<>>
            /\ AgreesAfter(to_client[1].code)'
        BY <2>3, <2>5, <3>1 DEF Asked
      <3>3. BodyFollows(1)'
        BY <2>2, <3>1, <3>2 DEF BodyFollows
      <3>4. NntpPipelined'
        BY <1>1, <2>1, <2>2, <2>5, <3>2, <3>3 DEF NntpPipelined
      <3>5. IsSequence(to_client)'
        BY <3>2 DEF IsSequence
      <3> QED BY <1>3, <3>4, <3>5 DEF NntpLive
    <2>6. CASE /\ machine.outputs = <<Prompt>> /\ to_client # <<>>
               /\ AgreesAfter(to_client[1].code) /\ BodyFollows(1)
      <3>1. /\ BodyFollows(1)' /\ IsSequence(to_client') /\ Len(to_client) = 1
            /\ Len(to_client') > 1
            /\ \A i \in 1..1 : to_client'[i] = to_client[i]
            /\ server'.group = server.group /\ server'.deflate = server.deflate
        BY <1>1, <1>2, <1>3, <2>1, <2>6, BodyAnswered
      <3>2. to_client'[1] = to_client[1]
        BY <3>1
      <3>3. to_client' # <<>>
        BY <3>1, EmptyOrNot
      <3>4. to_client[1].code' = to_client[1].code
        BY <3>2
      <3>5. AgreesAfter(to_client[1].code)'
        BY <1>1, <2>6, <3>1, <3>4 DEF AgreesAfter, GroupAgrees, DeflateAgrees
      <3>6. NntpPipelined'
        BY <1>1, <2>1, <2>2, <2>6, <3>1, <3>3, <3>5 DEF NntpPipelined
      <3>7. IsSequence(to_client)'
        BY <3>1 DEF IsSequence
      <3> QED BY <1>3, <3>6, <3>7 DEF NntpLive
    <2> QED BY <1>1, <1>6, <2>4, <2>5, <2>6 DEF NntpPipelined, Unsent, Answered, Lost
  <1>7. CASE NntpReading \/ NntpIdle \/ NntpUpgrading \/ NntpCut
    BY <1>1, <1>7 DEF NntpReading, NntpIdle, NntpUpgrading, NntpCut
  <1> QED BY <1>4, <1>5, <1>6, <1>7 DEF NntpLive

LEMMA BodyBreaksOff ==
    ASSUME NEW n \in Nat, BodyFollows(n), IsSequence(to_client), nntp_call.id \in DOMAIN Articles,
           UNCHANGED nntp_call, open' = FALSE, NEW k \in n..Len(to_client),
           to_client' = SubSeq(to_client, 1, k),
           torn' = <<>> \/ (k < Len(to_client) /\ torn' \in Torn(to_client[k + 1]))
    PROVE  BodyFollows(n)'
  <1>1. Len(to_client) \in Nat /\ Len(Articles[nntp_call.id]) \in Nat
    BY EmptyOrNot, BodyLines
  <1>2. k \in 0..Len(to_client)
    BY <1>1
  <1>3. Len(to_client') = k /\ \A i \in 1..k : to_client'[i] = to_client[i]
    BY <1>2, PrefixElements
  <1>4. CASE k = n
    BY <1>3, <1>4 DEF BodyFollows
  <1>5. CASE k # n
    <2>1. n + 1 \in 1..k /\ Len(to_client) > n /\ k > n
      BY <1>1, <1>5
    <2>2. to_client'[n + 1] = to_client[n + 1]
      BY <1>3, <2>1
    <2>3. CASE Len(to_client) = n + 1 /\ to_client[n + 1].code # 222
      <3>1. k = n + 1
        BY <1>1, <1>5, <2>3
      <3>2. Len(to_client') = n + 1 /\ to_client'[n + 1].code # 222
        BY <1>3, <2>2, <2>3, <3>1, Zenon
      <3>3. torn' = <<>>
        BY <1>1, <2>3, <3>1
      <3> QED BY <3>2, <3>3, Zenon DEF BodyFollows
    <2>4. CASE /\ to_client[n + 1].code = 222
               /\ Len(to_client) - n <= Len(Articles[nntp_call.id]) + 2
               /\ \A i \in (n + 2)..Len(to_client) :
                     to_client[i] = BodyOf(nntp_call.id)[i - n - 1]
      <3>1. ASSUME NEW i \in (n + 2)..k PROVE to_client'[i] = BodyOf(nntp_call.id)[i - n - 1]
        <4>1. i \in 1..k /\ i \in (n + 2)..Len(to_client)
          BY <1>1
        <4> QED BY <1>3, <2>4, <4>1
      <3>2. k - n <= Len(Articles[nntp_call.id]) + 2
        BY <1>1, <2>4
      <3>3. BodyOf(nntp_call.id)' = BodyOf(nntp_call.id) /\ nntp_call'.id = nntp_call.id
        BY DEF BodyOf
      <3>4. /\ Len(to_client') > n /\ to_client'[n + 1].code = 222
            /\ Len(to_client') - n <= Len(Articles[nntp_call'.id]) + 2
        <4>1. to_client'[n + 1].code = 222
          BY <2>2, <2>4, Zenon
        <4> QED BY <1>3, <2>1, <3>2, <3>3, <4>1
      <3>5. \A i \in (n + 2)..Len(to_client') : to_client'[i] = BodyOf(nntp_call.id)'[i - n - 1]
        BY <1>3, <3>1, <3>3
      <3>6. ~open'
        OBVIOUS
      <3>7. TornIn(Len(to_client) - n)'
        <4>1. CASE torn' = <<>>
          BY <4>1 DEF TornIn
        <4>2. CASE k < Len(to_client) /\ torn' \in Torn(to_client[k + 1])
          <5>1. k + 1 \in (n + 2)..Len(to_client) /\ (k + 1) - n - 1 = k - n /\ k - n \in Nat \ {0}
            BY <1>1, <2>1, <4>2
          <5>2. to_client[k + 1] = BodyOf(nntp_call.id)[k - n]
            BY <2>4, <5>1
          <5>3. k - n \in 1..(Len(Articles[nntp_call.id]) + 1)
            BY <1>1, <2>4, <4>2, <5>1
          <5>4. k - n \in 1..Len(Articles[nntp_call.id]) /\ Begun(torn', Articles[nntp_call.id][k - n])
            BY <4>2, <5>2, <5>3, TornBody
          <5>5. Len(to_client') - n = k - n
            BY <1>3
          <5> QED BY <3>3, <5>4, <5>5 DEF TornIn
        <4> QED BY <4>1, <4>2
      <3> QED BY <3>4, <3>5, <3>6, <3>7, Zenon DEF BodyFollows
    <2> QED BY <1>1, <2>1, <2>3, <2>4 DEF BodyFollows
  <1> QED BY <1>4, <1>5

LEMMA CloseStep ==
    ASSUME NntpShape, NntpLive, ~NntpOver, ServerCloses
    PROVE  NntpLive'
  <1>1. /\ open /\ open' = FALSE /\ torn = <<>>
        /\ UNCHANGED <<machine, driver, nntp_call, lines, calls_left, to_server, deflated, server>>
    BY DEF ServerCloses, NntpShape
  <1>2. PICK k \in 0..Len(to_client) :
           /\ to_client' = SubSeq(to_client, 1, k)
           /\ torn' = <<>> \/ (k < Len(to_client) /\ torn' \in Torn(to_client[k + 1]))
    BY <1>1 DEF ServerCloses
  <1>3. IsSequence(to_client) /\ IsSequence(lines)
    BY DEF NntpLive
  <1>4. /\ IsSequence(to_client') /\ Len(to_client') = k
        /\ \A i \in 1..k : to_client'[i] = to_client[i]
    BY <1>2, <1>3, PrefixElements
  <1>5. IsSequence(to_client)' /\ IsSequence(lines)'
    BY <1>1, <1>3, <1>4 DEF IsSequence
  <1>6. Len(to_client) \in Nat /\ (Len(to_client) = 0 <=> to_client = <<>>)
    BY <1>3, EmptyOrNot
  <1>7. k = 0 <=> to_client' = <<>>
    BY <1>4, EmptyOrNot
  <1>8. to_client = <<>> => to_client' = <<>>
    BY <1>6, <1>7
  <1>9. (GroupAgrees => GroupAgrees') /\ (DeflateAgrees => DeflateAgrees')
    BY <1>1 DEF GroupAgrees, DeflateAgrees
  <1>10. Unsent => Unsent'
    BY <1>1, <1>8, <1>9 DEF Unsent
  <1>11. k = 0 /\ (machine.state = "AwaitCompressResponse" => GroupAgrees) => Lost'
    BY <1>1, <1>7 DEF Lost, GroupAgrees
  <1>12. \A cmds : Asked(cmds) => Lost'
    BY <1>1, <1>8 DEF Asked, Lost, GroupAgrees
  <1>23. Lost => Lost'
    BY <1>1 DEF Lost
  <1>13. ASSUME k > 0, NEW code, to_client[1].code = code, AgreesAfter(code)
         PROVE  AgreesAfter(to_client[1].code)'
    <2>1. to_client'[1].code = code
      BY <1>4, <1>13
    <2> QED BY <1>1, <1>13, <2>1 DEF AgreesAfter, GroupAgrees, DeflateAgrees
  <1>14. Answered => Answered' \/ Lost'
    <2>1. CASE Answered /\ k = 0
      <3>1. machine.state = "AwaitCompressResponse" => GroupAgrees
        BY <2>1 DEF Answered, AgreesAfter
      <3> QED BY <1>11, <2>1, <3>1
    <2>2. CASE Answered /\ k # 0
      <3>1. k = 1
        BY <1>6, <2>2 DEF Answered
      <3>2. torn' = <<>>
        BY <1>2, <2>2, <3>1 DEF Answered
      <3> QED BY <1>1, <1>4, <1>13, <2>2, <3>1, <3>2 DEF Answered
    <2> QED BY <2>1, <2>2
  <1>15. /\ Prompt' = Prompt /\ BodyPrompt' = BodyPrompt /\ AskBody' = AskBody /\ AskGroup' = AskGroup
         /\ BodyOf(nntp_call.id)' = BodyOf(nntp_call.id)
    BY <1>1 DEF Prompt, BodyPrompt, AskBody, AskGroup, BodyOf
  <1>16. CASE NntpPlain
    <2>1. NntpPlain'
      BY <1>1, <1>10, <1>12, <1>14, <1>15, <1>16, <1>23 DEF NntpPlain
    <2> QED BY <1>5, <2>1 DEF NntpLive
  <1>17. CASE NntpBody
    <2>1. BodyFollows(0) => BodyFollows(0)'
      BY <1>1, <1>2, <1>3, <1>17, BodyBreaksOff DEF NntpBody
    <2>2. NntpBody'
      BY <1>1, <1>9, <1>10, <1>15, <1>17, <2>1 DEF NntpBody
    <2> QED BY <1>5, <2>2 DEF NntpLive
  <1>18. CASE NntpPipelined
    <2>1. /\ machine.state = "AwaitPipelinedGroupResponse" /\ driver = "pipelined"
          /\ nntp_call.id \in DOMAIN Articles
          /\ machine.pending_group = nntp_call.group /\ lines = <<>>
      BY <1>18 DEF NntpPipelined
    <2>2. CASE machine.outputs = <<AskGroup, AskBody, Prompt>> /\ Unsent
      <3>1. NntpPipelined'
        BY <1>1, <1>10, <1>15, <2>1, <2>2 DEF NntpPipelined
      <3> QED BY <1>5, <3>1 DEF NntpLive
    <2>3. CASE machine.outputs = <<AskBody, Prompt>> /\ (Asked(<<AskGroup>>) \/ Answered \/ Lost)
      <3>1. NntpPipelined'
        BY <1>1, <1>12, <1>14, <1>15, <1>23, <2>1, <2>3 DEF NntpPipelined
      <3> QED BY <1>5, <3>1 DEF NntpLive
    <2>4. CASE machine.outputs = <<Prompt>> /\ (Lost' \/ Lost)
      <3>1. NntpPipelined'
        BY <1>1, <1>15, <1>23, <2>1, <2>4 DEF NntpPipelined
      <3> QED BY <1>5, <3>1 DEF NntpLive
    <2>5. CASE /\ machine.outputs = <<Prompt>> /\ k > 0
               /\ AgreesAfter(to_client[1].code) /\ BodyFollows(1)
      <3>1. k \in 1..Len(to_client)
        BY <1>6, <2>5
      <3>2. BodyFollows(1)'
        BY <1>1, <1>2, <1>3, <2>1, <2>5, <3>1, BodyBreaksOff
      <3>3. AgreesAfter(to_client[1].code)' /\ to_client' # <<>>
        BY <1>7, <1>13, <2>5, <3>1
      <3>4. NntpPipelined'
        BY <1>1, <1>15, <2>1, <2>5, <3>2, <3>3 DEF NntpPipelined
      <3> QED BY <1>5, <3>4 DEF NntpLive
    <2>6. k = 0 \/ k > 0
      BY <1>6
    <2>7. k = 0 => Lost'
      BY <1>11, <2>1
    <2> QED BY <1>12, <1>18, <2>2, <2>3, <2>4, <2>5, <2>6, <2>7 DEF NntpPipelined
  <1>19. CASE NntpReading
    <2>1. Len(lines) \in Nat /\ Len(Articles[nntp_call.id]) \in Nat /\ Len(to_client') <= Len(to_client)
      BY <1>3, <1>4, <1>6, <1>19, EmptyOrNot, BodyLines DEF NntpReading
    <2>2. Len(lines') + Len(to_client') <= Len(Articles[nntp_call'.id]) + 1
      BY <1>1, <1>4, <1>6, <1>19, <2>1 DEF NntpReading
    <2>3. ASSUME NEW i \in 1..Len(to_client')
          PROVE  to_client'[i] = BodyOf(nntp_call.id)'[i + Len(lines')]
      <3>1. i \in 1..Len(to_client) /\ i \in 1..k
        BY <1>4, <1>6
      <3> QED BY <1>1, <1>4, <1>15, <1>19, <3>1 DEF NntpReading
    <2>5. TornIn(Len(lines) + Len(to_client) + 1)'
      <3>1. CASE torn' = <<>>
        BY <3>1 DEF TornIn
      <3>2. CASE k < Len(to_client) /\ torn' \in Torn(to_client[k + 1])
        <4>1. k + 1 \in 1..Len(to_client) /\ (k + 1) + Len(lines) = Len(lines) + k + 1
          BY <1>6, <2>1, <3>2
        <4> PICK i : i = Len(lines) + k + 1
          OBVIOUS
        <4>2. to_client[k + 1] = BodyOf(nntp_call.id)[i]
          BY <1>19, <4>1 DEF NntpReading
        <4>3. i \in 1..(Len(Articles[nntp_call.id]) + 1)
          BY <1>6, <1>19, <2>1, <4>1 DEF NntpReading
        <4>4. i \in 1..Len(Articles[nntp_call.id]) /\ Begun(torn', Articles[nntp_call.id][i])
          BY <1>19, <3>2, <4>2, <4>3, TornBody DEF NntpReading
        <4>5. Len(lines') + Len(to_client') + 1 = i
          BY <1>1, <1>4
        <4> QED BY <1>1, <4>4, <4>5 DEF TornIn
      <3> QED BY <1>2, <3>1, <3>2
    <2>4. NntpReading'
      BY <1>1, <1>9, <1>15, <1>19, <2>2, <2>3, <2>5 DEF NntpReading
    <2> QED BY <1>5, <2>4 DEF NntpLive
  <1>20. CASE NntpIdle
    <2>1. NntpIdle'
      <3>1. torn' = <<>>
        BY <1>2, <1>6, <1>20 DEF NntpIdle
      <3> QED BY <1>1, <1>8, <1>9, <1>20, <3>1 DEF NntpIdle, Driving, Event
    <2> QED BY <1>5, <2>1 DEF NntpLive
  <1>21. CASE NntpUpgrading
    <2>1. NntpUpgrading'
      BY <1>1, <1>15, <1>21 DEF NntpUpgrading
    <2> QED BY <1>5, <2>1 DEF NntpLive
  <1>22. CASE NntpCut
    BY <1>1, <1>22 DEF NntpCut
  <1> QED BY <1>16, <1>17, <1>18, <1>19, <1>20, <1>21, <1>22 DEF NntpLive

(* Nothing happens.                                                        *)
LEMMA StutterStep ==
    ASSUME NntpLive, UNCHANGED nntpVars
    PROVE  NntpLive'
  <1>1. UNCHANGED <<machine, driver, nntp_call, lines, to_server, to_client, open, torn, deflated,
                   server>>
    BY DEF nntpVars
  <1>2. /\ Unsent' = Unsent /\ Answered' = Answered /\ Lost' = Lost
        /\ \A cmds : Asked(cmds)' = Asked(cmds)
    BY <1>1 DEF Unsent, Asked, Answered, Lost, AgreesAfter, GroupAgrees, DeflateAgrees
  <1>3. /\ \A n : BodyFollows(n)' = BodyFollows(n)
        /\ BodyOf(nntp_call.id)' = BodyOf(nntp_call.id)
        /\ AskBody' = AskBody /\ AskGroup' = AskGroup
    BY <1>1 DEF BodyFollows, AskBody, AskGroup, BodyOf, TornIn
  <1>4. GroupAgrees' = GroupAgrees /\ DeflateAgrees' = DeflateAgrees
    BY <1>1 DEF GroupAgrees, DeflateAgrees
  <1>5. NntpIdle => NntpIdle'
    BY <1>1, <1>4 DEF NntpIdle, Driving
  <1>6. NntpPlain => NntpPlain'
    BY <1>1, <1>2 DEF NntpPlain
  <1>7. NntpBody => NntpBody'
    BY <1>1, <1>2, <1>3, <1>4 DEF NntpBody
  <1>8. NntpPipelined => NntpPipelined'
    BY <1>1, <1>2, <1>3 DEF NntpPipelined, AgreesAfter, GroupAgrees, DeflateAgrees
  <1>9. NntpReading => NntpReading'
    BY <1>1, <1>3, <1>4 DEF NntpReading, TornIn
  <1>10. NntpUpgrading => NntpUpgrading'
    BY <1>1 DEF NntpUpgrading
  <1>11. NntpCut => NntpCut'
    BY <1>1 DEF NntpCut
  <1> QED BY <1>1, <1>5, <1>6, <1>7, <1>8, <1>9, <1>10, <1>11 DEF NntpLive, IsSequence
-----------------------------------------------------------------------------
LEMMA NntpStepKeeps ==
    ASSUME NntpInv, [NntpNext]_nntpVars
    PROVE  NntpInv'
  <1>1. NntpShape' /\ NntpShape
    BY ShapeKept DEF NntpInv
  <1>2. CASE NntpOver
    <2>1. ~read_line
      BY <1>2 DEF NntpOver, read_line
    <2>2. BodyIsTheArticle' /\ NntpOver'
      BY <1>1, <1>2, <2>1, BodyKept, OverStays DEF NntpInv, NntpShape
    <2> QED BY <1>1, <2>2 DEF NntpInv
  <1>3. CASE ~NntpOver /\ read_line
    BY <1>1, <1>3, LineStep DEF NntpInv
  <1>4. CASE ~NntpOver /\ ~read_line
    <2>1. BodyIsTheArticle'
      BY <1>4, BodyKept DEF NntpInv
    <2>2. NntpLive' \/ NntpOver'
      BY <1>1, <1>4, CallStep, SendStep, ResponseStep, EventStep, UpgradeStep, AnswerStep,
         CloseStep, StutterStep DEF NntpInv, NntpNext
    <2> QED BY <1>1, <2>1, <2>2 DEF NntpInv
  <1> QED BY <1>2, <1>3, <1>4

LEMMA NntpStarts == NntpInit => NntpInv
  <1> SUFFICES ASSUME NntpInit PROVE NntpInv
    OBVIOUS
  <1>1. NntpShape /\ machine.state = "AwaitGreeting" /\ machine.outputs = <<Prompt>>
        /\ driver = "machine" /\ machine.current_group = None
    BY DEF NntpInit, NewMachine, NntpShape, IsMachine
  <1>2. PICK code : to_client = <<[to |-> "connect", code |-> code, deflate |-> FALSE]>>
    BY DEF NntpInit
  <1>3. IsSequence(to_client) /\ Len(to_client) = 1 /\ IsSequence(lines)
    BY <1>2, TupleSequences DEF NntpInit
  <1>4. Answered
    BY <1>1, <1>3 DEF NntpInit, Answered, AgreesAfter, GroupAgrees, DeflateAgrees
  <1>5. NntpPlain
    BY <1>1, <1>4 DEF NntpPlain, PlainStates
  <1>6. BodyIsTheArticle
    BY <1>1 DEF BodyIsTheArticle
  <1> QED BY <1>1, <1>3, <1>5, <1>6 DEF NntpInv, NntpLive

(* The invariant of a connection, whatever is called and however the       *)
(* server answers: where its machine, its driver and both directions of    *)
(* the socket stand together, from one call to the next.                   *)
THEOREM NntpInvCorrect == NntpSpec => []NntpInv
  BY NntpStarts, NntpStepKeeps, PTL DEF NntpSpec

(* Whichever answers the server gives, and wherever the connection breaks: *)
(* a call is made only when nothing of an earlier one is left, neither in  *)
(* the machine nor on the socket, and client and server agree on the       *)
(* group and the compression.                                              *)
THEOREM ConnectionIsInSync == NntpSpec => []ConnectionStaysInSync
  <1>1. ASSUME NntpInv PROVE ConnectionStaysInSync
    <2> SUFFICES ASSUME driver \in {"ready", "failed"}, machine.state = "Idle"
                 PROVE  /\ machine.outputs = <<>> /\ to_client = <<>> /\ torn = <<>>
                        /\ open => to_server = <<>>
                        /\ open => deflated = server.deflate
                        /\ machine.current_group \in {None, server.group}
      BY DEF ConnectionStaysInSync
    <2>1. ~NntpOver
      BY DEF NntpOver
    <2>2. NntpIdle /\ machine.outputs = <<>> /\ DeflateAgrees
      BY <1>1, <2>1, NextOutput DEF NntpInv
    <2> QED BY <2>2 DEF NntpIdle, GroupAgrees, DeflateAgrees
  <1> QED BY <1>1, NntpInvCorrect, PTL

(* A body that is handed over as complete is the article of the call, with *)
(* every dot the server doubled taken back, unless the connection broke    *)
(* after the first of two dots: then it is the lines before those.         *)
THEOREM BodiesAreWhole == NntpSpec => []BodyIsTheArticle
  BY NntpInvCorrect, PTL DEF NntpInv

-----------------------------------------------------------------------------
(* FileWriters.                                                            *)

WriterSpec == WriterInit /\ [][WriterNext]_writerVars

WriterTypes ==
    /\ write \in [Segments -> {"none", "creating", "ready", "sent", "ok", "error"}]
    /\ writer \in [Segments -> Segments \union {NoWriter}]
    /\ entry \in [Files -> Segments \union {NoWriter}]
    /\ task \in [Segments -> {"none", "running", "gone"}]
    /\ requests \in [Segments -> SUBSET Segments] /\ batch \in [Segments -> SUBSET Segments]
    /\ DOMAIN allocated = Segments /\ DOMAIN disk = Files
    /\ \A p \in Files : DOMAIN disk[p] = {"len", "has"}
    /\ flush \in {"no", "waiting", "done"}

(* A segment sends to a task of its file.  A file with tasks has one of    *)
(* them in the map, and flush_prefix waits for that one: for no other.     *)
TasksOfFiles ==
    /\ \A s \in Segments : writer[s] = NoWriter <=> write[s] \in {"none", "creating", "error"}
    /\ \A s \in Segments : writer[s] # NoWriter =>
          /\ FileOf[writer[s]] = FileOf[s] /\ writer[writer[s]] = writer[s]
          /\ task[writer[s]] # "none"
    /\ \A w \in Segments : task[w] # "none" => writer[w] = w
    /\ \A p \in Files : entry[p] # NoWriter =>
          entry[p] \in Segments /\ FileOf[entry[p]] = p /\ writer[entry[p]] = entry[p]
    /\ \A w \in Segments : task[w] # "none" =>
          IF flush = "no" THEN entry[FileOf[w]] # NoWriter
          ELSE \E v \in Segments : v \in flushing /\ FileOf[v] = FileOf[w] /\ task[v] # "none"
    /\ flush # "no" => Settled /\ \A p \in Files : entry[p] = NoWriter

(* A request waits in one place, with a task that is there for it.         *)
Requested ==
    \A w \in Segments :
       /\ \A s \in requests[w] \union batch[w] : writer[s] = w /\ write[s] = "sent"
       /\ requests[w] \intersect batch[w] = {}
       /\ task[w] = "gone" => ~Sender(w) /\ Background(w) = {} /\ entry[FileOf[w]] # w

WrittenIn ==
    /\ \A s \in buffered : s \in Segments /\ write[s] = "ok"
    /\ \A p \in Files : \A s \in disk[p].has : s \in Segments /\ FileOf[s] = p /\ write[s] = "ok"
    /\ \A p \in Files : (\A s \in Segments : FileOf[s] = p => task[s] = "none")
          => disk[p].len = 0

(* The task that has a file for itself allocates it before it writes, and  *)
(* what it has written is below the length that it has allocated.          *)
SoleKeeps ==
    \A s \in Segments : Sole(FileOf[s]) =>
       /\ task[s] # "none" => allocated[s] \in Nat
       /\ \A t \in batch[s] : Offset[t] < allocated[s]
       /\ write[s] = "ok" => /\ s \in buffered \/ s \in disk[FileOf[s]].has
                             /\ Offset[s] < allocated[writer[s]]

Flushed == flush = "done" => \A w \in flushing : task[w] = "gone"

WriterInv ==
    WriterTypes /\ TasksOfFiles /\ Requested /\ WrittenIn /\ SoleKeeps /\ Flushed
-----------------------------------------------------------------------------
(* The segments of a file that has one task share it.                      *)
LEMMA SoleWriter ==
    ASSUME WriterInv, NEW w \in Segments, task[w] # "none", Sole(FileOf[w]),
           NEW s \in Segments, FileOf[s] = FileOf[w], writer[s] # NoWriter
    PROVE  writer[s] = w
  BY DEF WriterInv, WriterTypes, TasksOfFiles, Sole

LEMMA GetOrCreate ==
    ASSUME WriterInv, NEW s \in Segments, get_or_create(s)
    PROVE  WriterInv'
  <1> USE DEF WriterInv
  <1>1. /\ write[s] = "none" /\ flush = "no" /\ writer[s] = NoWriter
        /\ FileOf[s] \in Files /\ NoWriter \notin Segments
    BY WritersAssumption DEF get_or_create, TasksOfFiles, Files
  <1>2. /\ UNCHANGED <<entry, task, requests, batch, allocated, buffered, disk, flush, flushing>>
        /\ \A t \in Segments : t # s => writer'[t] = writer[t] /\ write'[t] = write[t]
        /\ write'[s] \notin {"sent", "ok", "error"}
    BY <1>1 DEF get_or_create, WriterTypes
  <1>3. \/ /\ entry[FileOf[s]] # NoWriter
           /\ write'[s] = "ready" /\ writer'[s] = entry[FileOf[s]]
        \/ write'[s] = "creating" /\ writer'[s] = NoWriter
    BY <1>1 DEF get_or_create, WriterTypes
  <1>a. entry[FileOf[s]] # NoWriter =>
           /\ entry[FileOf[s]] \in Segments /\ entry[FileOf[s]] # s
           /\ FileOf[entry[FileOf[s]]] = FileOf[s]
           /\ writer[entry[FileOf[s]]] = entry[FileOf[s]]
           /\ task[entry[FileOf[s]]] # "none" /\ task[entry[FileOf[s]]] # "gone"
    <2> SUFFICES ASSUME entry[FileOf[s]] # NoWriter
                 PROVE  /\ entry[FileOf[s]] \in Segments /\ entry[FileOf[s]] # s
                        /\ FileOf[entry[FileOf[s]]] = FileOf[s]
                        /\ writer[entry[FileOf[s]]] = entry[FileOf[s]]
                        /\ task[entry[FileOf[s]]] # "none" /\ task[entry[FileOf[s]]] # "gone"
      OBVIOUS
    <2> DEFINE w == entry[FileOf[s]]
    <2>1. w \in Segments /\ FileOf[w] = FileOf[s] /\ writer[w] = w
      BY <1>1 DEF TasksOfFiles
    <2>2. w # s
      BY <1>1, <2>1
    <2>3. task[w] # "none"
      BY <1>1, <2>1 DEF TasksOfFiles
    <2>4. task[w] # "gone"
      BY <2>1 DEF Requested
    <2> QED BY <2>1, <2>2, <2>3, <2>4
  <1>4. WriterTypes'
    BY <1>1, <1>2 DEF get_or_create, WriterTypes
  <1>5. TasksOfFiles'
    <2>1. \A t \in Segments : writer'[t] = NoWriter <=> write'[t] \in {"none", "creating", "error"}
      BY <1>1, <1>2, <1>3 DEF TasksOfFiles
    <2>2. \A t \in Segments : writer'[t] # NoWriter =>
             /\ FileOf[writer'[t]] = FileOf[t] /\ writer'[writer'[t]] = writer'[t]
             /\ task'[writer'[t]] # "none"
      BY <1>1, <1>2, <1>3, <1>a DEF TasksOfFiles, WriterTypes
    <2>3. \A p \in Files : entry'[p] # NoWriter =>
             entry'[p] \in Segments /\ FileOf[entry'[p]] = p /\ writer'[entry'[p]] = entry'[p]
      BY <1>1, <1>2 DEF TasksOfFiles
    <2>4. \A w \in Segments : task'[w] # "none" => writer'[w] = w
      BY <1>1, <1>2 DEF TasksOfFiles
    <2>5. \A w \in Segments : task'[w] # "none" => entry'[FileOf[w]] # NoWriter
      BY <1>1, <1>2 DEF TasksOfFiles
    <2> QED BY <1>1, <1>2, <2>1, <2>2, <2>3, <2>4, <2>5 DEF TasksOfFiles
  <1>6. Requested'
    <2>1. \A w \in Segments : Background(w)' = Background(w)
      BY <1>1, <1>2 DEF WrittenIn, Background
    <2>2. \A w \in Segments : task[w] = "gone" => ~Sender(w)'
      BY <1>1, <1>2, <1>3, <1>a DEF Requested, Sender
    <2>3. \A w \in Segments : \A t \in requests'[w] \union batch'[w] :
             writer'[t] = w /\ write'[t] = "sent"
      BY <1>1, <1>2 DEF Requested, WriterTypes
    <2> QED BY <1>2, <2>1, <2>2, <2>3 DEF Requested
  <1>7. WrittenIn'
    BY <1>1, <1>2 DEF WrittenIn
  <1>8. SoleKeeps'
    <2>1. \A p : Sole(p)' <=> Sole(p)
      BY <1>2 DEF Sole
    <2> QED BY <1>1, <1>2, <2>1 DEF SoleKeeps
  <1>9. Flushed'
    BY <1>2 DEF Flushed
  <1> QED BY <1>4, <1>5, <1>6, <1>7, <1>8, <1>9

LEMMA OpenFile ==
    ASSUME WriterInv, NEW s \in Segments, open_file(s)
    PROVE  WriterInv'
  <1> USE DEF WriterInv
  <1>1. /\ write[s] = "creating" /\ writer[s] = NoWriter /\ FileOf[s] \in Files
        /\ s # NoWriter
    BY WritersAssumption DEF open_file, TasksOfFiles, Files
  <1>2. flush = "no"
    BY <1>1 DEF TasksOfFiles, Settled
  <1>4. /\ \A t \in Segments : writer[t] # s
        /\ requests[s] = {} /\ batch[s] = {} /\ task[s] = "none"
    BY <1>1 DEF TasksOfFiles, Requested, WriterTypes
  <1>6. /\ UNCHANGED <<requests, batch, buffered, disk, flush, flushing>>
        /\ write' = [write EXCEPT ![s] = "ready"] /\ writer' = [writer EXCEPT ![s] = s]
        /\ task' = [task EXCEPT ![s] = "running"]
        /\ allocated' = [allocated EXCEPT ![s] = disk[FileOf[s]].len]
        /\ entry' = [entry EXCEPT ![FileOf[s]] = IF @ = NoWriter THEN s ELSE @]
    BY <1>1 DEF open_file
  <1>7. WriterTypes'
    BY <1>1, <1>6 DEF WriterTypes
  <1>8. /\ \A t \in Segments : t # s => /\ writer'[t] = writer[t] /\ write'[t] = write[t]
                                        /\ task'[t] = task[t] /\ allocated'[t] = allocated[t]
        /\ writer'[s] = s /\ write'[s] = "ready" /\ task'[s] = "running"
        /\ allocated'[s] = disk[FileOf[s]].len
        /\ entry'[FileOf[s]] = IF entry[FileOf[s]] = NoWriter THEN s ELSE entry[FileOf[s]]
        /\ \A p \in Files : p # FileOf[s] => entry'[p] = entry[p]
    BY <1>1, <1>6 DEF WriterTypes
  <1>9. TasksOfFiles'
    <2>1. \A t \in Segments : writer'[t] = NoWriter <=> write'[t] \in {"none", "creating", "error"}
      BY <1>1, <1>8 DEF TasksOfFiles
    <2>2. \A t \in Segments : writer'[t] # NoWriter =>
             /\ FileOf[writer'[t]] = FileOf[t] /\ writer'[writer'[t]] = writer'[t]
             /\ task'[writer'[t]] # "none"
      BY <1>4, <1>8 DEF TasksOfFiles, WriterTypes
    <2>4. \A p \in Files : entry'[p] # NoWriter =>
             entry'[p] \in Segments /\ FileOf[entry'[p]] = p /\ writer'[entry'[p]] = entry'[p]
      <3> SUFFICES ASSUME NEW p \in Files, entry'[p] # NoWriter
                   PROVE  /\ entry'[p] \in Segments /\ FileOf[entry'[p]] = p
                          /\ writer'[entry'[p]] = entry'[p]
        OBVIOUS
      <3>1. CASE entry'[p] = entry[p]
        BY <1>4, <1>8, <3>1 DEF TasksOfFiles
      <3>2. CASE p = FileOf[s] /\ entry'[p] = s
        BY <1>8, <3>2
      <3> QED BY <1>8, <3>1, <3>2
    <2>5. \A w \in Segments : task'[w] # "none" => writer'[w] = w
      BY <1>8 DEF TasksOfFiles
    <2>6. \A w \in Segments : task'[w] # "none" => entry'[FileOf[w]] # NoWriter
      BY <1>1, <1>2, <1>8 DEF TasksOfFiles, Files
    <2> QED BY <1>2, <1>6, <2>1, <2>2, <2>4, <2>5, <2>6 DEF TasksOfFiles
  <1>a. \A w \in Segments : w # s => Background(w)' = Background(w)
    BY <1>1, <1>6, <1>8 DEF WrittenIn, Background
  <1>10. Requested'
    <2> SUFFICES ASSUME NEW w \in Segments
                 PROVE  /\ \A t \in requests'[w] \union batch'[w] :
                              writer'[t] = w /\ write'[t] = "sent"
                        /\ requests'[w] \intersect batch'[w] = {}
                        /\ task'[w] = "gone" =>
                              ~Sender(w)' /\ Background(w)' = {} /\ entry'[FileOf[w]] # w
      BY DEF Requested
    <2>1. \A t \in requests'[w] \union batch'[w] : writer'[t] = w /\ write'[t] = "sent"
      BY <1>1, <1>6, <1>8 DEF Requested, WriterTypes
    <2>2. ASSUME task'[w] = "gone"
          PROVE  ~Sender(w)' /\ Background(w)' = {} /\ entry'[FileOf[w]] # w
      <3>1. w # s /\ task[w] = "gone"
        BY <1>8, <2>2
      <3>2. ~Sender(w) /\ Background(w) = {} /\ entry[FileOf[w]] # w
        BY <3>1 DEF Requested
      <3>3. ~Sender(w)'
        BY <1>8, <3>1, <3>2 DEF Sender
      <3>4. entry'[FileOf[w]] # w
        BY <1>8, <3>1, <3>2 DEF Files
      <3> QED BY <1>a, <3>1, <3>2, <3>3, <3>4
    <2> QED BY <1>6, <2>1, <2>2 DEF Requested
  <1>11. WrittenIn'
    <2>2. /\ \A t \in buffered' : t \in Segments /\ write'[t] = "ok"
          /\ \A p \in Files : \A t \in disk'[p].has :
                t \in Segments /\ FileOf[t] = p /\ write'[t] = "ok"
      BY <1>1, <1>6, <1>8 DEF WrittenIn
    <2>5. \A p \in Files : (\A t \in Segments : FileOf[t] = p => task'[t] = "none")
             => disk'[p].len = 0
      BY <1>4, <1>6, <1>8 DEF WrittenIn
    <2> QED BY <2>2, <2>5 DEF WrittenIn
  <1>12. SoleKeeps'
    <2> SUFFICES ASSUME NEW t \in Segments, Sole(FileOf[t])'
                 PROVE  /\ task'[t] # "none" => allocated'[t] \in Nat
                        /\ \A u \in batch'[t] : Offset[u] < allocated'[t]
                        /\ write'[t] = "ok" =>
                              /\ t \in buffered' \/ t \in disk'[FileOf[t]].has
                              /\ Offset[t] < allocated'[writer'[t]]
      BY DEF SoleKeeps
    <2>1. CASE FileOf[t] = FileOf[s]
      <3>1. \A u \in Segments : FileOf[u] = FileOf[s] => task[u] = "none"
        BY <1>4, <1>8, <2>1 DEF Sole
      <3>2. \A u \in Segments : FileOf[u] = FileOf[s] => writer[u] = NoWriter
        BY <3>1 DEF TasksOfFiles, WriterTypes
      <3>3. disk[FileOf[s]].len = 0
        BY <1>1, <3>1 DEF WrittenIn
      <3>4. write'[t] # "ok"
        BY <1>8, <2>1, <3>2 DEF TasksOfFiles
      <3>5. batch'[t] = {}
        <4>1. CASE t = s
          BY <1>4, <1>6, <4>1
        <4>2. ASSUME NEW u \in batch[t] PROVE FALSE
          BY <2>1, <3>2, <4>2, WritersAssumption DEF Requested, TasksOfFiles, WriterTypes
        <4> QED BY <1>6, <4>2
      <3>6. task'[t] # "none" => allocated'[t] = 0
        BY <1>8, <2>1, <3>1, <3>3
      <3> QED BY <3>4, <3>5, <3>6
    <2>2. CASE FileOf[t] # FileOf[s]
      <3>1. t # s /\ Sole(FileOf[t])
        BY <1>8, <2>2 DEF Sole
      <3>2. write[t] = "ok" => writer[t] \in Segments /\ writer[t] # s
        BY <1>4 DEF TasksOfFiles, WriterTypes
      <3> QED BY <1>6, <1>8, <3>1, <3>2 DEF SoleKeeps
    <2> QED BY <2>1, <2>2
  <1>13. Flushed'
    BY <1>2, <1>6 DEF Flushed
  <1> QED BY <1>7, <1>9, <1>10, <1>11, <1>12, <1>13

LEMMA CreateFails ==
    ASSUME WriterInv, NEW s \in Segments, create_fails(s)
    PROVE  WriterInv'
  <1> USE DEF WriterInv
  <1>1. /\ write[s] = "creating" /\ flush = "no"
        /\ UNCHANGED <<writer, entry, task, requests, batch, allocated, buffered, disk, flush,
                       flushing>>
    BY DEF create_fails, TasksOfFiles, Settled
  <1>2. /\ write'[s] = "error"
        /\ \A t \in Segments : t # s => write'[t] = write[t]
    BY DEF create_fails, WriterTypes
  <1>3. WriterTypes'
    BY <1>1 DEF create_fails, WriterTypes
  <1>4. TasksOfFiles'
    <2>1. \A t \in Segments : writer'[t] = NoWriter <=> write'[t] \in {"none", "creating", "error"}
      BY <1>1, <1>2 DEF TasksOfFiles
    <2> QED BY <1>1, <2>1 DEF TasksOfFiles
  <1>5. Requested'
    BY <1>1, <1>2 DEF Requested, WriterTypes, Sender, Background
  <1>6. WrittenIn'
    BY <1>1, <1>2 DEF WrittenIn
  <1>7. SoleKeeps'
    BY <1>1, <1>2 DEF SoleKeeps, Sole
  <1>8. Flushed'
    BY <1>1 DEF Flushed
  <1> QED BY <1>3, <1>4, <1>5, <1>6, <1>7, <1>8

LEMMA SendRequest ==
    ASSUME WriterInv, NEW s \in Segments, send_request(s)
    PROVE  WriterInv'
  <1> USE DEF WriterInv
  <1> DEFINE w == writer[s]
  <1>1. /\ write[s] = "ready" /\ flush = "no" /\ w \in Segments
        /\ UNCHANGED <<writer, entry, task, batch, allocated, buffered, disk, flush, flushing>>
    BY DEF send_request, TasksOfFiles, Settled, WriterTypes
  <1>2. /\ write'[s] = "sent" /\ requests'[w] = requests[w] \union {s}
        /\ \A t \in Segments : t # s => write'[t] = write[t]
        /\ \A v \in Segments : v # w => requests'[v] = requests[v]
    BY <1>1 DEF send_request, WriterTypes
  <1>3. WriterTypes'
    BY <1>1 DEF send_request, WriterTypes
  <1>4. TasksOfFiles'
    <2>1. \A t \in Segments : writer'[t] = NoWriter <=> write'[t] \in {"none", "creating", "error"}
      BY <1>1, <1>2 DEF TasksOfFiles
    <2> QED BY <1>1, <2>1 DEF TasksOfFiles
  <1>5. Requested'
    <2>1. \A v \in Segments : s \notin requests[v] \union batch[v]
      BY <1>1 DEF Requested
    <2>2. \A v \in Segments : Sender(v)' <=> Sender(v)
      BY <1>1, <1>2 DEF Sender
    <2>3. \A v \in Segments : Background(v)' = Background(v)
      BY <1>1 DEF Background
    <2> HIDE DEF w
    <2>4. \A v \in Segments : /\ \A t \in requests'[v] \union batch'[v] :
                                    writer'[t] = v /\ write'[t] = "sent"
                              /\ requests'[v] \intersect batch'[v] = {}
      BY <1>1, <1>2, <2>1 DEF Requested, WriterTypes, w
    <2> QED BY <1>1, <2>2, <2>3, <2>4 DEF Requested
  <1>6. WrittenIn'
    BY <1>1, <1>2 DEF WrittenIn
  <1>7. SoleKeeps'
    BY <1>1, <1>2 DEF SoleKeeps, Sole
  <1>8. Flushed'
    BY <1>1 DEF Flushed
  <1> QED BY <1>3, <1>4, <1>5, <1>6, <1>7, <1>8

LEMMA TakeBatch ==
    ASSUME WriterInv, NEW w \in Segments, take_batch(w)
    PROVE  WriterInv'
  <1> USE DEF WriterInv
  <1>1. PICK end \in Ends(requests[w]) : /\ \A e \in Ends(requests[w]) : e <= end
                                         /\ set_len(w, end)
    BY DEF take_batch
  <1>2. /\ task[w] = "running" /\ batch[w] = {} /\ requests[w] # {} /\ writer[w] = w
        /\ FileOf[w] \in Files
        /\ UNCHANGED <<write, writer, entry, task, buffered, flush, flushing>>
        /\ batch' = [batch EXCEPT ![w] = requests[w]]
        /\ requests' = [requests EXCEPT ![w] = {}]
    BY DEF take_batch, TasksOfFiles, Files
  <1>4. /\ end \in Nat /\ \A s \in requests[w] : Offset[s] \in Nat /\ Offset[s] < end
    <2>1. /\ \A s \in requests[w] : s \in Segments /\ Offset[s] \in Nat
          /\ \A s \in requests[w] : Offset[s] + 1 \in Ends(requests[w])
      BY WritersAssumption DEF WriterTypes, Ends
    <2>2. end \in Nat
      BY <2>1 DEF Ends
    <2>3. \A s \in requests[w] : Offset[s] + 1 <= end
      BY <1>1, <2>1
    <2> QED BY <2>1, <2>2, <2>3
  <1>5. \A t \in Segments : t # w => allocated'[t] = allocated[t]
    BY <1>1 DEF set_len, WriterTypes
  <1>6. /\ DOMAIN allocated' = Segments /\ DOMAIN disk' = Files
        /\ \A p \in Files : /\ DOMAIN disk'[p] = {"len", "has"}
                            /\ p # FileOf[w] => disk'[p] = disk[p]
                            /\ disk'[p].has \subseteq disk[p].has
    BY <1>1, <1>2 DEF set_len, WriterTypes
  <1>7. WriterTypes'
    BY <1>2, <1>6 DEF WriterTypes
  <1>8. TasksOfFiles'
    BY <1>2 DEF TasksOfFiles, Settled
  <1>9. Requested'
    <2> SUFFICES ASSUME NEW v \in Segments
                 PROVE  /\ \A s \in requests'[v] \union batch'[v] :
                              writer'[s] = v /\ write'[s] = "sent"
                        /\ requests'[v] \intersect batch'[v] = {}
                        /\ task'[v] = "gone" =>
                              ~Sender(v)' /\ Background(v)' = {} /\ entry'[FileOf[v]] # v
      BY DEF Requested
    <2>1. /\ requests'[v] \union batch'[v] = requests[v] \union batch[v]
          /\ requests'[v] \intersect batch'[v] = {}
      BY <1>2 DEF Requested, WriterTypes
    <2>2. (Sender(v)' <=> Sender(v)) /\ Background(v)' = Background(v)
      BY <1>2 DEF Sender, Background
    <2> QED BY <1>2, <2>1, <2>2 DEF Requested
  <1>10. WrittenIn'
    <2>5. \A p \in Files : (\A t \in Segments : FileOf[t] = p => task'[t] = "none")
             => disk'[p].len = 0
      BY <1>2, <1>6 DEF WrittenIn
    <2> QED BY <1>2, <1>6, <2>5 DEF WrittenIn
  <1>11. SoleKeeps'
    <2> SUFFICES ASSUME NEW t \in Segments, Sole(FileOf[t])
                 PROVE  /\ task[t] # "none" => allocated'[t] \in Nat
                        /\ \A u \in batch'[t] : Offset[u] < allocated'[t]
                        /\ write[t] = "ok" =>
                              /\ t \in buffered \/ t \in disk'[FileOf[t]].has
                              /\ Offset[t] < allocated'[writer[t]]
      BY <1>2 DEF SoleKeeps, Sole
    <2>1. CASE FileOf[t] # FileOf[w]
      <3>1. t # w /\ batch'[t] = batch[t] /\ FileOf[t] \in Files
        BY <1>2, <2>1 DEF WriterTypes, Files
      <3>2. write[t] = "ok" => writer[t] \in Segments /\ writer[t] # w
        BY <2>1 DEF TasksOfFiles, WriterTypes
      <3> QED BY <1>5, <1>6, <2>1, <3>1, <3>2 DEF SoleKeeps
    <2>2. CASE FileOf[t] = FileOf[w]
      <3>1. Sole(FileOf[w]) /\ allocated[w] \in Nat
        BY <1>2, <2>2 DEF SoleKeeps
      <3>2. /\ allocated'[w] \in Nat /\ end <= allocated'[w] /\ allocated[w] <= allocated'[w]
            /\ \A u \in Segments : FileOf[u] = FileOf[w] /\ Offset[u] < allocated[w]
                  /\ u \in disk[FileOf[w]].has => u \in disk'[FileOf[w]].has
        <4>1. CASE allocated[w] >= end
          BY <1>1, <1>4, <3>1, <4>1 DEF set_len
        <4>2. CASE ~(allocated[w] >= end)
          <5>1. /\ disk'[FileOf[w]].has = {u \in disk[FileOf[w]].has : Offset[u] < end}
                /\ allocated'[w] = end
            BY <1>1, <1>2, <4>2 DEF set_len, WriterTypes
          <5>2. \A u \in Segments : Offset[u] \in Nat
            BY WritersAssumption
          <5> QED BY <1>4, <3>1, <4>2, <5>1, <5>2
        <4> QED BY <4>1, <4>2
      <3>3. write[t] = "ok" => writer[t] = w
        BY <1>2, <2>2, <3>1, SoleWriter DEF TasksOfFiles
      <3>4. task[t] # "none" => t = w
        BY <1>2, <2>2, <3>1 DEF Sole
      <3>5. \A u \in batch'[t] : Offset[u] < allocated'[t]
        <4>1. CASE t = w
          BY <1>2, <1>4, <3>2, <4>1 DEF WriterTypes
        <4>2. CASE t # w
          <5>1. batch'[t] = batch[t] /\ task[t] = "none"
            BY <1>2, <3>4, <4>2 DEF WriterTypes
          <5>2. ASSUME NEW u \in batch[t] PROVE FALSE
            BY <4>2, <5>1, <5>2, WritersAssumption DEF Requested, TasksOfFiles, WriterTypes
          <5> QED BY <5>1, <5>2
        <4> QED BY <4>1, <4>2
      <3>6. write[t] = "ok" =>
               /\ t \in buffered \/ t \in disk'[FileOf[t]].has
               /\ Offset[t] < allocated'[writer[t]]
        <4> SUFFICES ASSUME write[t] = "ok"
                     PROVE  /\ t \in buffered \/ t \in disk'[FileOf[t]].has
                            /\ Offset[t] < allocated'[w]
          BY <3>3
        <4>1. /\ t \in buffered \/ t \in disk[FileOf[t]].has
              /\ Offset[t] < allocated[w] /\ Offset[t] \in Nat
          BY <3>3, WritersAssumption DEF SoleKeeps
        <4> QED BY <2>2, <3>1, <3>2, <4>1
      <3> QED BY <3>2, <3>4, <3>5, <3>6
    <2> QED BY <2>1, <2>2
  <1>12. Flushed'
    BY <1>2 DEF Flushed
  <1> QED BY <1>7, <1>8, <1>9, <1>10, <1>11, <1>12

LEMMA WriteOne ==
    ASSUME WriterInv, NEW w \in Segments, write_one(w)
    PROVE  WriterInv'
  <1> USE DEF WriterInv
  <1>1. PICK s \in batch[w] : /\ buffered' = buffered \union {s}
                              /\ batch' = [batch EXCEPT ![w] = @ \ {s}]
                              /\ write' = [write EXCEPT ![s] = "ok"]
    BY DEF write_one
  <1>2. /\ s \in Segments /\ writer[s] = w /\ write[s] = "sent" /\ flush = "no"
        /\ UNCHANGED <<writer, entry, task, requests, allocated, disk, flush, flushing>>
    BY DEF write_one, Requested, WriterTypes, TasksOfFiles, Settled
  <1>3. /\ write'[s] = "ok" /\ \A t \in Segments : t # s => write'[t] = write[t]
        /\ batch'[w] = batch[w] \ {s}
        /\ \A v \in Segments : v # w => batch'[v] = batch[v]
    BY <1>1, <1>2 DEF WriterTypes
  <1>a. FileOf[s] = FileOf[w] /\ task[w] # "gone" /\ task[w] # "none"
    BY <1>2, WritersAssumption DEF TasksOfFiles, Requested, Sender
  <1>4. WriterTypes'
    BY <1>1, <1>2 DEF WriterTypes
  <1>5. TasksOfFiles'
    <2>1. \A t \in Segments : writer'[t] = NoWriter <=> write'[t] \in {"none", "creating", "error"}
      BY <1>2, <1>3 DEF TasksOfFiles
    <2> QED BY <1>2, <2>1 DEF TasksOfFiles
  <1>6. Requested'
    <2>1. \A v \in Segments : s \notin requests[v] /\ (v # w => s \notin batch[v])
      BY <1>1, <1>2 DEF Requested
    <2>2. \A v \in Segments : v # w => Background(v)' = Background(v)
      BY <1>1, <1>2 DEF Background
    <2>3. \A v \in Segments : Sender(v)' => Sender(v)
      BY <1>2, <1>3 DEF Sender
    <2>4. \A v \in Segments : task'[v] = "gone" =>
             ~Sender(v)' /\ Background(v)' = {} /\ entry'[FileOf[v]] # v
      BY <1>2, <1>a, <2>2, <2>3 DEF Requested
    <2> QED BY <1>2, <1>3, <2>1, <2>4 DEF Requested, WriterTypes
  <1>7. WrittenIn'
    BY <1>1, <1>2, <1>3 DEF WrittenIn
  <1>8. SoleKeeps'
    <2>1. \A v \in Segments : batch'[v] \subseteq batch[v]
      BY <1>3
    <2>2. Sole(FileOf[s]) => Offset[s] < allocated[w]
      BY <1>1, <1>a DEF SoleKeeps
    <2> QED BY <1>1, <1>2, <1>3, <2>1, <2>2 DEF SoleKeeps, Sole
  <1>9. Flushed'
    BY <1>2 DEF Flushed
  <1> QED BY <1>4, <1>5, <1>6, <1>7, <1>8, <1>9

LEMMA WriteLands ==
    ASSUME WriterInv, NEW w \in Segments, BackgroundWrite(w)
    PROVE  WriterInv'
  <1> USE DEF WriterInv
  <1> DEFINE S == Background(w)
  <1>1. /\ buffered' = buffered \ S /\ S # {}
        /\ disk' = [disk EXCEPT ![FileOf[w]] = LandsOn(@, S)]
        /\ UNCHANGED <<write, writer, entry, task, requests, batch, allocated, flush, flushing>>
    BY DEF BackgroundWrite
  <1>2. /\ FileOf[w] \in Files
        /\ \A t \in S : t \in Segments /\ write[t] = "ok" /\ writer[t] = w /\ FileOf[t] = FileOf[w]
        /\ task[w] # "none"
    BY <1>1, WritersAssumption DEF Files, Background, WrittenIn, TasksOfFiles
  <1>3. /\ DOMAIN disk' = Files
        /\ disk'[FileOf[w]].has = disk[FileOf[w]].has \union S
        /\ \A p \in Files : p # FileOf[w] => disk'[p] = disk[p]
        /\ \A p \in Files : DOMAIN disk'[p] = {"len", "has"}
    BY <1>1, <1>2 DEF LandsOn, WriterTypes
  <1>4. WriterTypes'
    BY <1>1, <1>3 DEF WriterTypes
  <1>5. TasksOfFiles'
    BY <1>1 DEF TasksOfFiles, Settled
  <1>6. Requested'
    <2>1. \A v \in Segments : Background(v)' \subseteq Background(v) /\ (Sender(v)' <=> Sender(v))
      BY <1>1 DEF Background, Sender
    <2> QED BY <1>1, <2>1 DEF Requested
  <1>7. WrittenIn'
    BY <1>1, <1>2, <1>3 DEF WrittenIn
  <1>8. SoleKeeps'
    <2>1. \A t \in Segments : t \in buffered \/ t \in disk[FileOf[t]].has =>
             t \in buffered' \/ t \in disk'[FileOf[t]].has
      BY <1>1, <1>2, <1>3 DEF Files
    <2> HIDE DEF S
    <2> QED BY <1>1, <2>1 DEF SoleKeeps, Sole
  <1>9. Flushed'
    BY <1>1 DEF Flushed
  <1> QED BY <1>4, <1>5, <1>6, <1>7, <1>8, <1>9

LEMMA TaskEnds ==
    ASSUME WriterInv, NEW w \in Segments, task_ends(w)
    PROVE  WriterInv'
  <1> USE DEF WriterInv
  <1>1. /\ task[w] = "running" /\ entry[FileOf[w]] # w /\ Background(w) = {} /\ ~Sender(w)
        /\ task' = [task EXCEPT ![w] = "gone"]
        /\ UNCHANGED <<write, writer, entry, requests, batch, allocated, buffered, disk, flush,
                       flushing>>
    BY DEF task_ends
  <1>2. \A v \in Segments : task'[v] = IF v = w THEN "gone" ELSE task[v]
    BY <1>1 DEF WriterTypes
  <1>a. \A v \in Segments : task'[v] = "none" <=> task[v] = "none"
    BY <1>1, <1>2
  <1>3. WriterTypes'
    BY <1>1 DEF WriterTypes
  <1>4. TasksOfFiles'
    BY <1>1, <1>a DEF TasksOfFiles, Settled, WriterTypes
  <1>5. Requested'
    <2>1. \A v \in Segments : Background(v)' = Background(v) /\ (Sender(v)' <=> Sender(v))
      BY <1>1 DEF Background, Sender
    <2> QED BY <1>1, <1>2, <2>1 DEF Requested
  <1>6. WrittenIn'
    BY <1>1, <1>a DEF WrittenIn
  <1>7. SoleKeeps'
    <2>1. \A p : Sole(p)' <=> Sole(p)
      BY <1>a DEF Sole
    <2> QED BY <1>1, <1>a, <2>1 DEF SoleKeeps
  <1>8. Flushed'
    BY <1>1 DEF Flushed, WriterTypes
  <1> QED BY <1>3, <1>4, <1>5, <1>6, <1>7, <1>8

LEMMA FlushBegins ==
    ASSUME WriterInv, flush_begin
    PROVE  WriterInv'
  <1> USE DEF WriterInv
  <1>1. /\ flush = "no" /\ Settled /\ flush' = "waiting"
        /\ flushing' = {entry[p] : p \in Files} \ {NoWriter}
        /\ entry' = [p \in Files |-> NoWriter]
        /\ UNCHANGED <<write, writer, task, requests, batch, allocated, buffered, disk>>
    BY DEF flush_begin
  <1>2. WriterTypes'
    BY <1>1 DEF WriterTypes
  <1>3. TasksOfFiles'
    <2>1. ASSUME NEW w \in Segments, task[w] # "none"
          PROVE  \E v \in Segments : v \in flushing' /\ FileOf[v] = FileOf[w] /\ task[v] # "none"
      <3>1. FileOf[w] \in Files /\ entry[FileOf[w]] # NoWriter
        BY <1>1, <2>1 DEF TasksOfFiles, Files
      <3>2. /\ entry[FileOf[w]] \in Segments /\ FileOf[entry[FileOf[w]]] = FileOf[w]
            /\ writer[entry[FileOf[w]]] = entry[FileOf[w]]
        BY <3>1 DEF TasksOfFiles
      <3>3. task[entry[FileOf[w]]] # "none"
        BY <3>1, <3>2 DEF TasksOfFiles
      <3> QED BY <1>1, <3>1, <3>2, <3>3
    <2>3. Settled'
      BY <1>1 DEF Settled
    <2> QED BY <1>1, <2>1, <2>3 DEF TasksOfFiles
  <1>4. Requested'
    <2>1. \A v \in Segments : Background(v)' = Background(v) /\ (Sender(v)' <=> Sender(v))
      BY <1>1 DEF Background, Sender
    <2>2. \A v \in Segments : entry'[FileOf[v]] # v
      BY <1>1, WritersAssumption DEF Files
    <2> QED BY <1>1, <2>1, <2>2 DEF Requested
  <1>5. WrittenIn' /\ SoleKeeps'
    BY <1>1 DEF WrittenIn, SoleKeeps, Sole
  <1>6. Flushed'
    BY <1>1 DEF Flushed
  <1> QED BY <1>2, <1>3, <1>4, <1>5, <1>6

LEMMA FlushEnds ==
    ASSUME WriterInv, flush_end
    PROVE  WriterInv'
  <1> USE DEF WriterInv
  <1>1. /\ flush = "waiting" /\ flush' = "done" /\ \A w \in flushing : task[w] = "gone"
        /\ UNCHANGED <<flushing, write, writer, entry, task, requests, batch, allocated,
                       buffered, disk>>
    BY DEF flush_end
  <1>2. WriterTypes'
    BY <1>1 DEF WriterTypes
  <1>3. TasksOfFiles'
    BY <1>1 DEF TasksOfFiles, Settled
  <1>4. Requested' /\ WrittenIn' /\ SoleKeeps'
    BY <1>1 DEF Requested, WrittenIn, SoleKeeps, Sole, Background, Sender
  <1> QED BY <1>1, <1>2, <1>3, <1>4 DEF Flushed

(* Each segment sends to a task of its file, each request is with a task   *)
(* that is there for it, and a flush waits for one task of every file.  A  *)
(* task that has its file for itself never cuts what it has written.       *)
THEOREM WriterInvCorrect == WriterSpec => []WriterInv
  <1>1. WriterInit => WriterInv
    <2> SUFFICES ASSUME WriterInit PROVE WriterInv
      OBVIOUS
    <2> USE DEF WriterInit
    <2>1. WriterTypes
      BY DEF WriterTypes
    <2>2. TasksOfFiles
      BY DEF TasksOfFiles
    <2>3. Requested
      BY DEF Requested
    <2>4. WrittenIn
      BY WritersAssumption DEF WrittenIn, Files
    <2>5. SoleKeeps
      BY DEF SoleKeeps
    <2> QED BY <2>1, <2>2, <2>3, <2>4, <2>5 DEF WriterInv, Flushed
  <1>2. WriterInv /\ [WriterNext]_writerVars => WriterInv'
    <2> SUFFICES ASSUME WriterInv, [WriterNext]_writerVars PROVE WriterInv'
      OBVIOUS
    <2>1. ASSUME NEW s \in Segments, get_or_create(s) PROVE WriterInv'
      BY <2>1, GetOrCreate
    <2>2. ASSUME NEW s \in Segments, open_file(s) PROVE WriterInv'
      BY <2>2, OpenFile
    <2>3. ASSUME NEW s \in Segments, create_fails(s) PROVE WriterInv'
      BY <2>3, CreateFails
    <2>4. ASSUME NEW s \in Segments, send_request(s) PROVE WriterInv'
      BY <2>4, SendRequest
    <2>5. ASSUME NEW s \in Segments, BackgroundWrite(s) PROVE WriterInv'
      BY <2>5, WriteLands
    <2>6. ASSUME NEW s \in Segments, take_batch(s) PROVE WriterInv'
      BY <2>6, TakeBatch
    <2>7. ASSUME NEW s \in Segments, write_one(s) PROVE WriterInv'
      BY <2>7, WriteOne
    <2>8. ASSUME NEW s \in Segments, task_ends(s) PROVE WriterInv'
      BY <2>8, TaskEnds
    <2>9. CASE UNCHANGED writerVars
      BY <2>9 DEF writerVars, WriterInv, WriterTypes, TasksOfFiles, Requested, WrittenIn,
                  SoleKeeps, Sole, Flushed, Settled, Background, Sender
    <2> QED BY <2>1, <2>2, <2>3, <2>4, <2>5, <2>6, <2>7, <2>8, <2>9, FlushBegins, FlushEnds
            DEF WriterNext
  <1> QED BY <1>1, <1>2, PTL DEF WriterSpec

(* What write_segment has accepted is in the file when flush_prefix        *)
(* returns, in whatever order segments come, are batched and land, of      *)
(* every file that one task had open.                                      *)
THEOREM AcceptedIsWritten == WriterSpec => []SegmentsReachTheFile
  <1>1. ASSUME WriterInv PROVE SegmentsReachTheFile
    <2> SUFFICES ASSUME flush = "done", NEW s \in Segments, write[s] = "ok", Sole(FileOf[s])
                 PROVE  s \in disk[FileOf[s]].has
      BY DEF SegmentsReachTheFile
    <2>1. /\ writer[s] \in Segments /\ FileOf[writer[s]] = FileOf[s]
          /\ task[writer[s]] # "none"
      BY <1>1 DEF WriterInv, TasksOfFiles, WriterTypes
    <2>2. writer[s] \in flushing
      BY <1>1, <2>1 DEF WriterInv, TasksOfFiles, Sole
    <2>3. Background(writer[s]) = {}
      BY <1>1, <2>1, <2>2 DEF WriterInv, Requested, Flushed
    <2>4. s \notin buffered
      BY <2>3 DEF Background
    <2> QED BY <1>1, <2>4 DEF WriterInv, SoleKeeps
  <1> QED BY <1>1, WriterInvCorrect, PTL

-----------------------------------------------------------------------------
(* SpeedLimiter.                                                           *)

SpeedSpec == SpeedInit /\ [][SpeedNext]_speedVars

SpeedTypes ==
    /\ rate \in Rates /\ tokens \in Int
    /\ clock \in Nat /\ last_refill \in 0..clock /\ changed_at \in 0..clock
    /\ since_change \subseteq passed /\ passed \subseteq Acquirers
    /\ DOMAIN sleeping \subseteq Acquirers \ passed
    /\ \A a \in DOMAIN sleeping :
          sleeping[a] \in [debt : Nat, rate : Nat, since : Nat, latest : BOOLEAN]

Latest == {a \in DOMAIN sleeping : sleeping[a].latest}
Served == since_change \union Latest

(* Every byte served under the present rate has a time of its own, from    *)
(* two seconds before the rate was set: those of an article end when it is *)
(* due, those of the next begin no earlier.  Times count in bytes.         *)
Schedule(due) ==
    /\ due \in [Served -> Int]
    /\ \A a \in Served : /\ rate * (changed_at - 2) <= due[a] - ArticleBytes[a]
                         /\ due[a] <= rate * last_refill - tokens
    /\ \A a, b \in Served : a # b => \/ due[a] <= due[b] - ArticleBytes[b]
                                     \/ due[b] <= due[a] - ArticleBytes[a]
    /\ \A a \in since_change : due[a] <= rate * clock
    /\ \A a \in Latest : /\ due[a] = rate * sleeping[a].since + sleeping[a].debt
                         /\ sleeping[a].rate = rate

SpeedInv == SpeedTypes /\ \E due : Schedule(due)

LEMMA Distribute ==
    ASSUME NEW r \in Int, NEW x \in Int, NEW y \in Int
    PROVE  /\ r * (x - y) = r * x - r * y /\ (x - y) * r = r * x - r * y
           /\ r * (x + y) = r * x + r * y
  OBVIOUS

LEMMA Monotone ==
    ASSUME NEW r \in Nat, NEW x \in Int, NEW y \in Int, x <= y
    PROVE  r * x <= r * y
  OBVIOUS

LEMMA SpeedStart == SpeedInit => SpeedInv
  <1> SUFFICES ASSUME SpeedInit PROVE SpeedInv
    OBVIOUS
  <1>1. SpeedTypes
    BY SpeedAssumption DEF SpeedInit, SpeedTypes
  <1>2. Served = {} /\ Latest = {} /\ since_change = {}
    BY DEF SpeedInit, Served, Latest
  <1>3. Schedule([a \in {} |-> 0])
    BY <1>2 DEF Schedule
  <1> QED BY <1>1, <1>3 DEF SpeedInv

LEMMA Reserve ==
    ASSUME SpeedInv, NEW a \in Acquirers, reserve(a)
    PROVE  SpeedInv'
  <1>1. PICK due : Schedule(due)
    BY DEF SpeedInv
  <1> DEFINE left == Refilled - ArticleBytes[a]
             end == rate * clock - left
  <1>2. /\ rate \in Nat /\ clock \in Nat /\ last_refill \in Nat /\ last_refill <= clock
        /\ changed_at \in Nat /\ changed_at <= clock
        /\ tokens \in Int /\ ArticleBytes[a] \in Nat /\ a \notin Served
        /\ a \notin DOMAIN sleeping /\ a \notin passed
    BY SpeedAssumption DEF SpeedInv, SpeedTypes, reserve, Waiting, Served, Latest
  <1>3. /\ Refilled \in Int /\ Refilled <= 2 * rate
        /\ Refilled <= tokens + rate * clock - rate * last_refill
    <2>1. (clock - last_refill) * rate = rate * clock - rate * last_refill
      BY <1>2, Distribute
    <2>2. rate * clock \in Int /\ rate * last_refill \in Int
      BY <1>2
    <2> QED BY <1>2, <2>1, <2>2 DEF Refilled, Smaller
  <1>4. left \in Int /\ end \in Int /\ end = rate * clock - left
        /\ end - ArticleBytes[a] = rate * clock - Refilled
    BY <1>2, <1>3
  <1>5. /\ tokens' = left /\ last_refill' = clock
        /\ UNCHANGED <<rate, clock, changed_at>>
    BY DEF reserve
  <1>6. \/ /\ left >= 0
           /\ passed' = passed \union {a} /\ since_change' = since_change \union {a}
           /\ UNCHANGED sleeping
        \/ /\ ~(left >= 0) /\ UNCHANGED <<passed, since_change>>
           /\ DOMAIN sleeping' = DOMAIN sleeping \union {a}
           /\ sleeping'[a] = [debt |-> -left, rate |-> rate, since |-> clock, latest |-> TRUE]
           /\ \A x \in DOMAIN sleeping : sleeping'[x] = sleeping[x]
    BY <1>2 DEF reserve
  <1> HIDE DEF left, end
  <1>7. SpeedTypes'
    <2>1. /\ rate' \in Rates /\ tokens' \in Int /\ clock' \in Nat /\ last_refill' \in 0..clock'
          /\ changed_at' \in 0..clock'
      BY <1>2, <1>4, <1>5 DEF SpeedInv, SpeedTypes
    <2>2. /\ since_change' \subseteq passed' /\ passed' \subseteq Acquirers
          /\ DOMAIN sleeping' \subseteq Acquirers \ passed'
      BY <1>2, <1>6 DEF SpeedInv, SpeedTypes
    <2>3. \A x \in DOMAIN sleeping' :
             sleeping'[x] \in [debt : Nat, rate : Nat, since : Nat, latest : BOOLEAN]
      <3>1. \A x \in DOMAIN sleeping :
               sleeping[x] \in [debt : Nat, rate : Nat, since : Nat, latest : BOOLEAN]
        BY DEF SpeedInv, SpeedTypes
      <3>2. ~(left >= 0) => -left \in Nat
        BY <1>4
      <3>3. ~(left >= 0) => [debt |-> -left, rate |-> rate, since |-> clock, latest |-> TRUE]
                               \in [debt : Nat, rate : Nat, since : Nat, latest : BOOLEAN]
        BY <1>2, <3>2
      <3> QED BY <1>6, <3>1, <3>3
    <2> QED BY <2>1, <2>2, <2>3 DEF SpeedTypes
  <1>8. Served' = Served \union {a}
    BY <1>2, <1>6 DEF Served, Latest
  <1>9. PICK next \in [Served' -> Int] :
              next[a] = end /\ \A x \in Served : next[x] = due[x] /\ due[x] \in Int
    <2> DEFINE f == [x \in Served \union {a} |-> IF x = a THEN end ELSE due[x]]
    <2>1. f \in [Served' -> Int] /\ f[a] = end /\ \A x \in Served : f[x] = due[x] /\ due[x] \in Int
      BY <1>1, <1>2, <1>4, <1>8 DEF Schedule
    <2> QED BY <2>1
  <1>10. /\ rate * (changed_at - 2) = rate * changed_at - 2 * rate
         /\ rate * changed_at <= rate * clock
         /\ rate * changed_at \in Int /\ rate * clock \in Int /\ rate * last_refill \in Int
    BY <1>2, Distribute, Monotone
  <1>11. /\ rate * (changed_at - 2) <= end - ArticleBytes[a]
         /\ \A x \in Served : due[x] <= end - ArticleBytes[a]
         /\ end <= rate * clock - left
    <2>1. rate * (changed_at - 2) <= end - ArticleBytes[a]
      BY <1>2, <1>3, <1>4, <1>10
    <2>2. ASSUME NEW x \in Served PROVE due[x] <= end - ArticleBytes[a]
      <3>1. due[x] <= rate * last_refill - tokens /\ due[x] \in Int
        BY <1>1 DEF Schedule
      <3> QED BY <1>2, <1>3, <1>4, <1>10, <3>1
    <2> QED BY <1>4, <2>1, <2>2
  <1>12. \A x \in Served' : /\ rate' * (changed_at' - 2) <= next[x] - ArticleBytes[x]
                            /\ next[x] <= rate' * last_refill' - tokens'
    <2>1. ASSUME NEW x \in Served
          PROVE  /\ rate * (changed_at - 2) <= due[x] - ArticleBytes[x]
                 /\ due[x] <= rate * clock - left
      BY <1>1, <1>2, <1>4, <1>9, <1>11 DEF Schedule
    <2> QED BY <1>5, <1>8, <1>9, <1>11, <2>1
  <1>13. \A x, y \in Served' : x # y => \/ next[x] <= next[y] - ArticleBytes[y]
                                        \/ next[y] <= next[x] - ArticleBytes[x]
    BY <1>1, <1>8, <1>9, <1>11 DEF Schedule
  <1>14. \A x \in since_change' : next[x] <= rate' * clock'
    <2>1. \A x \in since_change : x \in Served /\ due[x] <= rate * clock
      BY <1>1 DEF Schedule, Served
    <2>2. left >= 0 => end <= rate * clock
      BY <1>4, <1>10
    <2> QED BY <1>5, <1>6, <1>9, <2>1, <2>2
  <1>15. \A x \in Latest' : /\ next[x] = rate' * sleeping'[x].since + sleeping'[x].debt
                            /\ sleeping'[x].rate = rate'
    <2>1. ASSUME NEW x \in Latest', x # a
          PROVE  /\ x \in Latest /\ x \in Served /\ sleeping'[x] = sleeping[x]
      BY <1>6, <2>1 DEF Latest, Served
    <2>2. ASSUME a \in Latest'
          PROVE  /\ sleeping'[a].since = clock /\ sleeping'[a].debt = -left
                 /\ sleeping'[a].rate = rate
      BY <1>2, <1>6, <2>2 DEF Latest
    <2>3. end = rate * clock + (-left)
      BY <1>4, <1>10
    <2> QED BY <1>1, <1>5, <1>9, <2>1, <2>2, <2>3 DEF Schedule
  <1>16. Schedule(next)'
    BY <1>9, <1>12, <1>13, <1>14, <1>15 DEF Schedule
  <1> QED BY <1>7, <1>16 DEF SpeedInv

LEMMA Wake ==
    ASSUME SpeedInv, NEW a \in Acquirers, wake(a)
    PROVE  SpeedInv'
  <1>1. PICK due : Schedule(due)
    BY DEF SpeedInv
  <1>2. /\ a \in DOMAIN sleeping /\ passed' = passed \union {a}
        /\ (clock - sleeping[a].since) * sleeping[a].rate >= sleeping[a].debt
        /\ since_change' = IF sleeping[a].latest THEN since_change \union {a} ELSE since_change
        /\ DOMAIN sleeping' = DOMAIN sleeping \ {a}
        /\ \A x \in DOMAIN sleeping' : sleeping'[x] = sleeping[x]
        /\ UNCHANGED <<rate, tokens, last_refill, clock, changed_at>>
    BY DEF wake
  <1>3. sleeping[a] \in [debt : Nat, rate : Nat, since : Nat, latest : BOOLEAN]
    BY <1>2 DEF SpeedInv, SpeedTypes
  <1>4. SpeedTypes'
    BY <1>2 DEF SpeedInv, SpeedTypes
  <1>5. Served' = Served
    BY <1>2 DEF Served, Latest
  <1>6. sleeping[a].latest => due[a] <= rate * clock
    <2> SUFFICES ASSUME sleeping[a].latest PROVE due[a] <= rate * clock
      OBVIOUS
    <2>1. /\ due[a] = rate * sleeping[a].since + sleeping[a].debt
          /\ sleeping[a].rate = rate
      BY <1>1, <1>2 DEF Schedule, Latest
    <2>2. /\ rate \in Int /\ clock \in Int
          /\ sleeping[a].since \in Int /\ sleeping[a].debt \in Int
      <3>1. rate \in Rates /\ clock \in Nat
        BY DEF SpeedInv, SpeedTypes
      <3>2. rate \in Nat
        BY <3>1, SpeedAssumption
      <3>3. sleeping[a].since \in Nat /\ sleeping[a].debt \in Nat
        BY <1>3
      <3> QED BY <3>1, <3>2, <3>3
    <2>3. (clock - sleeping[a].since) * rate = rate * clock - rate * sleeping[a].since
      BY <2>2, Distribute
    <2>4. rate * clock \in Int /\ rate * sleeping[a].since \in Int
      BY <2>2
    <2> QED BY <1>2, <2>1, <2>2, <2>3, <2>4
  <1>7. \A x \in Latest' : x \in Latest /\ sleeping'[x] = sleeping[x]
    BY <1>2 DEF Latest
  <1>8. Schedule(due)'
    BY <1>1, <1>2, <1>5, <1>6, <1>7 DEF Schedule
  <1> QED BY <1>4, <1>8 DEF SpeedInv

LEMMA SpeedStep == SpeedInv /\ [SpeedNext]_speedVars => SpeedInv'
  <1> SUFFICES ASSUME SpeedInv, [SpeedNext]_speedVars PROVE SpeedInv'
    OBVIOUS
  <1>1. CASE Second
    <2>1. PICK due : Schedule(due)
      BY DEF SpeedInv
    <2>2. /\ clock' = clock + 1
          /\ UNCHANGED <<rate, tokens, last_refill, sleeping, passed, changed_at, since_change>>
      BY <1>1 DEF Second
    <2>3. SpeedTypes'
      BY <2>2 DEF SpeedInv, SpeedTypes
    <2>4. rate \in Nat /\ clock \in Nat
      BY SpeedAssumption DEF SpeedInv, SpeedTypes
    <2>5. /\ rate * clock <= rate * clock'
          /\ rate * clock \in Int /\ rate * clock' \in Int
      BY <2>2, <2>4, Monotone
    <2>6. Served' = Served /\ Latest' = Latest
      BY <2>2 DEF Served, Latest
    <2>7. \A a \in since_change : due[a] <= rate * clock'
      BY <2>1, <2>5 DEF Schedule, Served
    <2>8. Schedule(due)'
      BY <2>1, <2>2, <2>6, <2>7 DEF Schedule
    <2> QED BY <2>3, <2>8 DEF SpeedInv
  <1>2. ASSUME NEW a \in Acquirers, acquire_unlimited(a) PROVE SpeedInv'
    <2>1. PICK due : Schedule(due)
      BY DEF SpeedInv
    <2>2. /\ passed' = passed \union {a} /\ Waiting(a)
          /\ UNCHANGED <<rate, tokens, last_refill, clock, sleeping, changed_at, since_change>>
      BY <1>2 DEF acquire_unlimited
    <2>3. SpeedTypes'
      BY <2>2 DEF SpeedInv, SpeedTypes, Waiting
    <2>4. Served' = Served /\ Latest' = Latest
      BY <2>2 DEF Served, Latest
    <2>5. Schedule(due)'
      BY <2>1, <2>2, <2>4 DEF Schedule
    <2> QED BY <2>3, <2>5 DEF SpeedInv
  <1>3. ASSUME NEW r \in Rates, set_rate(r) PROVE SpeedInv'
    <2>1. /\ rate' = r /\ changed_at' = clock /\ since_change' = {}
          /\ DOMAIN sleeping' = DOMAIN sleeping
          /\ \A a \in DOMAIN sleeping : sleeping'[a] = [sleeping[a] EXCEPT !.latest = FALSE]
          /\ UNCHANGED <<tokens, last_refill, clock, passed>>
      BY <1>3 DEF set_rate
    <2>2. SpeedTypes'
      <3>1. \A a \in DOMAIN sleeping' :
               sleeping'[a] \in [debt : Nat, rate : Nat, since : Nat, latest : BOOLEAN]
        BY <2>1 DEF SpeedInv, SpeedTypes
      <3>2. clock' \in Nat /\ last_refill' \in 0..clock' /\ changed_at' \in 0..clock'
        BY <2>1 DEF SpeedInv, SpeedTypes
      <3> QED BY <2>1, <3>1, <3>2 DEF SpeedInv, SpeedTypes
    <2>3. Latest' = {} /\ Served' = {}
      BY <2>1 DEF Served, Latest, SpeedInv, SpeedTypes
    <2>4. \E due : Schedule(due)'
      <3>1. PICK due : due = [a \in {} |-> 0]
        OBVIOUS
      <3>2. Schedule(due)'
        BY <2>1, <2>3, <3>1 DEF Schedule
      <3> QED BY <3>2
    <2> QED BY <2>2, <2>4 DEF SpeedInv
  <1>4. CASE UNCHANGED speedVars
    <2>1. PICK due : Schedule(due)
      BY DEF SpeedInv
    <2>2. Served' = Served /\ Latest' = Latest
      BY <1>4 DEF speedVars, Served, Latest
    <2>3. Schedule(due)'
      BY <1>4, <2>1, <2>2 DEF speedVars, Schedule
    <2>4. SpeedTypes'
      BY <1>4 DEF speedVars, SpeedInv, SpeedTypes
    <2> QED BY <2>3, <2>4 DEF SpeedInv
  <1> QED BY <1>1, <1>2, <1>3, <1>4, Reserve, Wake DEF SpeedNext

(* Since the rate was set, no more goes through than the rate times the    *)
(* time and a burst of two seconds, for any articles, rates and times.     *)
THEOREM TheRateIsKept == SpeedSpec => []RateIsKept
  <1>1. ASSUME SpeedInv, rate > 0
        PROVE  Cardinality(LetThrough) <= rate * (clock - changed_at + 2)
    <2>1. PICK due : Schedule(due)
      BY <1>1 DEF SpeedInv
    <2> DEFINE lo == rate * (changed_at - 2)
               hi == rate * clock
               Times == (lo + 1)..hi
               time == [x \in LetThrough |-> due[x[1]] - ArticleBytes[x[1]] + x[2]]
    <2>2. /\ rate \in Nat /\ clock \in Nat /\ changed_at \in Nat /\ changed_at <= clock
          /\ \A a \in since_change : ArticleBytes[a] \in Nat
      BY <1>1, SpeedAssumption DEF SpeedInv, SpeedTypes
    <2>3. lo \in Int /\ hi \in Int /\ lo <= hi
      BY <2>2, Monotone
    <2>4. hi - lo = rate * (clock - changed_at + 2)
      <3>1. lo = rate * changed_at - 2 * rate
        BY <2>2, Distribute
      <3>2. rate * (clock - changed_at + 2) = rate * (clock - changed_at) + 2 * rate
        BY <2>2, Distribute
      <3>3. rate * (clock - changed_at) = rate * clock - rate * changed_at
        BY <2>2, Distribute
      <3>4. rate * clock \in Int /\ rate * changed_at \in Int
        BY <2>2
      <3> QED BY <2>2, <3>1, <3>2, <3>3, <3>4
    <2>5. ASSUME NEW x \in LetThrough
          PROVE  /\ x = <<x[1], x[2]>> /\ x[1] \in since_change /\ x[2] \in 1..ArticleBytes[x[1]]
      BY DEF LetThrough
    <2>6. ASSUME NEW a \in since_change
          PROVE  /\ lo <= due[a] - ArticleBytes[a] /\ due[a] <= hi /\ due[a] \in Int
                 /\ \A b \in since_change : a # b => \/ due[a] <= due[b] - ArticleBytes[b]
                                                     \/ due[b] <= due[a] - ArticleBytes[a]
      BY <2>1 DEF Schedule, Served
    <2> HIDE DEF lo, hi
    <2>7. \A x \in LetThrough : time[x] \in Times
      BY <2>2, <2>3, <2>5, <2>6
    <2>8. ASSUME NEW x \in LetThrough, NEW y \in LetThrough, time[x] = time[y] PROVE x = y
      <3>1. x[1] = y[1]
        BY <2>2, <2>5, <2>6, <2>8
      <3>2. x[2] = y[2]
        BY <2>2, <2>5, <2>6, <2>8, <3>1
      <3> QED BY <2>5, <3>1, <3>2
    <2>9. time \in Injection(LetThrough, Times)
      BY <2>7, <2>8 DEF Injection, IsInjective
    <2>10. IsFiniteSet(Times) /\ Cardinality(Times) = hi - lo
      <3>1. /\ lo + 1 \in Int /\ hi - (lo + 1) + 1 = hi - lo
            /\ lo + 1 > hi => hi - lo = 0
        BY <2>3
      <3>2. /\ IsFiniteSet((lo + 1)..hi)
            /\ Cardinality((lo + 1)..hi) = IF lo + 1 > hi THEN 0 ELSE hi - (lo + 1) + 1
        BY <2>3, <3>1, FS_Interval
      <3> QED BY <3>1, <3>2
    <2> QED BY <2>4, <2>9, <2>10, FS_Injection
  <1>2. SpeedInv => RateIsKept
    BY <1>1 DEF RateIsKept
  <1> QED BY <1>2, SpeedStart, SpeedStep, PTL DEF SpeedSpec

-----------------------------------------------------------------------------
(* RemoteControl.                                                          *)

RemoteSpec == RemoteInit /\ [][RemoteNext]_remoteVars

(* The commands of a call, and how many of them were sent.                 *)
AskedOf(call) == Commands(call.request)
Sent(call) == Len(AskedOf(call)) - Len(call.left)

AllServed(done, n) == Len(done) = n /\ \A i \in 1..n : done[i]

(* Where a call stands, what is left of it, which of its replies were      *)
(* given and what it was told fit each other, while the coordinator is up  *)
(* and after.                                                              *)
IsCall(call) == DOMAIN call = {"request", "left", "state", "reply"}

CallShape(call, done) ==
    /\ IsCall(call)
    /\ call.state \in {"idle", "sending", "awaiting", "answered", "over"}
    /\ IsSequence(done) /\ IsSequence(call.left)
    /\ call.state = "idle" => done = <<>>
    /\ call.state # "idle" => call.request \in Requests

InProgress(call) ==
    /\ Sent(call) \in Nat
    /\ \A i \in 1..Len(call.left) : call.left[i] = AskedOf(call)[Sent(call) + i]

Sending(call, done) ==
    /\ InProgress(call) /\ call.left # <<>> /\ AllServed(done, Sent(call))
    /\ Sent(call) = 0 => call.reply.kind = "true"

Delivered(call) ==
    InProgress(call) /\ Sent(call) > 0 /\ \A i \in DOMAIN AskedOf(call) : HasReply(AskedOf(call)[i].name)

Awaiting(call, done, up) == Delivered(call) /\ up /\ AllServed(done, Sent(call) - 1)

ReplyGiven(call, done, up) ==
    /\ Delivered(call)
    /\ \/ call.reply.kind = "ok" /\ AllServed(done, Sent(call))
       \/ /\ call.reply.kind = "refused" /\ Len(done) = Sent(call)
          /\ \A i \in 1..Sent(call) : done[i] <=> i < Sent(call)
       \/ call.reply.kind = "Shutdown" /\ ~up /\ AllServed(done, Sent(call) - 1)

Told(call, done, up) ==
    LET asked == AskedOf(call)
    IN CASE call.reply.kind = "true" ->
              /\ Len(done) <= Len(asked)
              /\ \A i \in DOMAIN asked : HasReply(asked[i].name) <=> i \in DOMAIN done
              /\ \A i \in DOMAIN done : done[i]
         [] call.reply.kind = "refused" ->
              /\ done # <<>> /\ Len(done) <= Len(asked)
              /\ \A i \in DOMAIN done : done[i] <=> i < Len(done)
         [] OTHER ->
              /\ ~up /\ Len(done) < Len(asked)
              /\ \A i \in DOMAIN done : done[i]

CallOk(call, done, up) ==
    /\ CallShape(call, done)
    /\ call.state = "sending" => Sending(call, done)
    /\ call.state = "awaiting" => Awaiting(call, done, up)
    /\ call.state = "answered" => ReplyGiven(call, done, up)
    /\ call.state = "over" /\ call.reply.kind # "unknown" => Told(call, done, up)

(* Who waits has one command in the mailbox that will be replied to, and   *)
(* nobody else has any.                                                    *)
MailInv ==
    /\ IsSequence(mailbox)
    /\ \A i \in DOMAIN mailbox : mailbox[i].client \in Clients
    /\ \A i \in DOMAIN mailbox :
          HasReply(mailbox[i].name) => calls[mailbox[i].client].state = "awaiting"
    /\ \A i, j \in DOMAIN mailbox :
          HasReply(mailbox[i].name) /\ HasReply(mailbox[j].name)
             => (mailbox[i].client = mailbox[j].client => i = j)
    /\ \A c \in Clients : calls[c].state = "awaiting" =>
          \E i \in DOMAIN mailbox : mailbox[i].client = c /\ HasReply(mailbox[i].name)

RemoteInv ==
    /\ DOMAIN calls = Clients /\ DOMAIN served = Clients /\ alive \in BOOLEAN
    /\ \A c \in Clients : CallOk(calls[c], served[c], alive)
    /\ MailInv

(* A call becomes commands that all have a reply, or one that has none.    *)
LEMMA CommandsShape ==
    ASSUME NEW r \in Requests
    PROVE  /\ IsSequence(Commands(r))
           /\ \/ \A i \in DOMAIN Commands(r) : HasReply(Commands(r)[i].name)
              \/ Len(Commands(r)) = 1 /\ ~HasReply(Commands(r)[1].name)
  <1>1. ASSUME NEW x PROVE /\ IsSequence(<<x>>) /\ Len(<<x>>) = 1 /\ DOMAIN <<x>> = {1}
                           /\ <<x>>[1] = x
    BY TupleSequences
  <1>2. \A n, x, ids : Cmd(n, x, ids).name = n
    BY DEF Cmd
  <1>3. CASE r.method = "editqueue" /\ r.command \in HistoryCommands
    <2> DEFINE s == [i \in DOMAIN r.ids |-> Cmd(r.command, r.param, <<r.ids[i]>>)]
               S == {Cmd(r.command, r.param, <<n>>) : n \in Nat}
    <2>1. r.ids \in Seq(Nat)
      BY RemoteAssumption
    <2>2. DOMAIN r.ids = 1..Len(r.ids) /\ Len(r.ids) \in Nat /\ \A i \in DOMAIN r.ids : r.ids[i] \in Nat
      BY <2>1
    <2>3. s \in [1..Len(r.ids) -> S]
      BY <2>2
    <2>4. s \in Seq(S)
      BY <2>2, <2>3
    <2>5. \A i \in DOMAIN s : s[i].name = r.command
      BY <1>2
    <2>6. Commands(r) = s
      BY <1>3, SMTT(30) DEF Commands
    <2>7. HasReply(r.command)
      BY <1>3 DEF HasReply, HistoryCommands, Marks
    <2> HIDE DEF s, S
    <2> QED BY <2>4, <2>5, <2>6, <2>7, AnySequence
  <1>4. CASE r.method = "editqueue" /\ r.command \notin HistoryCommands
    <2> DEFINE action == parse_edit_command(r.command, r.param)
    <2>1. Commands(r) = IF action.name = "Unknown" THEN <<>>
                        ELSE <<Cmd(action.name, action.arg, r.ids)>>
      BY <1>4 DEF Commands
    <2>2. HasReply(action.name)
      BY DEF HasReply, parse_edit_command
    <2> HIDE DEF action
    <2>3. CASE action.name = "Unknown"
      BY <2>1, <2>3, TupleSequences
    <2>4. CASE action.name # "Unknown"
      BY <1>1, <1>2, <2>1, <2>2, <2>4
    <2> QED BY <2>3, <2>4
  <1>5. CASE r.method # "editqueue"
    <2>1. \E n, x, ids : Commands(r) = <<Cmd(n, x, ids)>>
      BY <1>5, RemoteAssumption DEF Commands, Methods
    <2> QED BY <1>1, <1>2, <2>1
  <1> QED BY <1>3, <1>4, <1>5

LEMMA NextCommand ==
    ASSUME NEW call, InProgress(call), IsSequence(call.left), call.left # <<>>,
           call.request \in Requests
    PROVE  /\ Sent(call) < Len(AskedOf(call)) /\ Sent(call) + 1 \in DOMAIN AskedOf(call)
           /\ Head(call.left) = AskedOf(call)[Sent(call) + 1]
           /\ Len(AskedOf(call)) \in Nat /\ DOMAIN AskedOf(call) = 1..Len(AskedOf(call))
           /\ Len(call.left) \in Nat /\ Len(Tail(call.left)) = Len(call.left) - 1
           /\ IsSequence(Tail(call.left))
           /\ \A i \in 1..Len(Tail(call.left)) :
                 Tail(call.left)[i] = AskedOf(call)[Sent(call) + 1 + i]
  <1>1. IsSequence(AskedOf(call))
    BY CommandsShape DEF AskedOf
  <1>2. Len(AskedOf(call)) \in Nat /\ DOMAIN AskedOf(call) = 1..Len(AskedOf(call))
    BY <1>1, AnySequence DEF IsSequence
  <1>3. /\ IsSequence(Tail(call.left)) /\ Len(Tail(call.left)) = Len(call.left) - 1
        /\ Len(call.left) \in Nat \ {0} /\ Head(call.left) = call.left[1]
        /\ \A i \in 1..(Len(call.left) - 1) : Tail(call.left)[i] = call.left[i + 1]
    BY TailElements
  <1>4. Sent(call) \in Nat /\ Sent(call) < Len(AskedOf(call))
    BY <1>2, <1>3 DEF InProgress, Sent
  <1>5. Head(call.left) = AskedOf(call)[Sent(call) + 1]
    BY <1>3 DEF InProgress
  <1>6. ASSUME NEW i \in 1..Len(Tail(call.left))
        PROVE  Tail(call.left)[i] = AskedOf(call)[Sent(call) + 1 + i]
    <2>1. Tail(call.left)[i] = call.left[i + 1] /\ i + 1 \in 1..Len(call.left)
      BY <1>3
    <2>2. call.left[i + 1] = AskedOf(call)[Sent(call) + (i + 1)]
      BY <2>1 DEF InProgress
    <2>3. Sent(call) + (i + 1) = Sent(call) + 1 + i
      BY <1>3, <1>4
    <2> QED BY <2>1, <2>2, <2>3
  <1> QED BY <1>2, <1>3, <1>4, <1>5, <1>6

(* The steps of a call, seen in its record.                                *)
LEMMA CallBegins ==
    ASSUME NEW done, IsSequence(done), Len(done) = 0, NEW up, NEW call,
           IsCall(call),
           call.request \in Requests, IsSequence(call.left), Len(call.left) = Len(AskedOf(call)),
           \A i \in 1..Len(call.left) : call.left[i] = AskedOf(call)[i],
           \/ call.state = "sending" /\ call.left # <<>> /\ call.reply.kind = "true"
           \/ /\ call.state = "over" /\ Len(call.left) = 0
              /\ call.reply.kind \in {"true", "unknown"}
    PROVE  CallOk(call, done, up)
  <1>1. IsSequence(AskedOf(call))
    BY CommandsShape DEF AskedOf
  <1>2. /\ Len(call.left) \in Nat /\ DOMAIN AskedOf(call) = 1..Len(AskedOf(call))
        /\ DOMAIN done = 1..0
    BY <1>1, AnySequence DEF IsSequence
  <1>3. Sent(call) = 0
    BY <1>2 DEF Sent
  <1>4. CallShape(call, done)
    BY DEF CallShape
  <1>5. CASE call.state = "sending"
    <2>1. InProgress(call)
      BY <1>2, <1>3 DEF InProgress
    <2>2. Sending(call, done)
      BY <1>3, <1>5, <2>1 DEF Sending, AllServed
    <2> QED BY <1>4, <1>5, <2>2 DEF CallOk
  <1>6. CASE call.state = "over"
    <2>1. DOMAIN AskedOf(call) = {} /\ DOMAIN done = {} /\ Len(AskedOf(call)) = 0
      BY <1>2, <1>6
    <2>2. Told(call, done, up) \/ call.reply.kind = "unknown"
      BY <1>6, <2>1 DEF Told
    <2> QED BY <1>4, <1>6, <2>2 DEF CallOk
  <1> QED BY <1>5, <1>6

SameCall(next, call) ==
    IsCall(next) /\ next.request = call.request /\ next.left = call.left

LEMMA CallIsOver ==
    ASSUME NEW call, NEW done, NEW up, NEW next, CallShape(call, done), call.state # "idle",
           SameCall(next, call), next.state = "over", next.reply.kind = "Shutdown",
           ~up, InProgress(call), NEW n \in Nat, n < Len(AskedOf(call)), AllServed(done, n)
    PROVE  CallOk(next, done, up)
  <1>1. next.request = call.request /\ next.left = call.left
    BY DEF SameCall
  <1>2. CallShape(next, done)
    BY <1>1 DEF CallShape, SameCall
  <1>3. AskedOf(next) = AskedOf(call)
    BY <1>1 DEF AskedOf
  <1>4. IsSequence(done)
    BY DEF CallShape
  <1>5. DOMAIN done = 1..n /\ Len(done) = n
    BY <1>4, AnySequence DEF AllServed, IsSequence
  <1>6. Told(next, done, up)
    BY <1>1, <1>3, <1>5 DEF Told, AllServed
  <1> QED BY <1>1, <1>2, <1>6 DEF CallOk

LEMMA CommandIsSent ==
    ASSUME NEW call, NEW done, NEW up, NEW next, CallOk(call, done, up), call.state = "sending",
           up, next = [call EXCEPT !.left = Tail(@),
                         !.state = IF HasReply(Head(call.left).name) THEN "awaiting" ELSE "over"]
    PROVE  CallOk(next, done, up)
  <1>1. /\ CallShape(call, done) /\ InProgress(call) /\ call.left # <<>>
        /\ AllServed(done, Sent(call)) /\ Sent(call) \in Nat
        /\ Sent(call) = 0 => call.reply.kind = "true"
        /\ IsSequence(call.left) /\ IsSequence(done) /\ call.request \in Requests
    BY DEF CallOk, Sending, CallShape, InProgress
  <1>2. /\ DOMAIN next = DOMAIN call /\ next.left = Tail(call.left)
        /\ next.request = call.request /\ next.reply = call.reply
        /\ next.state = IF HasReply(Head(call.left).name) THEN "awaiting" ELSE "over"
    BY <1>1 DEF CallShape
  <1> DEFINE n == Len(AskedOf(call))
  <1>3. /\ Sent(call) < n /\ Sent(call) + 1 \in DOMAIN AskedOf(call)
        /\ Head(call.left) = AskedOf(call)[Sent(call) + 1]
        /\ n \in Nat /\ DOMAIN AskedOf(call) = 1..n
        /\ Len(call.left) \in Nat /\ Len(Tail(call.left)) = Len(call.left) - 1
        /\ IsSequence(Tail(call.left))
    BY <1>1, NextCommand
  <1>4. \A i \in 1..Len(Tail(call.left)) : Tail(call.left)[i] = AskedOf(call)[Sent(call) + 1 + i]
    BY <1>1, NextCommand
  <1>5. AskedOf(next) = AskedOf(call) /\ Sent(next) = Sent(call) + 1
    <2>1. AskedOf(next) = AskedOf(call)
      BY <1>2 DEF AskedOf
    <2>2. Sent(next) = n - (Len(call.left) - 1)
      BY <1>2, <1>3, <2>1 DEF Sent
    <2>3. Sent(call) = n - Len(call.left)
      BY DEF Sent
    <2> QED BY <1>3, <2>1, <2>2, <2>3
  <1>6. InProgress(next)
    BY <1>1, <1>2, <1>4, <1>5 DEF InProgress
  <1>7. CallShape(next, done)
    BY <1>1, <1>2, <1>3 DEF CallShape, IsCall
  <1>8. \/ \A i \in DOMAIN AskedOf(call) : HasReply(AskedOf(call)[i].name)
        \/ n = 1 /\ ~HasReply(AskedOf(call)[1].name)
    BY <1>1, CommandsShape DEF AskedOf
  <1>9. CASE HasReply(Head(call.left).name)
    <2>1. \A i \in DOMAIN AskedOf(next) : HasReply(AskedOf(next)[i].name)
      BY <1>1, <1>3, <1>5, <1>8, <1>9
    <2>2. Awaiting(next, done, up)
      BY <1>1, <1>5, <1>6, <2>1 DEF Awaiting, Delivered
    <2>3. next.state = "awaiting"
      BY <1>2, <1>9
    <2> QED BY <1>7, <2>2, <2>3 DEF CallOk
  <1>10. CASE ~HasReply(Head(call.left).name)
    <2>1. n = 1 /\ Sent(call) = 0 /\ ~HasReply(AskedOf(call)[1].name)
      BY <1>1, <1>3, <1>8, <1>10
    <2>2. Len(done) = 0 /\ DOMAIN done = {} /\ DOMAIN AskedOf(call) = {1}
      BY <1>1, <1>3, <2>1, AnySequence DEF AllServed, IsSequence
    <2>3. next.reply.kind = "true"
      BY <1>1, <1>2, <2>1
    <2>4. Told(next, done, up)
      BY <1>5, <2>1, <2>2, <2>3 DEF Told
    <2>5. next.state = "over"
      BY <1>2, <1>10
    <2> QED BY <1>7, <2>4, <2>5 DEF CallOk
  <1> QED BY <1>9, <1>10

LEMMA ReplyIsGiven ==
    ASSUME NEW call, NEW done, NEW up, NEW next, NEW answer, NEW more,
           CallOk(call, done, up), call.state = "awaiting", answer.kind \in {"ok", "refused"},
           IsSequence(more), Len(more) = Len(done) + 1,
           \A i \in 1..Len(done) : more[i] = done[i],
           more[Len(done) + 1] <=> answer.kind = "ok",
           SameCall(next, call), next.state = "answered", next.reply = answer
    PROVE  CallOk(next, more, up)
  <1>1. /\ CallShape(call, done) /\ Awaiting(call, done, up) /\ IsSequence(done)
        /\ IsSequence(call.left) /\ call.request \in Requests
    BY DEF CallOk, CallShape
  <1>2. /\ IsCall(next) /\ next.left = call.left /\ next.request = call.request
        /\ next.reply = answer /\ next.state = "answered"
    BY DEF SameCall
  <1>3. /\ IsSequence(more) /\ Len(more) = Len(done) + 1 /\ Len(done) \in Nat
        /\ \A i \in 1..Len(done) : more[i] = done[i]
        /\ more[Len(done) + 1] <=> answer.kind = "ok"
    BY <1>1, AnySequence DEF IsSequence
  <1>4. CallShape(next, more)
    BY <1>1, <1>2, <1>3 DEF CallShape
  <1>5. AskedOf(next) = AskedOf(call) /\ Sent(next) = Sent(call)
    BY <1>2 DEF AskedOf, Sent
  <1>6. Delivered(next) /\ Sent(call) \in Nat /\ Sent(call) > 0
    BY <1>1, <1>2, <1>5 DEF Awaiting, Delivered, InProgress
  <1>7. Len(done) = Sent(call) - 1 /\ \A i \in 1..(Sent(call) - 1) : done[i]
    BY <1>1 DEF Awaiting, AllServed
  <1>8. Len(more) = Sent(call) /\ \A i \in 1..Sent(call) : i < Sent(call) => more[i]
    BY <1>3, <1>6, <1>7
  <1>9. more[Sent(call)] <=> answer.kind = "ok"
    BY <1>3, <1>6, <1>7
  <1>10. CASE answer.kind = "ok"
    <2>1. more[Sent(call)]
      BY <1>9, <1>10
    <2>2. AllServed(more, Sent(call))
      BY <1>6, <1>8, <2>1 DEF AllServed
    <2>3. ReplyGiven(next, more, up)
      BY <1>2, <1>5, <1>6, <1>10, <2>2 DEF ReplyGiven
    <2> QED BY <1>2, <1>4, <2>3 DEF CallOk
  <1>11. CASE answer.kind = "refused"
    <2>1. ~more[Sent(call)]
      BY <1>9, <1>11
    <2>2. \A i \in 1..Sent(call) : more[i] <=> i < Sent(call)
      BY <1>6, <1>8, <2>1
    <2>3. ReplyGiven(next, more, up)
      BY <1>2, <1>5, <1>6, <1>8, <1>11, <2>2 DEF ReplyGiven
    <2> QED BY <1>2, <1>4, <2>3 DEF CallOk
  <1> QED BY <1>10, <1>11

LEMMA CoordinatorEnds ==
    ASSUME NEW call, NEW done, CallOk(call, done, TRUE), NEW next,
           next = IF call.state = "awaiting"
                  THEN [call EXCEPT !.state = "answered", !.reply = Answer("Shutdown", 0)]
                  ELSE call
    PROVE  CallOk(next, done, FALSE)
  <1>1. CASE call.state = "awaiting"
    <2>1. CallShape(call, done) /\ Awaiting(call, done, TRUE)
      BY <1>1 DEF CallOk
    <2>2. /\ DOMAIN next = DOMAIN call /\ next.left = call.left /\ next.request = call.request
          /\ next.reply.kind = "Shutdown" /\ next.state = "answered"
      BY <1>1, <2>1 DEF CallShape, IsCall, Answer
    <2>3. AskedOf(next) = AskedOf(call) /\ Sent(next) = Sent(call)
      BY <2>2 DEF AskedOf, Sent
    <2>4. Delivered(next) /\ AllServed(done, Sent(next) - 1)
      BY <2>1, <2>2, <2>3 DEF Awaiting, Delivered, InProgress
    <2>5. ReplyGiven(next, done, FALSE)
      BY <2>2, <2>4 DEF ReplyGiven
    <2>6. CallShape(next, done)
      BY <1>1, <2>1, <2>2 DEF CallShape, IsCall
    <2> QED BY <2>2, <2>5, <2>6 DEF CallOk
  <1>2. CASE call.state # "awaiting"
    <2>1. next = call
      BY <1>2
    <2>2. CallShape(call, done) /\ (call.state = "sending" => Sending(call, done))
      BY DEF CallOk
    <2>3. call.state = "answered" => ReplyGiven(call, done, FALSE)
      BY DEF CallOk, ReplyGiven
    <2>4. call.state = "over" /\ call.reply.kind # "unknown" => Told(call, done, FALSE)
      BY DEF CallOk, Told
    <2> QED BY <1>2, <2>1, <2>2, <2>3, <2>4 DEF CallOk
  <1> QED BY <1>1, <1>2

(* AfterReply, for the record of the call.                                 *)
LEMMA ReplyIsRead ==
    ASSUME NEW call, NEW done, NEW up, up \in BOOLEAN, NEW next,
           CallOk(call, done, up), call.state = "answered",
           SameCall(next, call),
           \/ /\ call.reply.kind \in {"refused", "Shutdown"}
              /\ next.state = "over" /\ next.reply.kind = call.reply.kind
           \/ /\ call.reply.kind \notin {"refused", "Shutdown"} /\ call.left # <<>>
              /\ next.state = "sending"
           \/ /\ call.reply.kind \notin {"refused", "Shutdown"} /\ call.left = <<>>
              /\ next.state = "over" /\ next.reply.kind = "true"
    PROVE  CallOk(next, done, up)
  <1> DEFINE n == Len(AskedOf(call))
  <1>1. /\ CallShape(call, done) /\ ReplyGiven(call, done, up) /\ IsSequence(done)
        /\ IsSequence(call.left) /\ call.request \in Requests /\ Delivered(call)
        /\ InProgress(call) /\ Sent(call) \in Nat /\ Sent(call) > 0
    BY DEF CallOk, CallShape, ReplyGiven, Delivered, InProgress
  <1>2. IsSequence(AskedOf(call)) /\ n \in Nat /\ DOMAIN AskedOf(call) = 1..n
    BY <1>1, CommandsShape, AnySequence DEF AskedOf, IsSequence
  <1>3. Len(call.left) \in Nat /\ DOMAIN done = 1..Len(done) /\ Len(done) \in Nat
    BY <1>1, AnySequence DEF IsSequence
  <1>4. Sent(call) = n - Len(call.left)
    BY DEF Sent
  <1>5. Sent(call) <= n
    BY <1>2, <1>3, <1>4
  <1>6. CASE call.reply.kind = "Shutdown"
    <2>1. ~up /\ AllServed(done, Sent(call) - 1)
      BY <1>1, <1>6 DEF ReplyGiven
    <2>2. next.state = "over" /\ next.reply.kind = "Shutdown"
      BY <1>6
    <2>3. Sent(call) - 1 \in Nat /\ Sent(call) - 1 < n
      BY <1>1, <1>2, <1>5
    <2> QED BY <1>1, <2>1, <2>2, <2>3, CallIsOver
  <1>7. CASE call.reply.kind = "refused"
    <2>1. Len(done) = Sent(call) /\ \A i \in 1..Sent(call) : done[i] <=> i < Sent(call)
      BY <1>1, <1>7 DEF ReplyGiven
    <2>2. /\ IsCall(next) /\ next.request = call.request /\ next.left = call.left
          /\ next.state = "over" /\ next.reply.kind = "refused"
      BY <1>7 DEF SameCall
    <2>3. AskedOf(next) = AskedOf(call)
      BY <2>2 DEF AskedOf
    <2>4. done # <<>> /\ Len(done) <= Len(AskedOf(next))
      BY <1>1, <1>3, <1>5, <2>1, <2>3
    <2>5. Told(next, done, up)
      BY <1>3, <2>1, <2>2, <2>4 DEF Told
    <2>6. CallShape(next, done)
      BY <1>1, <2>2 DEF CallShape
    <2> QED BY <2>2, <2>5, <2>6 DEF CallOk
  <1>8. CASE call.reply.kind \notin {"refused", "Shutdown"}
    <2>1. AllServed(done, Sent(call))
      BY <1>1, <1>8 DEF ReplyGiven
    <2>2. CASE call.left # <<>>
      <3>1. next.left # <<>>
        BY <2>2 DEF SameCall
      <3>2. /\ IsCall(next) /\ next.request = call.request
            /\ next.left = call.left /\ next.state = "sending"
        BY <1>8, <2>2 DEF SameCall
      <3>3. AskedOf(next) = AskedOf(call) /\ Sent(next) = Sent(call)
        BY <3>2 DEF AskedOf, Sent
      <3>4. Sending(next, done)
        BY <1>1, <2>1, <3>1, <3>2, <3>3 DEF Sending, InProgress
      <3>5. CallShape(next, done)
        BY <1>1, <3>2 DEF CallShape
      <3> QED BY <3>2, <3>4, <3>5 DEF CallOk
    <2>3. CASE call.left = <<>>
      <3>2. /\ IsCall(next) /\ next.request = call.request
            /\ next.left = call.left /\ next.state = "over" /\ next.reply.kind = "true"
        BY <1>8, <2>3 DEF SameCall
      <3>3. Len(call.left) = 0
        BY <2>3
      <3>4. AskedOf(next) = AskedOf(call) /\ Len(done) = n
        BY <1>2, <1>4, <2>1, <3>2, <3>3 DEF AskedOf, AllServed
      <3>5. \A i \in DOMAIN done : done[i]
        BY <1>2, <1>3, <1>4, <2>1, <3>3 DEF AllServed
      <3>6. \A i \in DOMAIN AskedOf(call) : HasReply(AskedOf(call)[i].name)
        BY <1>1 DEF Delivered
      <3>7. Told(next, done, up)
        BY <1>2, <1>3, <3>2, <3>4, <3>5, <3>6 DEF Told
      <3>8. CallShape(next, done)
        BY <1>1, <3>2 DEF CallShape
      <3> QED BY <3>2, <3>7, <3>8 DEF CallOk
    <2> QED BY <2>2, <2>3
  <1> QED BY <1>6, <1>7, <1>8

LEMMA OneCallChanges ==
    ASSUME RemoteInv, NEW c \in Clients, alive' = alive, DOMAIN calls' = Clients,
           DOMAIN served' = Clients,
           \A d \in Clients \ {c} : calls'[d] = calls[d] /\ served'[d] = served[d],
           CallOk(calls'[c], served'[c], alive), MailInv'
    PROVE  RemoteInv'
  <1>1. ASSUME NEW d \in Clients PROVE CallOk(calls'[d], served'[d], alive')
    <2>1. CASE d = c
      BY <2>1
    <2>2. CASE d # c
      <3>1. calls'[d] = calls[d] /\ served'[d] = served[d]
        BY <2>2
      <3>2. CallOk(calls[d], served[d], alive)
        BY DEF RemoteInv
      <3> QED BY <3>1, <3>2
    <2> QED BY <2>1, <2>2
  <1>2. alive' \in BOOLEAN
    BY DEF RemoteInv
  <1> QED BY <1>1, <1>2 DEF RemoteInv

LEMMA MailStays ==
    ASSUME MailInv, mailbox' = mailbox, NEW c \in Clients,
           \A d \in Clients \ {c} : calls'[d] = calls[d],
           calls[c].state # "awaiting", calls'[c].state # "awaiting"
    PROVE  MailInv'
  <1>1. ASSUME NEW i \in DOMAIN mailbox, HasReply(mailbox[i].name)
        PROVE  calls'[mailbox[i].client].state = "awaiting"
    <2>1. mailbox[i].client \in Clients /\ calls[mailbox[i].client].state = "awaiting"
      BY <1>1 DEF MailInv
    <2> QED BY <2>1
  <1>2. ASSUME NEW d \in Clients, calls'[d].state = "awaiting"
        PROVE  \E i \in DOMAIN mailbox : mailbox[i].client = d /\ HasReply(mailbox[i].name)
    <2>1. d # c /\ calls[d].state = "awaiting"
      BY <1>2
    <2> QED BY <2>1 DEF MailInv
  <1> QED BY <1>1, <1>2 DEF MailInv

LEMMA RequestStep ==
    ASSUME RemoteInv, NEW c \in Clients, NEW r \in Requests, Request(c, r)
    PROVE  RemoteInv'
  <1> DEFINE left == Commands(r)
             unknown == left = <<>> /\ r.command \notin HistoryCommands
             next == [request |-> r, left |-> left,
                      state |-> IF left = <<>> THEN "over" ELSE "sending",
                      reply |-> Answer(IF unknown THEN "unknown" ELSE "true", 0)]
  <1>1. /\ calls[c].state = "idle" /\ calls' = [calls EXCEPT ![c] = next]
        /\ alive' = alive /\ mailbox' = mailbox /\ served' = served
    BY DEF Request, queueState
  <1>2. DOMAIN calls = Clients /\ DOMAIN served = Clients /\ CallOk(calls[c], served[c], alive)
    BY DEF RemoteInv
  <1>3. /\ calls'[c] = next /\ DOMAIN calls' = Clients
        /\ \A d \in Clients \ {c} : calls'[d] = calls[d]
    BY <1>1, <1>2
  <1>4. served[c] = <<>> /\ IsSequence(served[c]) /\ Len(served[c]) = 0
    BY <1>1, <1>2, TupleSequences DEF CallOk, CallShape
  <1>5. next.request = r /\ next.left = left /\ AskedOf(next) = left /\ IsCall(next)
    BY DEF AskedOf, IsCall
  <1>6. IsSequence(left)
    BY CommandsShape
  <1>7. left = <<>> => Len(left) = 0
    OBVIOUS
  <1>8. \/ next.state = "sending" /\ next.left # <<>> /\ next.reply.kind = "true"
        \/ /\ next.state = "over" /\ Len(next.left) = 0
           /\ next.reply.kind \in {"true", "unknown"}
    BY <1>7 DEF Answer
  <1> HIDE DEF next, left
  <1>9. CallOk(next, served[c], alive)
    BY <1>4, <1>5, <1>6, <1>8, CallBegins
  <1>10. next.state # "awaiting"
    BY <1>8
  <1>11. MailInv'
    BY <1>1, <1>3, <1>10, MailStays DEF RemoteInv
  <1> QED BY <1>1, <1>2, <1>3, <1>9, <1>11, OneCallChanges

LEMMA SendCommandStep ==
    ASSUME RemoteInv, NEW c \in Clients, SendCommand(c)
    PROVE  RemoteInv'
  <1>1. /\ calls[c].state = "sending" /\ alive' = alive /\ served' = served
    BY DEF SendCommand
  <1>2. /\ DOMAIN calls = Clients /\ DOMAIN served = Clients /\ CallOk(calls[c], served[c], alive)
        /\ CallShape(calls[c], served[c]) /\ Sending(calls[c], served[c]) /\ alive \in BOOLEAN
    BY <1>1 DEF RemoteInv, CallOk
  <1>3. CASE ~alive
    <2> DEFINE next == [calls[c] EXCEPT !.state = "over", !.reply = Answer("Shutdown", 0)]
    <2>1. calls' = [calls EXCEPT ![c] = next] /\ mailbox' = mailbox
      BY <1>3, Zenon DEF SendCommand, Over
    <2>2. calls'[c] = next /\ DOMAIN calls' = Clients /\ \A d \in Clients \ {c} : calls'[d] = calls[d]
      BY <1>2, <2>1
    <2>3. SameCall(next, calls[c]) /\ next.state = "over" /\ next.reply.kind = "Shutdown"
      BY <1>2 DEF CallShape, IsCall, SameCall, Answer
    <2>4. /\ InProgress(calls[c]) /\ AllServed(served[c], Sent(calls[c]))
          /\ IsSequence(calls[c].left) /\ calls[c].left # <<>> /\ calls[c].request \in Requests
      BY <1>1, <1>2 DEF Sending, CallShape
    <2>5. Sent(calls[c]) \in Nat /\ Sent(calls[c]) < Len(AskedOf(calls[c]))
      BY <2>4, NextCommand DEF InProgress
    <2>6. \A n \in Nat : n < Len(AskedOf(calls[c])) /\ AllServed(served[c], n)
                            => CallOk(next, served[c], alive)
      BY <1>1, <1>2, <1>3, <2>3, <2>4, CallIsOver
    <2>7. CallOk(next, served[c], alive)
      BY <2>4, <2>5, <2>6
    <2> HIDE DEF next
    <2>8. MailInv'
      BY <1>1, <2>1, <2>2, <2>3, MailStays DEF RemoteInv
    <2> QED BY <1>1, <1>2, <2>2, <2>7, <2>8, OneCallChanges
  <1>4. CASE alive
    <2> DEFINE cmd == Head(calls[c].left)
               m == [client |-> c, name |-> cmd.name, arg |-> cmd.arg, ids |-> cmd.ids]
               next == [calls[c] EXCEPT !.left = Tail(@),
                          !.state = IF HasReply(cmd.name) THEN "awaiting" ELSE "over"]
    <2>1. calls' = [calls EXCEPT ![c] = next] /\ mailbox' = Append(mailbox, m)
      BY <1>4, Zenon DEF SendCommand
    <2>2. calls'[c] = next /\ DOMAIN calls' = Clients /\ \A d \in Clients \ {c} : calls'[d] = calls[d]
      BY <1>2, <2>1
    <2>3. CallOk(next, served[c], alive)
      BY <1>1, <1>2, <1>4, CommandIsSent
    <2>4. next.state = IF HasReply(m.name) THEN "awaiting" ELSE "over"
      BY <1>2 DEF CallShape, IsCall
    <2>5. m.client = c
      OBVIOUS
    <2> HIDE DEF next, m
    <2> DEFINE n == Len(mailbox)
    <2>6. MailInv
      BY DEF RemoteInv
    <2>7. /\ IsSequence(mailbox') /\ n \in Nat /\ DOMAIN mailbox = 1..n
          /\ DOMAIN mailbox' = 1..(n + 1)
          /\ mailbox'[n + 1] = m /\ \A i \in 1..n : mailbox'[i] = mailbox[i]
      <3>1. /\ IsSequence(mailbox') /\ n \in Nat /\ Len(mailbox') = n + 1
            /\ mailbox'[n + 1] = m /\ \A i \in 1..n : mailbox'[i] = mailbox[i]
        BY <2>1, <2>6, AppendElements DEF MailInv
      <3>2. IsSequence(mailbox)
        BY <2>6 DEF MailInv
      <3>3. DOMAIN mailbox = 1..n /\ DOMAIN mailbox' = 1..Len(mailbox')
        BY <3>1, <3>2, AnySequence DEF IsSequence
      <3> QED BY <3>1, <3>3
    <2> HIDE DEF n
    <2>8. \A i \in 1..n : /\ mailbox[i].client \in Clients
                          /\ HasReply(mailbox[i].name) =>
                                /\ calls[mailbox[i].client].state = "awaiting"
                                /\ mailbox[i].client # c
      BY <1>1, <2>6, <2>7 DEF MailInv
    <2>9. \A i \in DOMAIN mailbox' : mailbox'[i].client \in Clients
      BY <2>5, <2>7, <2>8
    <2>10. ASSUME NEW i \in DOMAIN mailbox', HasReply(mailbox'[i].name)
           PROVE  calls'[mailbox'[i].client].state = "awaiting"
      <3>1. CASE i = n + 1
        BY <2>2, <2>4, <2>5, <2>7, <2>10, <3>1
      <3>2. CASE i # n + 1
        <4>1. i \in 1..n /\ mailbox'[i] = mailbox[i]
          BY <2>7, <3>2
        <4> QED BY <2>2, <2>8, <2>10, <4>1
      <3> QED BY <3>1, <3>2
    <2>11. ASSUME NEW i \in DOMAIN mailbox', NEW j \in DOMAIN mailbox',
                  HasReply(mailbox'[i].name), HasReply(mailbox'[j].name),
                  mailbox'[i].client = mailbox'[j].client
           PROVE  i = j
      <3>1. CASE i \in 1..n /\ j \in 1..n
        BY <2>6, <2>7, <2>11, <3>1 DEF MailInv
      <3>2. CASE i = n + 1 /\ j \in 1..n
        BY <2>5, <2>7, <2>8, <2>11, <3>2
      <3>3. CASE j = n + 1 /\ i \in 1..n
        BY <2>5, <2>7, <2>8, <2>11, <3>3
      <3>4. i \in 1..n \/ i = n + 1
        BY <2>7
      <3>5. j \in 1..n \/ j = n + 1
        BY <2>7
      <3> QED BY <3>1, <3>2, <3>3, <3>4, <3>5
    <2>12. ASSUME NEW d \in Clients, calls'[d].state = "awaiting"
           PROVE  \E i \in DOMAIN mailbox' :
                     mailbox'[i].client = d /\ HasReply(mailbox'[i].name)
      <3>1. CASE d = c
        <4>1. HasReply(m.name) /\ n + 1 \in DOMAIN mailbox'
          BY <2>2, <2>4, <2>7, <2>12, <3>1
        <4> QED BY <2>5, <2>7, <3>1, <4>1
      <3>2. CASE d # c
        <4>1. PICK i \in 1..n : mailbox[i].client = d /\ HasReply(mailbox[i].name)
          BY <2>2, <2>6, <2>7, <2>12, <3>2 DEF MailInv
        <4>2. i \in DOMAIN mailbox' /\ mailbox'[i] = mailbox[i]
          BY <2>7
        <4> QED BY <4>1, <4>2
      <3> QED BY <3>1, <3>2
    <2>13. MailInv'
      BY <2>7, <2>9, <2>10, <2>11, <2>12 DEF MailInv
    <2> QED BY <1>1, <1>2, <2>2, <2>3, <2>13, OneCallChanges
  <1> QED BY <1>2, <1>3, <1>4

LEMMA ReplyStep ==
    ASSUME RemoteInv, NEW c \in Clients, ReplyArrives(c)
    PROVE  RemoteInv'
  <1> DEFINE call == calls[c]
             reply == calls[c].reply
  <1>1. /\ call.state = "answered" /\ alive' = alive /\ mailbox' = mailbox /\ served' = served
        /\ calls' = AfterReply(c, reply)
    BY DEF ReplyArrives
  <1>2. /\ DOMAIN calls = Clients /\ DOMAIN served = Clients /\ CallOk(call, served[c], alive)
        /\ alive \in BOOLEAN /\ CallShape(call, served[c])
    BY DEF RemoteInv, CallOk
  <1> DEFINE over(kind) == [call EXCEPT !.state = "over", !.reply = Answer(kind, 0)]
             more == [call EXCEPT !.state = "sending"]
             next == IF reply.kind \in {"refused", "Shutdown"} THEN over(reply.kind)
                     ELSE IF call.left # <<>> THEN more ELSE over("true")
  <1>3. calls' = [calls EXCEPT ![c] = next]
    <2>1. CASE reply.kind \in {"refused", "Shutdown"}
      <3>1. calls' = [calls EXCEPT ![c] = over(reply.kind)]
        BY <1>1, <2>1, Zenon DEF AfterReply, Over
      <3> QED BY <2>1, <3>1
    <2>2. CASE reply.kind \notin {"refused", "Shutdown"} /\ call.left # <<>>
      <3>1. calls' = [calls EXCEPT ![c] = more]
        BY <1>1, <2>2, Zenon DEF AfterReply
      <3> QED BY <2>2, <3>1
    <2>3. CASE reply.kind \notin {"refused", "Shutdown"} /\ call.left = <<>>
      <3>1. calls' = [calls EXCEPT ![c] = over("true")]
        BY <1>1, <2>3, Zenon DEF AfterReply, Over
      <3> QED BY <2>3, <3>1
    <2> QED BY <2>1, <2>2, <2>3
  <1>4. /\ SameCall(next, call) /\ next.state # "awaiting"
        /\ \/ /\ reply.kind \in {"refused", "Shutdown"}
              /\ next.state = "over" /\ next.reply.kind = reply.kind
           \/ /\ reply.kind \notin {"refused", "Shutdown"} /\ call.left # <<>>
              /\ next.state = "sending"
           \/ /\ reply.kind \notin {"refused", "Shutdown"} /\ call.left = <<>>
              /\ next.state = "over" /\ next.reply.kind = "true"
    <2>1. \A kind : /\ SameCall(over(kind), call) /\ over(kind).state = "over"
                    /\ over(kind).reply.kind = kind
      BY <1>2 DEF CallShape, IsCall, SameCall, Answer
    <2>2. SameCall(more, call) /\ more.state = "sending"
      BY <1>2 DEF CallShape, IsCall, SameCall
    <2> HIDE DEF over, more
    <2> QED BY <2>1, <2>2
  <1> HIDE DEF next
  <1>5. CallOk(next, served[c], alive)
    BY <1>1, <1>2, <1>4, ReplyIsRead
  <1>6. calls'[c] = next /\ DOMAIN calls' = Clients /\ \A d \in Clients \ {c} : calls'[d] = calls[d]
    BY <1>2, <1>3
  <1>7. MailInv'
    BY <1>1, <1>4, <1>6, MailStays DEF RemoteInv
  <1> QED BY <1>1, <1>2, <1>5, <1>6, <1>7, OneCallChanges

LEMMA RestStep ==
    ASSUME RemoteInv, NEW c \in Clients, Rest(c)
    PROVE  RemoteInv'
  <1>1. /\ calls[c].state = "over" /\ alive' = alive /\ mailbox' = mailbox
        /\ calls' = [calls EXCEPT ![c] = Free] /\ served' = [served EXCEPT ![c] = <<>>]
    BY DEF Rest
  <1>2. DOMAIN calls = Clients /\ DOMAIN served = Clients
    BY DEF RemoteInv
  <1>3. CallOk(Free, <<>>, alive) /\ Free.state # "awaiting"
    BY TupleSequences DEF CallOk, CallShape, IsCall, Free
  <1>4. /\ calls'[c] = Free /\ served'[c] = <<>> /\ DOMAIN calls' = Clients
        /\ DOMAIN served' = Clients
        /\ \A d \in Clients \ {c} : calls'[d] = calls[d] /\ served'[d] = served[d]
    BY <1>1, <1>2
  <1>5. MailInv'
    BY <1>1, <1>3, <1>4, MailStays DEF RemoteInv
  <1> QED BY <1>1, <1>3, <1>4, <1>5, OneCallChanges

LEMMA HandleStep ==
    ASSUME RemoteInv, handle_command
    PROVE  RemoteInv'
  <1> DEFINE cmd == Head(mailbox)
             n == Len(mailbox)
  <1>1. /\ mailbox # <<>> /\ mailbox' = Tail(mailbox) /\ alive' = alive
        /\ calls' = IF HasReply(cmd.name)
                    THEN [calls EXCEPT ![cmd.client].state = "answered",
                                       ![cmd.client].reply = ReplyTo(cmd)]
                    ELSE calls
        /\ served' = IF HasReply(cmd.name)
                     THEN [served EXCEPT ![cmd.client] = Append(@, ReplyTo(cmd).kind = "ok")]
                     ELSE served
    BY DEF handle_command
  <1>2. MailInv /\ IsSequence(mailbox) /\ DOMAIN calls = Clients /\ DOMAIN served = Clients
    BY DEF RemoteInv, MailInv
  <1>3. /\ IsSequence(mailbox') /\ n \in Nat \ {0} /\ cmd = mailbox[1]
        /\ Len(mailbox') = n - 1 /\ \A i \in 1..(n - 1) : mailbox'[i] = mailbox[i + 1]
    BY <1>1, <1>2, TailElements
  <1>4. DOMAIN mailbox = 1..n /\ DOMAIN mailbox' = 1..(n - 1)
    <2>1. DOMAIN mailbox = 1..n
      BY <1>2, AnySequence DEF IsSequence
    <2>2. DOMAIN mailbox' = 1..Len(mailbox')
      BY <1>3, AnySequence DEF IsSequence
    <2> QED BY <1>3, <2>1, <2>2
  <1> DEFINE k == cmd.client
  <1>5. /\ k \in Clients /\ 1 \in DOMAIN mailbox
        /\ HasReply(cmd.name) => calls[k].state = "awaiting"
    BY <1>2, <1>3, <1>4 DEF MailInv
  <1>6. \A i \in DOMAIN mailbox' : /\ i + 1 \in DOMAIN mailbox /\ i + 1 # 1
                                   /\ mailbox'[i] = mailbox[i + 1]
    BY <1>3, <1>4
  <1>7. \A i \in DOMAIN mailbox : i # 1 => i - 1 \in DOMAIN mailbox' /\ mailbox'[i - 1] = mailbox[i]
    BY <1>3, <1>4
  <1>8. \A i \in DOMAIN mailbox' : mailbox'[i].client \in Clients
    BY <1>2, <1>6 DEF MailInv
  <1>9. \A i, j \in DOMAIN mailbox' :
           HasReply(mailbox'[i].name) /\ HasReply(mailbox'[j].name)
              => (mailbox'[i].client = mailbox'[j].client => i = j)
    <2> SUFFICES ASSUME NEW i \in DOMAIN mailbox', NEW j \in DOMAIN mailbox',
                        HasReply(mailbox'[i].name), HasReply(mailbox'[j].name),
                        mailbox'[i].client = mailbox'[j].client
                 PROVE  i = j
      OBVIOUS
    <2>1. i + 1 = j + 1
      BY <1>2, <1>6 DEF MailInv
    <2> QED BY <1>4, <2>1
  <1> HIDE DEF cmd, n
  <1>10. CASE HasReply(cmd.name)
    <2> DEFINE answer == ReplyTo(cmd)
               next == [calls[k] EXCEPT !.state = "answered", !.reply = answer]
               ok == answer.kind = "ok"
               more == Append(served[k], ok)
    <2>1. answer.kind \in {"ok", "refused"}
      BY DEF ReplyTo, Answer
    <2>2. calls' = [calls EXCEPT ![k] = next] /\ served' = [served EXCEPT ![k] = more]
      BY <1>1, <1>10, Zenon
    <2>3. /\ calls'[k] = next /\ served'[k] = more /\ DOMAIN calls' = Clients
          /\ DOMAIN served' = Clients
          /\ \A d \in Clients \ {k} : calls'[d] = calls[d] /\ served'[d] = served[d]
      BY <1>2, <1>5, <2>2
    <2>4. CallOk(calls[k], served[k], alive) /\ CallShape(calls[k], served[k])
      BY <1>5 DEF RemoteInv, CallOk
    <2>5. SameCall(next, calls[k]) /\ next.state = "answered" /\ next.reply = answer
      BY <2>4 DEF CallShape, IsCall, SameCall
    <2> HIDE DEF answer, next
    <2>6. CallOk(next, more, alive)
      <3>1. IsSequence(served[k])
        BY <2>4 DEF CallShape
      <3> HIDE DEF ok
      <3>2. /\ IsSequence(more) /\ Len(more) = Len(served[k]) + 1
            /\ \A i \in 1..Len(served[k]) : more[i] = served[k][i]
            /\ more[Len(served[k]) + 1] = ok
        BY <3>1, AppendElements
      <3> HIDE DEF more
      <3>3. more[Len(served[k]) + 1] <=> answer.kind = "ok"
        BY <3>2 DEF ok
      <3> QED BY <1>5, <1>10, <2>1, <2>4, <2>5, <3>2, <3>3, ReplyIsGiven
    <2> HIDE DEF more
    <2>7. ASSUME NEW i \in DOMAIN mailbox', HasReply(mailbox'[i].name)
          PROVE  calls'[mailbox'[i].client].state = "awaiting"
      <3>1. /\ i + 1 \in DOMAIN mailbox /\ i + 1 # 1 /\ mailbox'[i] = mailbox[i + 1]
            /\ HasReply(mailbox[i + 1].name)
        BY <1>6, <2>7
      <3>2. mailbox[i + 1].client # k /\ mailbox[i + 1].client \in Clients
        BY <1>2, <1>3, <1>5, <1>10, <3>1 DEF MailInv
      <3>3. calls[mailbox[i + 1].client].state = "awaiting"
        BY <1>2, <3>1 DEF MailInv
      <3> QED BY <2>3, <3>1, <3>2, <3>3
    <2>8. ASSUME NEW d \in Clients, calls'[d].state = "awaiting"
          PROVE  \E i \in DOMAIN mailbox' :
                    mailbox'[i].client = d /\ HasReply(mailbox'[i].name)
      <3>1. d # k
        BY <2>3, <2>5, <2>8
      <3>2. PICK i \in DOMAIN mailbox : mailbox[i].client = d /\ HasReply(mailbox[i].name)
        BY <1>2, <2>3, <2>8, <3>1 DEF MailInv
      <3>3. i # 1
        BY <1>3, <3>1, <3>2
      <3> QED BY <1>7, <3>2, <3>3
    <2>9. MailInv'
      BY <1>3, <1>8, <1>9, <2>7, <2>8 DEF MailInv
    <2> QED BY <1>1, <1>5, <2>3, <2>6, <2>9, OneCallChanges
  <1>11. CASE ~HasReply(cmd.name)
    <2>1. calls' = calls /\ served' = served
      BY <1>1, <1>11
    <2>2. \A i \in DOMAIN mailbox' : HasReply(mailbox'[i].name)
                                        => calls[mailbox'[i].client].state = "awaiting"
      BY <1>2, <1>6 DEF MailInv
    <2>3. ASSUME NEW d \in Clients, calls[d].state = "awaiting"
          PROVE  \E i \in DOMAIN mailbox' :
                    mailbox'[i].client = d /\ HasReply(mailbox'[i].name)
      <3>1. PICK i \in DOMAIN mailbox : mailbox[i].client = d /\ HasReply(mailbox[i].name)
        BY <1>2, <2>3 DEF MailInv
      <3>2. i # 1
        BY <1>3, <1>11, <3>1
      <3> QED BY <1>7, <3>1, <3>2
    <2>4. MailInv'
      BY <1>3, <1>8, <1>9, <2>1, <2>2, <2>3 DEF MailInv
    <2> QED BY <1>1, <2>1, <2>4 DEF RemoteInv
  <1> QED BY <1>10, <1>11

LEMMA EndStep ==
    ASSUME RemoteInv, ShutdownCoordinator
    PROVE  RemoteInv'
  <1>1. alive = TRUE /\ alive' = FALSE /\ mailbox' = <<>> /\ calls' = LostReplies /\ served' = served
    BY DEF ShutdownCoordinator, RemoteInv
  <1>2. DOMAIN calls' = Clients
    BY <1>1 DEF LostReplies
  <1>3. ASSUME NEW d \in Clients PROVE CallOk(calls'[d], served[d], FALSE)
    <2>1. calls'[d] = IF calls[d].state = "awaiting"
                      THEN [calls[d] EXCEPT !.state = "answered", !.reply = Answer("Shutdown", 0)]
                      ELSE calls[d]
      BY <1>1 DEF LostReplies
    <2>2. CallOk(calls[d], served[d], TRUE)
      BY <1>1 DEF RemoteInv
    <2> QED BY <2>1, <2>2, CoordinatorEnds
  <1>4. ASSUME NEW d \in Clients PROVE calls'[d].state # "awaiting"
    <2>1. CallOk(calls'[d], served[d], FALSE)
      BY <1>3
    <2> QED BY <2>1 DEF CallOk, Awaiting
  <1>5. MailInv'
    BY <1>1, <1>4, TupleSequences DEF MailInv
  <1> QED BY <1>1, <1>2, <1>3, <1>5 DEF RemoteInv

(* Where a call stands fits what was served of it and what waits in the    *)
(* mailbox, in every state.                                                *)
THEOREM RemoteInvCorrect == RemoteSpec => []RemoteInv
  <1>1. RemoteInit => RemoteInv
    <2> SUFFICES ASSUME RemoteInit PROVE RemoteInv
      OBVIOUS
    <2>1. /\ mailbox = <<>> /\ alive = TRUE /\ calls = [c \in Clients |-> Free]
          /\ served = [c \in Clients |-> <<>>]
      BY DEF RemoteInit
    <2>2. \A c \in Clients : CallOk(calls[c], served[c], alive) /\ calls[c].state = "idle"
      BY <2>1, TupleSequences DEF CallOk, CallShape, IsCall, Free
    <2>3. IsSequence(mailbox) /\ DOMAIN mailbox = {}
      BY <2>1, TupleSequences
    <2>4. MailInv
      BY <2>2, <2>3 DEF MailInv
    <2> QED BY <2>1, <2>2, <2>4 DEF RemoteInv
  <1>2. RemoteInv /\ [RemoteNext]_remoteVars => RemoteInv'
    <2> SUFFICES ASSUME RemoteInv, [RemoteNext]_remoteVars PROVE RemoteInv'
      OBVIOUS
    <2>1. CASE handle_command
      BY <2>1, HandleStep
    <2>2. CASE ShutdownCoordinator
      BY <2>2, EndStep
    <2>3. ASSUME NEW c \in Clients, NEW r \in Requests, Request(c, r) PROVE RemoteInv'
      BY <2>3, RequestStep
    <2>4. ASSUME NEW c \in Clients, SendCommand(c) PROVE RemoteInv'
      BY <2>4, SendCommandStep
    <2>5. ASSUME NEW c \in Clients, ReplyArrives(c) PROVE RemoteInv'
      BY <2>5, ReplyStep
    <2>6. ASSUME NEW c \in Clients, Rest(c) PROVE RemoteInv'
      BY <2>6, RestStep
    <2>7. CASE UNCHANGED remoteVars
      <3>1. mailbox' = mailbox /\ alive' = alive /\ calls' = calls /\ served' = served
        BY <2>7 DEF remoteVars
      <3> QED BY <3>1 DEF RemoteInv, MailInv
    <2> QED BY <2>1, <2>2, <2>3, <2>4, <2>5, <2>6, <2>7 DEF RemoteNext
  <1> QED BY <1>1, <1>2, PTL DEF RemoteSpec

(* Every call is told what became of it, whenever the coordinator ends and *)
(* whoever edits in between.                                               *)
THEOREM EveryCallIsAnswered == RemoteSpec => []CallsAreAnswered
  <1>1. RemoteInv => CallsAreAnswered
    <2> SUFFICES ASSUME RemoteInv, NEW c \in Clients
                 PROVE  /\ Waits(c) => alive /\ \E i \in DOMAIN mailbox : mailbox[i].client = c
                        /\ calls[c].state = "over" /\ calls[c].reply.kind # "unknown" =>
                              Told(calls[c], served[c], alive)
      BY Zenon DEF CallsAreAnswered, Told, AskedOf
    <2>1. CallOk(calls[c], served[c], alive) /\ MailInv
      BY DEF RemoteInv
    <2>2. Waits(c) => alive
      BY <2>1 DEF CallOk, Awaiting, Waits
    <2>3. Waits(c) => \E i \in DOMAIN mailbox : mailbox[i].client = c
      BY <2>1 DEF MailInv, Waits
    <2> QED BY <2>1, <2>2, <2>3 DEF CallOk
  <1> QED BY <1>1, RemoteInvCorrect, PTL

-----------------------------------------------------------------------------
(* NzbParser.  Segments by number: each is put in after those that are not *)
(* after it, which keeps the order and loses none.                         *)
ByNumber(sorted) == \A i, j \in 1..Len(sorted) : i < j => sorted[i].number <= sorted[j].number
NotAfter(sorted, s) == {t \in Range(sorted) : t.number <= s.number}
PutIn(sorted, s) ==
    Selected(sorted, NotAfter(sorted, s)) \o <<s>> \o Selected(sorted, Range(sorted) \ NotAfter(sorted, s))

LEMMA PutInKeepsOrder ==
    ASSUME NEW S, \A s \in S : s.number \in Nat, NEW sorted \in Seq(S), ByNumber(sorted), NEW s \in S
    PROVE  /\ PutIn(sorted, s) \in Seq(S) /\ ByNumber(PutIn(sorted, s))
           /\ Len(PutIn(sorted, s)) = Len(sorted) + 1
           /\ Range(PutIn(sorted, s)) = Range(sorted) \union {s}
  <1> DEFINE T == NotAfter(sorted, s)
             R == Range(sorted) \ T
             a == Selected(sorted, T)
             c == Selected(sorted, R)
             next == a \o <<s>> \o c
  <1>1. PutIn(sorted, s) = next
    BY DEF PutIn
  <1>2. T \intersect R = {} /\ Range(sorted) \subseteq T \union R /\ T \subseteq Range(sorted)
    BY DEF NotAfter
  <1>3. Len(a) + Len(c) = Len(sorted)
    <2> HIDE DEF T, R
    <2> QED BY <1>2, SelectedInParts
  <1>4. a \in Seq(S) /\ c \in Seq(S) /\ Range(a) = Range(sorted) \intersect T /\ Range(c) = Range(sorted) \intersect R
    <2> HIDE DEF T, R
    <2> QED BY SelectedElements
  <1>5. PICK x : PlacesOf(x, sorted, T, a)
    <2> HIDE DEF T
    <2> QED BY SelectedOrder
  <1>6. PICK y : PlacesOf(y, sorted, R, c)
    <2> HIDE DEF R
    <2> QED BY SelectedOrder
  <1>7. \A t \in T : t.number <= s.number
    BY DEF NotAfter
  <1>8. \A t \in R : t \in S /\ s.number <= t.number
    <2>1. \A t \in Range(sorted) : t \in S
      BY DEF Range
    <2> QED BY <2>1 DEF NotAfter
  <1> HIDE DEF T, R, a, c
  <1>9. /\ Len(a) \in Nat /\ Len(c) \in Nat /\ DOMAIN a = 1..Len(a) /\ DOMAIN c = 1..Len(c)
        /\ \A i \in 1..Len(a) : a[i] \in S /\ \A j \in 1..Len(c) : c[j] \in S
    BY <1>4
  <1>10. next \in Seq(S) /\ Len(next) = Len(a) + 1 + Len(c)
    BY <1>4
  <1>11. /\ \A i \in 1..Len(a) : next[i] = a[i]
         /\ next[Len(a) + 1] = s
         /\ \A i \in 1..Len(c) : next[Len(a) + 1 + i] = c[i]
    BY <1>4
  <1> HIDE DEF next
  <1>12. Range(next) = Range(sorted) \union {s}
    <2>1. DOMAIN next = 1..(Len(a) + 1 + Len(c))
      BY <1>10
    <2>2. ASSUME NEW i \in DOMAIN next PROVE next[i] \in Range(a) \union {s} \union Range(c)
      <3>1. i \in Int /\ 1 <= i /\ i <= Len(a) + 1 + Len(c)
        BY <1>9, <2>1
      <3>2. i \in 1..Len(a) \/ i = Len(a) + 1 \/ (i - Len(a) - 1 \in 1..Len(c) /\ i = Len(a) + 1 + (i - Len(a) - 1))
        BY <1>9, <3>1, ThreeParts
      <3> QED BY <1>9, <1>11, <3>2 DEF Range
    <2>3. Range(a) \subseteq Range(next) /\ s \in Range(next)
      BY <1>9, <1>11, <2>1 DEF Range
    <2>4. Range(c) \subseteq Range(next)
      <3>1. ASSUME NEW i \in 1..Len(c) PROVE c[i] \in Range(next)
        <4>1. Len(a) + 1 + i \in DOMAIN next
          BY <1>9, <2>1
        <4> QED BY <1>11, <4>1 DEF Range
      <3> QED BY <1>9, <3>1 DEF Range
    <2>5. Range(next) = Range(a) \union {s} \union Range(c)
      BY <2>2, <2>3, <2>4 DEF Range
    <2> QED BY <1>2, <1>4, <2>5
  <1>13. \A i \in 1..Len(a) : a[i].number <= s.number
    BY <1>5, <1>7 DEF PlacesOf
  <1>14. \A i \in 1..Len(c) : s.number <= c[i].number
    BY <1>6, <1>8 DEF PlacesOf
  <1>15. ByNumber(a)
    BY <1>5 DEF ByNumber, PlacesOf
  <1>16. ByNumber(c)
    BY <1>6 DEF ByNumber, PlacesOf
  <1>17. ASSUME NEW i \in 1..Len(next), NEW j \in 1..Len(next), i < j
         PROVE  next[i].number <= next[j].number
    <2> DEFINE Before(k) == k \in 1..Len(a) /\ next[k] = a[k]
               After(k) == k - Len(a) - 1 \in 1..Len(c) /\ next[k] = c[k - Len(a) - 1]
    <2>1. ASSUME NEW k \in 1..Len(next) PROVE Before(k) \/ (k = Len(a) + 1 /\ next[k] = s) \/ After(k)
      <3>0. Len(a) \in Nat /\ Len(c) \in Nat /\ k \in Int /\ 1 <= k /\ k <= Len(a) + 1 + Len(c)
        BY <1>9, <1>10
      <3>1. k \in 1..Len(a) \/ k = Len(a) + 1 \/ (k - Len(a) - 1 \in 1..Len(c) /\ k = Len(a) + 1 + (k - Len(a) - 1))
        BY ONLY <3>0, ThreeParts
      <3> QED BY <1>11, <3>1
    <2>2. \A k \in 1..Len(next) : next[k] \in S /\ next[k].number \in Nat
      BY <1>10
    <2>3. CASE Before(i) /\ Before(j)
      BY <1>15, <1>17, <2>3 DEF ByNumber
    <2>4. CASE Before(i) /\ j = Len(a) + 1 /\ next[j] = s
      BY <1>13, <2>4
    <2>5. CASE Before(i) /\ After(j)
      <3>1. next[i].number <= s.number /\ s.number <= next[j].number
        BY <1>13, <1>14, <2>5
      <3> QED BY <2>2, <3>1
    <2>6. CASE i = Len(a) + 1 /\ next[i] = s /\ After(j)
      BY <1>14, <2>6
    <2>7. CASE After(i) /\ After(j)
      <3>1. i - Len(a) - 1 < j - Len(a) - 1
        BY <1>9, <1>10, <1>17
      <3> QED BY <1>16, <2>7, <3>1 DEF ByNumber
    <2> QED
      <3>1. (Before(i) => i <= Len(a)) /\ (After(i) => i > Len(a) + 1) /\ (Before(j) => j <= Len(a)) /\ (After(j) => j > Len(a) + 1)
        BY <1>9, <1>10
      <3>2. i \in Nat /\ j \in Nat /\ Len(a) \in Nat
        BY <1>9, <1>10
      <3> HIDE DEF Before, After
      <3> QED BY <1>17, <2>1, <2>3, <2>4, <2>5, <2>6, <2>7, <3>1, <3>2
  <1>18. ByNumber(next)
    BY <1>17 DEF ByNumber
  <1> QED BY <1>1, <1>3, <1>9, <1>10, <1>12, <1>18

LEMMA SortedByNumber ==
    ASSUME NEW S, \A s \in S : s.number \in Nat, NEW segments \in Seq(S)
    PROVE  /\ BySegmentNumber(segments) \in Seq(S)
           /\ Len(BySegmentNumber(segments)) = Len(segments)
           /\ Range(BySegmentNumber(segments)) = Range(segments)
           /\ ByNumber(BySegmentNumber(segments))
  <1> DEFINE n == Len(segments)
             V == {sorted \in Seq(S) : ByNumber(sorted)}
             op(sorted, s) ==
                LET before == {t \in Range(sorted) : t.number <= s.number}
                IN Selected(sorted, before) \o <<s>> \o Selected(sorted, Range(sorted) \ before)
             G == [p \in V \X (1..n) |-> op(p[1], segments[p[2]])]
             Is(it) == it = [t \in SUBSET DOMAIN segments |->
                                IF t = {} THEN <<>> ELSE op(it[t \ {Max(t)}], segments[Max(t)])]
             H == CHOOSE it : Is(it)
  <1>1. \A sorted, s : op(sorted, s) = PutIn(sorted, s)
    BY DEF PutIn, NotAfter
  <1>2. n \in Nat /\ DOMAIN segments = 1..n /\ \A i \in 1..n : segments[i] \in S
    OBVIOUS
  <1>3. <<>> \in V
    BY DEF ByNumber
  <1>4. ASSUME NEW sorted \in V, NEW i \in 1..n
        PROVE  /\ op(sorted, segments[i]) \in V
               /\ Len(op(sorted, segments[i])) = Len(sorted) + 1
               /\ Range(op(sorted, segments[i])) = Range(sorted) \union {segments[i]}
    <2>1. sorted \in Seq(S) /\ ByNumber(sorted) /\ segments[i] \in S
      BY <1>2
    <2>2. PICK s : s = segments[i]
      OBVIOUS
    <2>3. s \in S
      BY <2>1, <2>2
    <2>4. /\ PutIn(sorted, s) \in Seq(S) /\ ByNumber(PutIn(sorted, s))
          /\ Len(PutIn(sorted, s)) = Len(sorted) + 1
          /\ Range(PutIn(sorted, s)) = Range(sorted) \union {s}
      BY <2>1, <2>3, PutInKeepsOrder
    <2> HIDE DEF op, n
    <2> QED BY <1>1, <2>2, <2>4
  <1>5. G \in [V \X (1..n) -> V] /\ \A sorted \in V, i \in 1..n : G[<<sorted, i>>] = op(sorted, segments[i])
    <2> HIDE DEF V, op, n
    <2> QED BY <1>4
  <1> HIDE DEF V, G, op, n
  <1>6. PICK f : FoldsUp(f, 1..n, V, <<>>, G, LastFirst(n))
    BY <1>2, <1>3, <1>5, LastFirstChooses, FoldExists
  <1>7. Is(f)
    <2>1. ASSUME NEW t \in SUBSET (1..n), t # {}
          PROVE  f[t] = op(f[t \ {Max(t)}], segments[Max(t)])
      <3>1. Max(t) \in 1..n
        BY <1>2, <2>1, MaxIn
      <3>2. f[t \ {Max(t)}] \in V
        BY <1>6 DEF FoldsUp
      <3>3. f[t] = G[<<f[t \ {Max(t)}], Max(t)>>]
        BY <1>6, <2>1 DEF FoldsUp, LastFirst
      <3> QED BY <1>5, <3>1, <3>2, <3>3
    <2> QED BY <1>2, <1>6, <2>1 DEF FoldsUp
  <1>8. Is(H)
    <2> HIDE DEF Is
    <2> QED BY <1>7
  <1>9. BySegmentNumber(segments) = H[1..n]
    <2>1. BySegmentNumber(segments) = H[DOMAIN segments]
      BY DEF BySegmentNumber, FoldLeft, MapThenFoldSet, op
    <2> HIDE DEF H
    <2> QED BY <1>2, <2>1
  <1>10. H[{}] = <<>>
    BY <1>8
  <1>11. ASSUME NEW i \in 1..n PROVE H[1..i] = op(H[1..(i - 1)], segments[i])
    <2>1. 1..i \in SUBSET DOMAIN segments /\ 1..i # {}
      <3>1. i \in Nat /\ 1 <= i /\ i <= n /\ n \in Nat
        BY <1>2
      <3>2. i \in 1..i /\ 1..i \subseteq 1..n
        BY <3>1
      <3> QED BY <1>2, <3>2
    <2>2. Max(1..i) = i /\ (1..i) \ {Max(1..i)} = 1..(i - 1)
      BY MaxOfPrefix
    <2> HIDE DEF H
    <2> QED BY <1>8, <2>1, <2>2
  <1> HIDE DEF H
  <1>12. PICK F : InSteps(F, n, V, <<>>, G) /\ F[n] = H[1..n]
    <2>1. TakesUp(H, n, V, <<>>, G)
      BY <1>2, <1>3, <1>5, <1>10, <1>11 DEF TakesUp
    <2> QED BY <2>1, FoldAlong
  <1>13. F \in [0..n -> V] /\ F[0] = <<>> /\ \A i \in 1..n : F[i] = G[<<F[i - 1], i>>]
    BY <1>12 DEF InSteps
  <1> DEFINE Done(i) == {segments[k] : k \in 1..i}
             U == {i \in 0..n : Len(F[i]) = i /\ Range(F[i]) = Done(i)}
  <1>14. 0 \in U
    <2>1. Len(<<>>) = 0 /\ Range(<<>>) = {} /\ 1..0 = {}
      BY DEF Range
    <2> QED BY <1>2, <1>12, <1>13, <2>1
  <1>15. ASSUME NEW i \in 1..n, i - 1 \in U PROVE i \in U
    <2>1. i - 1 \in 0..n /\ i \in 0..n /\ Len(F[i - 1]) = i - 1 /\ Range(F[i - 1]) = Done(i - 1)
      BY <1>2, <1>15
    <2>2. F[i] = op(F[i - 1], segments[i]) /\ F[i - 1] \in V
      BY <1>5, <1>12, <1>13, <2>1
    <2>3. Len(F[i]) = Len(F[i - 1]) + 1 /\ Range(F[i]) = Range(F[i - 1]) \union {segments[i]}
      BY <1>4, <2>2
    <2>4. 1..i = (1..(i - 1)) \union {i}
      BY <1>2
    <2>5. Done(i) = Done(i - 1) \union {segments[i]}
      BY <2>4
    <2> QED BY <2>1, <2>3, <2>5
  <1> HIDE DEF U
  <1>16. 0..n \subseteq U
    BY <1>2, <1>14, <1>15, InductiveInterval
  <1>17. n \in U /\ F[n] \in V
    BY <1>2, <1>12, <1>13, <1>16
  <1>18. F[n] \in Seq(S) /\ ByNumber(F[n])
    BY <1>17 DEF V
  <1>19. Len(F[n]) = Len(segments) /\ Range(F[n]) = Range(segments)
    <2>1. Range(segments) = Done(n)
      BY <1>2 DEF Range
    <2> QED BY <1>17, <2>1 DEF U, n
  <1> QED BY <1>9, <1>12, <1>13, <1>18, <1>19

-----------------------------------------------------------------------------
(* Names made unique.                                                      *)
MadeNames == Subjects \union {Append(s, m) : s \in Subjects, m \in Nat}
FilesNamed(names, P, G, S) == [filename : names, par_status : P, groups : G, segments : S]

LEMMA MadeNamesDiffer ==
    ASSUME NEW name \in Subjects
    PROVE  \A m, n \in Nat : /\ Append(name, m) # NoName
                             /\ Append(name, m) = Append(name, n) => m = n
  <1>1. IsSequence(name)
    BY NzbAssumption, ListIsSequence
  <1>2. \A m : /\ IsSequence(Append(name, m)) /\ Len(Append(name, m)) = Len(name) + 1
               /\ Append(name, m)[Len(name) + 1] = m
    BY <1>1, AppendElements
  <1>3. Len(name) \in Nat /\ Len(NoName) = 0
    BY <1>1, EmptyOrNot DEF NoName
  <1>4. ASSUME NEW m \in Nat, Append(name, m) = NoName PROVE FALSE
    <2>1. Len(name) + 1 = 0
      BY <1>2, <1>3, <1>4
    <2> QED BY <1>3, <2>1
  <1>5. ASSUME NEW m \in Nat, NEW n \in Nat, Append(name, m) = Append(name, n) PROVE m = n
    BY <1>2, <1>5
  <1> QED BY <1>4, <1>5

(* Among one more suffix than there are names in use, one is free.         *)
LEMMA FreeSuffix ==
    ASSUME NEW name \in Subjects, NEW D, NEW k \in Nat, NEW next \in Nat,
           IsFiniteSet(D), Cardinality(D) <= k
    PROVE  \E n \in next..(next + k) :
              Append(name, n) \notin D /\ \A m \in next..(n - 1) : ~(Append(name, m) \notin D)
  <1> DEFINE I == next..(next + k)
             f == [n \in I |-> Append(name, n)]
             T == {n \in I : Append(name, n) \notin D}
  <1>1. IsFiniteSet(I) /\ Cardinality(I) = k + 1
    <2>1. next > next + k \/ next + k - next + 1 = k + 1
      OBVIOUS
    <2>2. ~(next > next + k)
      OBVIOUS
    <2> QED BY <2>1, <2>2, FS_Interval
  <1>2. T # {}
    <2> SUFFICES ASSUME T = {} PROVE FALSE
      OBVIOUS
    <2>1. \A n \in I : Append(name, n) \in D
      OBVIOUS
    <2>2. I \subseteq Nat
      OBVIOUS
    <2> HIDE DEF I
    <2>3. \A m, n \in I : f[m] = f[n] => m = n
      BY <2>2, MadeNamesDiffer
    <2>4. f \in [I -> D]
      BY <2>1
    <2> HIDE DEF f
    <2>5. f \in Injection(I, D)
      BY <2>3, <2>4 DEF Injection, IsInjective
    <2>6. Cardinality(I) <= Cardinality(D)
      BY <2>5, FS_Injection
    <2>7. Cardinality(D) \in Nat
      BY FS_CardinalityType
    <2> QED BY <1>1, <2>6, <2>7
  <1>3. PICK n \in T : \A m \in T : n <= m
    <2>1. T \in SUBSET Nat
      OBVIOUS
    <2> HIDE DEF T
    <2> QED BY <1>2, <2>1, LeastNatural
  <1>4. n \in I /\ Append(name, n) \notin D /\ n \in Nat
    OBVIOUS
  <1>5. ASSUME NEW m \in next..(n - 1) PROVE Append(name, m) \in D
    <2>1. m \in I /\ m < n /\ m \in Nat
      BY <1>4
    <2>2. m \notin T
      BY <1>3, <1>4, <2>1
    <2> QED BY <2>1, <2>2
  <1> QED BY <1>4, <1>5

(* What is known of the names so far: they differ, and they are in use.    *)
NamesInUse(st) ==
    /\ DOMAIN st.used = {st.files[j].filename : j \in 1..Len(st.files)} \ {NoName}
    /\ \A i, j \in 1..Len(st.files) :
          st.files[i].filename = st.files[j].filename => i = j \/ st.files[i].filename = NoName
    /\ \A n \in DOMAIN st.used : st.used[n] \in Nat
Uses == UNION {[D -> Nat] : D \in SUBSET MadeNames}
States(P, G, S) ==
    {st \in [files : Seq(FilesNamed(MadeNames, P, G, S)), used : Uses] : NamesInUse(st)}

LEMMA FewNamesInUse ==
    ASSUME NEW P, NEW G, NEW S, NEW st \in States(P, G, S)
    PROVE  IsFiniteSet(DOMAIN st.used) /\ Cardinality(DOMAIN st.used) <= Len(st.files)
  <1> DEFINE n == Len(st.files)
             f == [j \in 1..n |-> st.files[j].filename]
             N == {st.files[j].filename : j \in 1..n}
  <1>1. n \in Nat
    BY DEF States
  <1>2. IsFiniteSet(1..n) /\ Cardinality(1..n) = n
    <2> HIDE DEF n
    <2>1. IsFiniteSet(1..n) /\ Cardinality(1..n) = IF 1 > n THEN 0 ELSE n - 1 + 1
      BY <1>1, FS_Interval
    <2> QED BY <1>1, <2>1
  <1>3. f \in Surjection(1..n, N)
    BY DEF Surjection
  <1> HIDE DEF f, n, N
  <1>4. IsFiniteSet(N) /\ Cardinality(N) <= n
    BY <1>2, <1>3, FS_Surjection
  <1>5. DOMAIN st.used \subseteq N
    BY DEF States, NamesInUse, N, n
  <1>6. IsFiniteSet(DOMAIN st.used) /\ Cardinality(DOMAIN st.used) <= Cardinality(N)
    BY <1>4, <1>5, FS_Subset
  <1>7. Cardinality(N) \in Nat /\ Cardinality(DOMAIN st.used) \in Nat
    BY <1>4, <1>6, FS_CardinalityType
  <1> QED BY <1>1, <1>4, <1>6, <1>7 DEF n

(* One file more, and its name in use.                                     *)
TakesIn(st, g, files, used) ==
    /\ files = Append(st.files, g) /\ g.filename \notin DOMAIN st.used
    /\ used \in [DOMAIN st.used \union ({g.filename} \ {NoName}) -> Nat]

LEMMA OneNameMore ==
    ASSUME NEW P, NEW G, NEW S, NEW st \in States(P, G, S), NEW g \in FilesNamed(MadeNames, P, G, S),
           NEW files, NEW used, TakesIn(st, g, files, used)
    PROVE  [files |-> files, used |-> used] \in States(P, G, S)
  <1> DEFINE R == FilesNamed(MadeNames, P, G, S)
             next == [files |-> files, used |-> used]
             n == Len(st.files)
  <1>1. st.files \in Seq(R) /\ DOMAIN st.used \subseteq MadeNames /\ NamesInUse(st)
    <2>1. st.used \in Uses
      BY DEF States
    <2>2. DOMAIN st.used \subseteq MadeNames
      BY <2>1 DEF Uses
    <2> QED BY <2>2 DEF States
  <1>2. g.filename \in MadeNames
    BY DEF FilesNamed
  <1>0. /\ files = Append(st.files, g) /\ g.filename \notin DOMAIN st.used
        /\ used \in [DOMAIN st.used \union ({g.filename} \ {NoName}) -> Nat]
    BY DEF TakesIn
  <1> HIDE DEF R
  <1>3. /\ files \in Seq(R) /\ n \in Nat /\ Len(files) = n + 1 /\ files[n + 1] = g
        /\ \A i \in 1..n : files[i] = st.files[i]
        /\ \A i \in 1..(n + 1) : i \in 1..n \/ i = n + 1
    <2>1. g \in R
      BY DEF R
    <2> QED BY <1>0, <1>1, <2>1, Appended
  <1>4. used \in Uses /\ DOMAIN used = DOMAIN st.used \union ({g.filename} \ {NoName})
    BY <1>0, <1>1, <1>2 DEF Uses
  <1>5. next \in [files : Seq(R), used : Uses]
    BY <1>3, <1>4
  <1>6. NamesInUse(next)
    <2> HIDE DEF n
    <2>0. n + 1 \in 1..(n + 1) /\ \A i \in 1..n : i \in 1..(n + 1)
      BY <1>3
    <2>1. DOMAIN used = {files[j].filename : j \in 1..Len(files)} \ {NoName}
      <3>1. {files[j].filename : j \in 1..(n + 1)} = {st.files[j].filename : j \in 1..n} \union {g.filename}
        BY <1>3, <2>0
      <3>2. DOMAIN st.used = {st.files[j].filename : j \in 1..n} \ {NoName}
        BY <1>1 DEF NamesInUse, n
      <3> QED BY <1>3, <1>4, <3>1, <3>2
    <2>2. ASSUME NEW i \in 1..(n + 1), NEW j \in 1..(n + 1), files[i].filename = files[j].filename,
                 files[i].filename # NoName
          PROVE  i = j
      <3>1. \A k \in 1..n : st.files[k].filename # NoName => st.files[k].filename # g.filename
        BY <1>0, <1>1 DEF NamesInUse, n
      <3>2. CASE i \in 1..n /\ j \in 1..n
        <4>1. \A k, l \in 1..n : st.files[k].filename = st.files[l].filename => k = l \/ st.files[k].filename = NoName
          BY <1>1 DEF NamesInUse, n
        <4> QED BY <1>3, <2>2, <3>2, <4>1
      <3>3. CASE i \in 1..n /\ j = n + 1
        BY <1>3, <2>2, <3>1, <3>3
      <3>4. CASE i = n + 1 /\ j \in 1..n
        BY <1>3, <2>2, <3>1, <3>4
      <3> QED BY <1>3, <3>2, <3>3, <3>4
    <2>3. \A m \in DOMAIN used : used[m] \in Nat
      BY <1>0
    <2>4. next.files = files /\ next.used = used
      OBVIOUS
    <2> HIDE DEF next
    <2>5. DOMAIN next.used = {next.files[j].filename : j \in 1..Len(next.files)} \ {NoName}
      BY <2>1, <2>4
    <2>6. \A i, j \in 1..Len(next.files) :
             next.files[i].filename = next.files[j].filename => i = j \/ next.files[i].filename = NoName
      BY <1>3, <2>2, <2>4
    <2>7. \A m \in DOMAIN next.used : next.used[m] \in Nat
      BY <2>3, <2>4
    <2> QED BY <2>5, <2>6, <2>7 DEF NamesInUse
  <1> QED BY <1>5, <1>6 DEF States, R

(* A file gets its own name if it is free, or one that is.                 *)
NameGiven(g, file, st) ==
    /\ g.filename = NoName <=> file.filename = NoName
    /\ g.filename = file.filename \/ file.filename \in DOMAIN st.used
    /\ g.par_status = file.par_status /\ g.groups = file.groups /\ g.segments = file.segments

LEMMA NameIsGiven ==
    ASSUME NEW P, NEW G, NEW S, NEW st \in States(P, G, S), NEW file \in FilesNamed(Subjects, P, G, S)
    PROVE  \E g \in FilesNamed(MadeNames, P, G, S) :
              /\ MadeUnique(st, file) \in States(P, G, S)
              /\ MadeUnique(st, file).files = Append(st.files, g) /\ NameGiven(g, file, st)
  <1> DEFINE R == FilesNamed(MadeNames, P, G, S)
             name == file.filename
             next == st.used[name] + 1
             free(n) == Append(name, n) \notin DOMAIN st.used
             suffix == CHOOSE n \in next..(next + Len(st.files)) :
                           free(n) /\ \A m \in next..(n - 1) : ~free(m)
             With(used, n, i) == [k \in DOMAIN used \union {n} |-> IF k = n THEN i ELSE used[k]]
  <1>1. /\ st = [files |-> st.files, used |-> st.used] /\ st.files \in Seq(R)
        /\ st.used \in [DOMAIN st.used -> Nat] /\ NoName \notin DOMAIN st.used
    <2>1. st.used \in Uses
      BY DEF States
    <2>2. st.used \in [DOMAIN st.used -> Nat]
      BY <2>1 DEF Uses
    <2> QED BY <2>2 DEF States, NamesInUse
  <1>2. file \in R /\ name \in Subjects
    BY DEF FilesNamed, MadeNames
  <1>3. CASE name = NoName
    <2>1. MadeUnique(st, file) = [st EXCEPT !.files = Append(@, file)]
      BY <1>3 DEF MadeUnique
    <2>2. MadeUnique(st, file) = [files |-> Append(st.files, file), used |-> st.used]
      BY <1>1, <2>1
    <2>3. TakesIn(st, file, Append(st.files, file), st.used)
      BY <1>1, <1>3 DEF TakesIn
    <2>4. MadeUnique(st, file) \in States(P, G, S)
      <3>1. PICK files, used : files = Append(st.files, file) /\ used = st.used
        OBVIOUS
      <3>2. TakesIn(st, file, files, used)
        BY <2>3, <3>1
      <3>3. [files |-> files, used |-> used] \in States(P, G, S)
        BY <1>2, <3>2, OneNameMore
      <3> QED BY <2>2, <3>1, <3>3
    <2>5. NameGiven(file, file, st)
      BY DEF NameGiven
    <2>6. MadeUnique(st, file).files = Append(st.files, file)
      BY <2>2
    <2> QED BY <1>2, <2>4, <2>5, <2>6
  <1>4. CASE name # NoName /\ name \notin DOMAIN st.used
    <2>1. MadeUnique(st, file) = [files |-> Append(st.files, file), used |-> With(st.used, name, 1)]
      BY <1>4 DEF MadeUnique
    <2>2. TakesIn(st, file, Append(st.files, file), With(st.used, name, 1))
      BY <1>1, <1>4 DEF TakesIn
    <2>3. MadeUnique(st, file) \in States(P, G, S)
      <3> HIDE DEF With
      <3>1. PICK files, used : files = Append(st.files, file) /\ used = With(st.used, name, 1)
        OBVIOUS
      <3>2. TakesIn(st, file, files, used)
        BY <2>2, <3>1
      <3>3. [files |-> files, used |-> used] \in States(P, G, S)
        BY <1>2, <3>2, OneNameMore
      <3> QED BY <2>1, <3>1, <3>3
    <2>4. NameGiven(file, file, st)
      BY DEF NameGiven
    <2>5. MadeUnique(st, file).files = Append(st.files, file)
      BY <2>1
    <2> QED BY <1>2, <2>3, <2>4, <2>5
  <1>5. CASE name # NoName /\ name \in DOMAIN st.used
    <2> DEFINE g == [file EXCEPT !.filename = Append(name, suffix)]
               used == With(With(st.used, Append(name, suffix), 1), name, suffix)
    <2>1. MadeUnique(st, file) = [files |-> Append(st.files, g), used |-> used]
      BY <1>5 DEF MadeUnique
    <2>2. next \in Nat
      BY <1>1, <1>5
    <2>3. suffix \in next..(next + Len(st.files)) /\ free(suffix)
      <3>1. IsFiniteSet(DOMAIN st.used) /\ Cardinality(DOMAIN st.used) <= Len(st.files) /\ Len(st.files) \in Nat
        BY <1>1, FewNamesInUse
      <3> HIDE DEF name, next
      <3>2. \E n \in next..(next + Len(st.files)) : free(n) /\ \A m \in next..(n - 1) : ~free(m)
        BY <1>2, <2>2, <3>1, FreeSuffix
      <3> HIDE DEF free
      <3> QED BY <3>2
    <2>4. suffix \in Nat
      <3>1. Len(st.files) \in Nat
        BY <1>1
      <3> HIDE DEF suffix, next
      <3> QED BY <2>2, <2>3, <3>1
    <2> HIDE DEF suffix
    <2>5. Append(name, suffix) # NoName /\ Append(name, suffix) \in MadeNames
      BY <1>2, <2>4, MadeNamesDiffer DEF MadeNames
    <2>6. g \in R /\ g.filename = Append(name, suffix)
      BY <1>2, <2>5 DEF FilesNamed
    <2>7. used \in [DOMAIN st.used \union ({g.filename} \ {NoName}) -> Nat]
      <3> HIDE DEF g
      <3> QED BY <1>1, <1>5, <2>4, <2>5, <2>6
    <2>8. NameGiven(g, file, st)
      BY <1>2, <1>5, <2>5, <2>6 DEF NameGiven, FilesNamed
    <2> HIDE DEF g, used
    <2>9. g.filename \notin DOMAIN st.used
      BY <2>3, <2>6
    <2>10. MadeUnique(st, file) \in States(P, G, S)
      <3>1. PICK files, u : files = Append(st.files, g) /\ u = used
        OBVIOUS
      <3>2. TakesIn(st, g, files, u)
        BY <2>7, <2>9, <3>1 DEF TakesIn
      <3>3. [files |-> files, used |-> u] \in States(P, G, S)
        BY <2>6, <3>2, OneNameMore DEF R
      <3> QED BY <2>1, <3>1, <3>3
    <2>11. MadeUnique(st, file).files = Append(st.files, g)
      BY <2>1
    <2> QED BY <2>6, <2>8, <2>10, <2>11
  <1> QED BY <1>3, <1>4, <1>5

(* The names of files: each its own or, if an earlier file has that,       *)
(* another; no two the same.                                               *)
NamedAs(u, file, earlier) ==
    /\ u.filename = NoName <=> file.filename = NoName
    /\ u.filename = file.filename \/ file.filename \in earlier
    /\ u.par_status = file.par_status /\ u.groups = file.groups /\ u.segments = file.segments
NamesUpto(u, k) == {u[j].filename : j \in 1..k}

LEMMA NamesAreUnique ==
    ASSUME NEW P, NEW G, NEW S, NEW files \in Seq(FilesNamed(Subjects, P, G, S)),
           NEW u, u = ensure_unique_filenames(files)
    PROVE  /\ u \in Seq(FilesNamed(MadeNames, P, G, S)) /\ Len(u) = Len(files)
           /\ \A i \in 1..Len(u) : NamedAs(u[i], files[i], NamesUpto(u, i - 1))
           /\ \A i, j \in 1..Len(u) : u[i].filename = u[j].filename => i = j \/ u[i].filename = NoName
  <1> DEFINE n == Len(files)
             V == States(P, G, S)
             b == [files |-> <<>>, used |-> <<>>]
             op(st, file) == MadeUnique(st, file)
             W == [p \in V \X (1..n) |-> op(p[1], files[p[2]])]
             Is(it) == it = [t \in SUBSET DOMAIN files |->
                                IF t = {} THEN b ELSE op(it[t \ {Max(t)}], files[Max(t)])]
             H == CHOOSE it : Is(it)
             R == FilesNamed(MadeNames, P, G, S)
  <1>1. n \in Nat /\ DOMAIN files = 1..n /\ \A i \in 1..n : files[i] \in FilesNamed(Subjects, P, G, S)
    OBVIOUS
  <1>2. b \in V
    <2>1. b.files = <<>> /\ b.used = <<>> /\ Len(<<>>) = 0 /\ 1..0 = {} /\ DOMAIN <<>> = {}
      OBVIOUS
    <2>2. <<>> \in [{} -> Nat]
      OBVIOUS
    <2>3. <<>> \in Uses
      BY <2>2 DEF Uses
    <2>4. b \in [files : Seq(R), used : Uses]
      BY <2>3
    <2>5. NamesInUse(b)
      <3> HIDE DEF b
      <3> QED BY <2>1 DEF NamesInUse
    <2> QED BY <2>4, <2>5 DEF States
  <1>3. ASSUME NEW st \in V, NEW i \in 1..n
        PROVE  \E g \in R : /\ op(st, files[i]) \in V
                            /\ op(st, files[i]).files = Append(st.files, g) /\ NameGiven(g, files[i], st)
    BY <1>1, NameIsGiven
  <1> HIDE DEF V, op, n, R, b
  <1>4. W \in [V \X (1..n) -> V] /\ \A st \in V, i \in 1..n : W[<<st, i>>] = op(st, files[i])
    BY <1>3
  <1> HIDE DEF W
  <1>6. PICK f : FoldsUp(f, 1..n, V, b, W, LastFirst(n))
    BY <1>1, <1>2, <1>4, LastFirstChooses, FoldExists
  <1>7. Is(f)
    <2>1. ASSUME NEW t \in SUBSET (1..n), t # {}
          PROVE  f[t] = op(f[t \ {Max(t)}], files[Max(t)])
      <3>1. Max(t) \in 1..n
        BY <1>1, <2>1, MaxIn
      <3>2. f[t \ {Max(t)}] \in V
        BY <1>6 DEF FoldsUp
      <3>3. f[t] = W[<<f[t \ {Max(t)}], Max(t)>>]
        BY <1>6, <2>1 DEF FoldsUp, LastFirst
      <3> QED BY <1>4, <3>1, <3>2, <3>3
    <2> QED BY <1>1, <1>6, <2>1 DEF FoldsUp
  <1>8. Is(H)
    <2> HIDE DEF Is
    <2> QED BY <1>7
  <1>9. u = H[1..n].files
    <2>1. u = H[DOMAIN files].files
      BY DEF ensure_unique_filenames, FoldLeft, MapThenFoldSet, op, b
    <2> HIDE DEF H
    <2> QED BY <1>1, <2>1
  <1>10. H[{}] = b
    BY <1>8
  <1>11. ASSUME NEW i \in 1..n PROVE H[1..i] = op(H[1..(i - 1)], files[i])
    <2>1. 1..i \in SUBSET DOMAIN files /\ 1..i # {}
      <3>1. i \in Nat /\ 1 <= i /\ i <= n /\ n \in Nat
        BY <1>1
      <3>2. i \in 1..i /\ 1..i \subseteq 1..n
        BY <3>1
      <3> QED BY <1>1, <3>2
    <2>2. Max(1..i) = i /\ (1..i) \ {Max(1..i)} = 1..(i - 1)
      BY MaxOfPrefix
    <2> HIDE DEF H
    <2> QED BY <1>8, <2>1, <2>2
  <1> HIDE DEF H
  <1>12. PICK F : InSteps(F, n, V, b, W) /\ F[n] = H[1..n]
    <2>1. TakesUp(H, n, V, b, W)
      BY <1>1, <1>2, <1>4, <1>10, <1>11 DEF TakesUp
    <2> QED BY <2>1, FoldAlong
  <1>13. F \in [0..n -> V] /\ F[0] = b /\ \A i \in 1..n : F[i] = W[<<F[i - 1], i>>]
    BY <1>12 DEF InSteps
  <1> DEFINE Named(k) ==
                /\ Len(F[k].files) = k
                /\ \A i \in 1..k : NamedAs(F[k].files[i], files[i], NamesUpto(F[k].files, i - 1))
             U == {k \in 0..n : Named(k)}
  <1>14. 0 \in U
    <2>1. F[0].files = <<>>
      BY <1>13 DEF b
    <2> QED BY <1>1, <2>1
  <1>15. ASSUME NEW k \in 1..n, k - 1 \in U PROVE k \in U
    <2>1. k - 1 \in 0..n /\ k \in 0..n /\ Named(k - 1) /\ k \in Nat /\ 1 <= k
      BY <1>1, <1>15
    <2>2. F[k] = op(F[k - 1], files[k]) /\ F[k - 1] \in V
      BY <1>4, <1>13, <2>1
    <2>3. PICK g \in R : F[k].files = Append(F[k - 1].files, g) /\ NameGiven(g, files[k], F[k - 1])
      BY <1>3, <2>2
    <2> DEFINE old == F[k - 1].files
               more == F[k].files
    <2>4. old \in Seq(R) /\ Len(old) = k - 1 /\ NamesInUse(F[k - 1])
      BY <2>1, <2>2 DEF V, States, R
    <2>5. more = Append(old, g)
      BY <2>3
    <2>6. \A i \in 1..(k - 1) : NamedAs(old[i], files[i], NamesUpto(old, i - 1))
      BY <2>1
    <2> HIDE DEF old, more, Named
    <2>7. /\ more \in Seq(R) /\ Len(more) = Len(old) + 1 /\ more[Len(old) + 1] = g
          /\ \A i \in 1..Len(old) : more[i] = old[i]
      BY <2>4, <2>5, Appended
    <2>8. Len(more) = k /\ more[k] = g /\ \A i \in 1..(k - 1) : more[i] = old[i]
      BY <2>1, <2>4, <2>7
    <2>9. ASSUME NEW i \in 1..k PROVE NamesUpto(more, i - 1) = NamesUpto(old, i - 1)
      <3>1. \A j \in 1..(i - 1) : j \in 1..(k - 1)
        BY <2>1
      <3> QED BY <2>8, <3>1 DEF NamesUpto
    <2>10. ASSUME NEW i \in 1..k PROVE NamedAs(more[i], files[i], NamesUpto(more, i - 1))
      <3>1. CASE i \in 1..(k - 1)
        BY <2>6, <2>8, <2>9, <3>1
      <3>2. CASE i = k
        <4>1. DOMAIN F[k - 1].used \subseteq NamesUpto(old, k - 1)
          BY <2>4 DEF NamesInUse, NamesUpto, old
        <4>2. more[k] = g /\ NamesUpto(more, k - 1) = NamesUpto(old, k - 1)
          BY <2>8, <2>9, <3>2
        <4>3. NamedAs(g, files[k], NamesUpto(old, k - 1))
          BY <2>3, <4>1 DEF NameGiven, NamedAs
        <4> QED BY <3>2, <4>2, <4>3
      <3> QED BY <2>1, <3>1, <3>2
    <2>11. Named(k)
      BY <2>8, <2>10 DEF Named, more
    <2> QED BY <2>1, <2>11
  <1> HIDE DEF U
  <1>16. 0..n \subseteq U
    BY <1>1, <1>14, <1>15, InductiveInterval
  <1>17. n \in U /\ F[n] \in V /\ u = F[n].files
    BY <1>1, <1>9, <1>12, <1>13, <1>16
  <1>18. Named(n)
    BY <1>17 DEF U
  <1>19. u \in Seq(R) /\ NamesInUse(F[n])
    BY <1>17 DEF V, States, R
  <1>20. \A i, j \in 1..Len(u) : u[i].filename = u[j].filename => i = j \/ u[i].filename = NoName
    BY <1>17, <1>19 DEF NamesInUse
  <1>21. Len(u) = Len(files) /\ \A i \in 1..Len(u) : NamedAs(u[i], files[i], NamesUpto(u, i - 1))
    BY <1>17, <1>18 DEF n
  <1> QED BY <1>19, <1>20, <1>21 DEF R

-----------------------------------------------------------------------------
(* The words of texts, and what the parser's variables hold.               *)
NzbSpec == NzbInit /\ [][NzbNext]_nzbVars

Words == Tags \X Nat \X Nat
Texts == Seq(Words)
SegmentsWritten == [number : Numbers, message_id : Texts]
SegmentsRead == {s \in SegmentsWritten : s.message_id # <<>>}
Statuses == {ParOf[s] : s \in Subjects}
GroupsOfFiles == Seq(Texts) \ {<<>>}
SegmentsOfFiles == Seq(SegmentsRead) \ {<<>>}
FilesRead == FilesNamed(Subjects, Statuses, GroupsOfFiles, SegmentsOfFiles)
Builders == [subject : Subjects, groups : Seq(Texts), segments : Seq(SegmentsRead)]
FilesWritten ==
    [subject : Subjects, groups : Seq(Texts), segments : Seq(SegmentsWritten), closed : BOOLEAN]
ParserStates ==
    {"Initial", "InNzb", "InHead", "InMeta", "InFile", "InGroups", "InGroup", "InSegments", "InSegment"}
Parsers ==
    [state : ParserStates, number : Numbers \union {Bad, 0}, meta : Seq(Texts),
     files : Seq(FilesRead), current_file : Builders \union {NoFile}, text : Texts,
     saw_nzb : BOOLEAN]

(* The elements that are open in a state: that of the state, and those of  *)
(* the state around it.                                                    *)
TextStates == {"InMeta", "InGroup", "InSegment"}
FileStates == {"InFile", "InGroups", "InGroup", "InSegments", "InSegment"}
TagOf(state) ==
    CASE state = "InNzb" -> "nzb" [] state = "InHead" -> "head" [] state = "InMeta" -> "meta"
      [] state = "InFile" -> "file" [] state = "InGroups" -> "groups" [] state = "InGroup" -> "group"
      [] state = "InSegments" -> "segments" [] state = "InSegment" -> "segment" [] OTHER -> "none"
Around(state) ==
    CASE state = "InNzb" -> "Initial" [] state = "InHead" -> "InNzb" [] state = "InMeta" -> "InHead"
      [] state = "InFile" -> "InNzb" [] state = "InGroups" -> "InFile" [] state = "InGroup" -> "InGroups"
      [] state = "InSegments" -> "InFile" [] state = "InSegment" -> "InSegments" [] OTHER -> "none"

-----------------------------------------------------------------------------
(* Whatever stands where, the parser is of one piece: in a file it has the *)
(* file, in a segment its number, and it keeps no file that lacks anything.*)
IsSound(p) ==
    /\ p \in Parsers
    /\ p.state \in FileStates => p.current_file \in Builders
    /\ p.state = "InSegment" => p.number \in Numbers

(* What stands for the parser in an invariant is its fields.               *)
LEMMA ParserFields ==
    ASSUME NEW p \in Parsers
    PROVE  /\ p.state \in ParserStates /\ p.number \in Numbers \union {Bad, 0} /\ p.meta \in Seq(Texts)
           /\ p.files \in Seq(FilesRead) /\ Len(p.files) \in Nat
           /\ p.current_file \in Builders \union {NoFile} /\ p.text \in Texts
  BY DEF Parsers

(* What the start of an element changes in the parser.                     *)
StartedAs(q, p, tag, attr) ==
    /\ q.state = Enters(p.state, tag) /\ q.text = <<>> /\ q.files = p.files /\ q.meta = p.meta
    /\ q.number = (IF p.state = "InSegments" /\ tag = "segment" THEN attr ELSE p.number)
    /\ q.current_file = (IF p.state = "InNzb" /\ tag = "file"
                         THEN [subject |-> attr, groups |-> <<>>, segments |-> <<>>] ELSE p.current_file)
    /\ Enters(p.state, tag) \in ParserStates
    /\ (q.number \in Numbers \union {Bad, 0} /\ q.current_file \in Builders \union {NoFile}) => q \in Parsers

LEMMA Started ==
    ASSUME NEW p \in Parsers, NEW tag, NEW attr, NEW q, q = handle_start(p, tag, attr)
    PROVE  StartedAs(q, p, tag, attr)
  <1>1. Enters(p.state, tag) \in ParserStates
    BY ParserFields DEF Enters, ParserStates
  <1>2. p = [state |-> p.state, number |-> p.number, meta |-> p.meta, files |-> p.files,
             current_file |-> p.current_file, text |-> p.text, saw_nzb |-> p.saw_nzb]
    BY DEF Parsers
  <1>3. q = [state |-> Enters(p.state, tag),
             number |-> IF p.state = "InSegments" /\ tag = "segment" THEN attr ELSE p.number,
             meta |-> p.meta, files |-> p.files,
             current_file |-> IF p.state = "InNzb" /\ tag = "file"
                              THEN [subject |-> attr, groups |-> <<>>, segments |-> <<>>]
                              ELSE p.current_file,
             text |-> <<>>, saw_nzb |-> p.saw_nzb \/ tag = "nzb"]
    BY <1>2 DEF handle_start
  <1>4. p.meta \in Seq(Texts) /\ p.files \in Seq(FilesRead) /\ p.saw_nzb \in BOOLEAN /\ <<>> \in Texts
    BY DEF Parsers, Texts
  <1>5. q.number \in Numbers \union {Bad, 0} /\ q.current_file \in Builders \union {NoFile} => q \in Parsers
    BY <1>1, <1>3, <1>4 DEF Parsers
  <1> QED BY <1>1, <1>3, <1>5 DEF StartedAs

LEMMA StartIsSound ==
    ASSUME NEW p, IsSound(p), NEW tag \in Tags, NEW attr \in Attributes(tag), ~StartFails(p, tag, attr),
           NEW q, q = handle_start(p, tag, attr)
    PROVE  IsSound(q) /\ q.files = p.files
  <1>1. p \in Parsers
    BY DEF IsSound
  <1>2. StartedAs(q, p, tag, attr)
    BY <1>1, Started
  <1>3. q.current_file \in Builders \union {NoFile} /\ (q.state \in FileStates => q.current_file \in Builders)
    <2>1. CASE p.state = "InNzb" /\ tag = "file"
      <3>1. attr \in Subjects /\ <<>> \in Seq(Texts) /\ <<>> \in Seq(SegmentsRead)
        BY <2>1 DEF Attributes
      <3>2. [subject |-> attr, groups |-> <<>>, segments |-> <<>>] \in Builders
        BY <3>1 DEF Builders
      <3>3. q.current_file = [subject |-> attr, groups |-> <<>>, segments |-> <<>>]
        BY <1>2, <2>1 DEF StartedAs
      <3> QED BY ONLY <3>2, <3>3
    <2>2. CASE ~(p.state = "InNzb" /\ tag = "file")
      <3>1. q.current_file = p.current_file /\ q.state = Enters(p.state, tag)
        BY <1>2, <2>2 DEF StartedAs
      <3>2. q.state \in FileStates => p.state \in FileStates
        BY <2>2, <3>1 DEF Enters, FileStates
      <3> QED BY <1>1, <3>1, <3>2, ParserFields DEF IsSound
    <2> QED BY <2>1, <2>2
  <1>4. q.number \in Numbers \union {Bad, 0} /\ (q.state = "InSegment" => q.number \in Numbers)
    <2>1. CASE p.state = "InSegments" /\ tag = "segment"
      <3>1. attr \in Numbers /\ q.number = attr
        BY <1>2, <2>1 DEF Attributes, StartFails, StartedAs
      <3> QED BY <3>1
    <2>2. CASE ~(p.state = "InSegments" /\ tag = "segment")
      <3>1. q.number = p.number /\ q.state = Enters(p.state, tag)
        BY <1>2, <2>2 DEF StartedAs
      <3>2. q.state = "InSegment" => p.state = "InSegment"
        BY <2>2, <3>1 DEF Enters
      <3> QED BY <1>1, <3>1, <3>2, ParserFields DEF IsSound
    <2> QED BY <2>1, <2>2
  <1> QED BY <1>2, <1>3, <1>4 DEF StartedAs, IsSound

(* A text: one word more, and nothing else.                                *)
TextAdded(q, p, word) ==
    /\ q.state = p.state /\ q.files = p.files /\ q.number = p.number /\ q.current_file = p.current_file
    /\ q.text = Append(p.text, word) /\ q \in Parsers

LEMMA TextIsAdded ==
    ASSUME NEW p \in Parsers, NEW word \in Words, NEW q, q = [p EXCEPT !.text = Append(@, word)]
    PROVE  TextAdded(q, p, word)
  <1>1. p.text \in Seq(Words)
    BY DEF Parsers, Texts
  <1>2. PICK t : t = Append(p.text, word)
    OBVIOUS
  <1>3. t \in Texts
    <2> HIDE DEF Words
    <2> QED BY <1>1, <1>2 DEF Texts
  <1>4. q = [p EXCEPT !.text = t]
    BY <1>2
  <1> QED BY <1>2, <1>3, <1>4 DEF TextAdded, Parsers

LEMMA TextIsSound ==
    ASSUME NEW p, IsSound(p), NEW word \in Words, NEW q, q = [p EXCEPT !.text = Append(@, word)]
    PROVE  IsSound(q) /\ q.files = p.files
  <1>1. TextAdded(q, p, word)
    BY TextIsAdded DEF IsSound
  <1> QED BY <1>1 DEF IsSound, TextAdded

(* An element that ends takes the parser to the state around it.           *)
LeftTo(q, p, state) ==
    /\ q.state = state /\ q.files = p.files /\ q.number = p.number /\ q.current_file = p.current_file
    /\ q \in Parsers

LEMMA PlainEnd ==
    ASSUME NEW p \in Parsers, NEW state \in {"InNzb", "InHead", "InMeta", "InGroups", "InSegments"},
           p.state = state, NEW q, q = handle_end(p, TagOf(state))
    PROVE  LeftTo(q, p, Around(state))
  <1>1. CASE state = "InMeta"
    <2>1. q = [[p EXCEPT !.text = <<>>] EXCEPT !.state = "InHead", !.meta = Append(@, p.text)]
      BY <1>1 DEF handle_end, TagOf
    <2>2. p.meta \in Seq(Texts) /\ p.text \in Texts /\ <<>> \in Texts
      BY DEF Parsers, Texts
    <2>3. PICK m : m = Append(p.meta, p.text)
      OBVIOUS
    <2>4. m \in Seq(Texts)
      <3> HIDE DEF Texts
      <3> QED BY <2>2, <2>3
    <2>5. q = [p EXCEPT !.text = <<>>, !.state = "InHead", !.meta = m]
      BY <2>1, <2>3 DEF Parsers
    <2> QED BY <1>1, <2>2, <2>4, <2>5 DEF LeftTo, Around, Parsers, ParserStates
  <1>2. CASE state # "InMeta"
    <2>1. q = [p EXCEPT !.state = Around(state)]
      BY <1>2 DEF handle_end, TagOf, Around
    <2>2. Around(state) \in ParserStates
      BY DEF ParserStates, Around
    <2>3. PICK r : r = Around(state)
      OBVIOUS
    <2>4. q = [p EXCEPT !.state = r] /\ r \in ParserStates
      BY <2>1, <2>2, <2>3
    <2>5. LeftTo(q, p, r)
      BY <2>4 DEF LeftTo, Parsers
    <2> QED BY <2>3, <2>5
  <1> QED BY <1>1, <1>2

(* The group, the segment or the file that ends is put to the others.      *)
GroupEnded(q, p) ==
    /\ q \in Parsers /\ q.state = "InGroups" /\ q.files = p.files /\ q.current_file \in Builders
    /\ q.current_file.subject = p.current_file.subject
    /\ q.current_file.groups = Append(p.current_file.groups, p.text)
    /\ q.current_file.segments = p.current_file.segments

LEMMA GroupEnds ==
    ASSUME NEW p, IsSound(p), p.state = "InGroup", NEW q, q = handle_end(p, "group")
    PROVE  GroupEnded(q, p)
  <1> DEFINE c == p.current_file
  <1>1. p \in Parsers /\ c \in Builders
    BY DEF IsSound, FileStates
  <1>2. q = [[p EXCEPT !.text = <<>>] EXCEPT !.state = "InGroups",
                !.current_file.groups = Append(@, p.text)]
    BY DEF handle_end
  <1>3. PICK g : g = Append(c.groups, p.text)
    OBVIOUS
  <1>4. g \in Seq(Texts) /\ <<>> \in Texts
    <2>1. c.groups \in Seq(Texts) /\ p.text \in Texts
      BY <1>1, ParserFields DEF Builders
    <2>2. <<>> \in Texts
      BY DEF Texts
    <2> QED BY <1>3, <2>1, <2>2
  <1> DEFINE d == [c EXCEPT !.groups = g]
  <1>5. d \in Builders /\ d.subject = c.subject /\ d.groups = g /\ d.segments = c.segments
    BY <1>1, <1>4 DEF Builders
  <1>6. q = [p EXCEPT !.text = <<>>, !.state = "InGroups", !.current_file = d]
    <2>1. q = [[p EXCEPT !.text = <<>>] EXCEPT !.state = "InGroups", !.current_file.groups = g]
      BY <1>1, <1>2, <1>3 DEF Parsers
    <2> QED BY <1>1, <2>1 DEF Parsers
  <1> HIDE DEF d
  <1>7. q \in Parsers /\ q.state = "InGroups" /\ q.current_file = d /\ q.files = p.files
    BY <1>1, <1>4, <1>5, <1>6 DEF Parsers, ParserStates
  <1> QED BY <1>3, <1>5, <1>7 DEF GroupEnded

SegmentEnded(q, p) ==
    /\ q \in Parsers /\ q.state = "InSegments" /\ q.files = p.files /\ q.current_file \in Builders
    /\ q.current_file.subject = p.current_file.subject
    /\ q.current_file.groups = p.current_file.groups
    /\ q.current_file.segments =
          Append(p.current_file.segments, [number |-> p.number, message_id |-> p.text])

LEMMA SegmentEnds ==
    ASSUME NEW p, IsSound(p), p.state = "InSegment", p.text # <<>>, NEW q, q = handle_end(p, "segment")
    PROVE  SegmentEnded(q, p)
  <1> DEFINE c == p.current_file
             r == [number |-> p.number, message_id |-> p.text]
  <1>1. p \in Parsers /\ c \in Builders /\ p.number \in Numbers
    BY DEF IsSound, FileStates
  <1>2. q = [[p EXCEPT !.text = <<>>] EXCEPT !.state = "InSegments",
                !.current_file.segments = Append(@, [number |-> p.number, message_id |-> p.text])]
    BY DEF handle_end
  <1>3. PICK u : u = Append(c.segments, r)
    OBVIOUS
  <1>4. u \in Seq(SegmentsRead) /\ <<>> \in Texts
    <2>1. r \in SegmentsRead /\ c.segments \in Seq(SegmentsRead)
      BY <1>1, ParserFields DEF SegmentsRead, SegmentsWritten, Builders
    <2> HIDE DEF r
    <2>2. <<>> \in Texts
      BY DEF Texts
    <2> QED BY <1>3, <2>1, <2>2
  <1> DEFINE d == [c EXCEPT !.segments = u]
  <1>5. d \in Builders /\ d.subject = c.subject /\ d.groups = c.groups /\ d.segments = u
    BY <1>1, <1>4 DEF Builders
  <1>6. q = [p EXCEPT !.text = <<>>, !.state = "InSegments", !.current_file = d]
    <2>1. q = [[p EXCEPT !.text = <<>>] EXCEPT !.state = "InSegments", !.current_file.segments = u]
      BY <1>1, <1>2, <1>3 DEF Parsers
    <2> QED BY <1>1, <2>1 DEF Parsers
  <1> HIDE DEF d
  <1>7. q \in Parsers /\ q.state = "InSegments" /\ q.current_file = d /\ q.files = p.files
    BY <1>1, <1>4, <1>5, <1>6 DEF Parsers, ParserStates
  <1> QED BY <1>3, <1>5, <1>7 DEF SegmentEnded

FileEnded(q, p) ==
    /\ q \in Parsers /\ q.state = "InNzb"
    /\ FileFrom(p.current_file) \in FilesRead
    /\ q.files = Append(p.files, FileFrom(p.current_file))

LEMMA FileEnds ==
    ASSUME NEW p, IsSound(p), p.state = "InFile", p.current_file.groups # <<>>,
           p.current_file.segments # <<>>, NEW q, q = handle_end(p, "file")
    PROVE  FileEnded(q, p)
  <1> DEFINE c == p.current_file
             r == FileFrom(c)
  <1>1. p \in Parsers /\ c \in Builders /\ p.files \in Seq(FilesRead)
    BY ParserFields DEF IsSound, FileStates
  <1>2. r \in FilesRead
    <2>1. /\ c.subject \in Subjects /\ ParOf[c.subject] \in Statuses /\ c.groups \in GroupsOfFiles
          /\ c.segments \in SegmentsOfFiles
      BY <1>1 DEF Builders, Statuses, GroupsOfFiles, SegmentsOfFiles
    <2> QED BY <2>1 DEF FileFrom, FilesRead, FilesNamed
  <1> HIDE DEF r
  <1>3. q = [p EXCEPT !.state = "InNzb", !.files = Append(@, r), !.current_file = NoFile]
    BY DEF handle_end, r
  <1>4. PICK w : w = Append(p.files, r)
    OBVIOUS
  <1>5. w \in Seq(FilesRead)
    BY <1>1, <1>2, <1>4
  <1>6. q = [p EXCEPT !.state = "InNzb", !.files = w, !.current_file = NoFile]
    BY <1>3, <1>4
  <1>7. q \in Parsers /\ q.state = "InNzb" /\ q.files = w
    BY <1>1, <1>5, <1>6 DEF Parsers, ParserStates
  <1> QED BY <1>2, <1>4, <1>7 DEF FileEnded, r

LEMMA EndIsSound ==
    ASSUME NEW p, IsSound(p), NEW tag \in Tags, ~EndFails(p, tag), NEW q, q = handle_end(p, tag)
    PROVE  /\ IsSound(q)
           /\ \/ q.files = p.files
              \/ \E r \in FilesRead : q.files = Append(p.files, r)
  <1>1. p \in Parsers /\ p.state \in ParserStates
    BY ParserFields DEF IsSound
  <1>2. CASE tag = TagOf(p.state) /\ p.state \in {"InNzb", "InHead", "InMeta", "InGroups", "InSegments"}
    <2>1. LeftTo(q, p, Around(p.state))
      BY <1>1, <1>2, PlainEnd
    <2>2. q.state = Around(p.state)
      BY <2>1 DEF LeftTo
    <2>3. q.state \in FileStates => p.state \in FileStates
      BY <1>2, <2>2 DEF Around, FileStates
    <2>4. q.state # "InSegment"
      BY <2>2 DEF Around
    <2> QED BY <2>1, <2>3, <2>4 DEF IsSound, LeftTo
  <1>3. CASE tag = "group" /\ p.state = "InGroup"
    <2>1. GroupEnded(q, p)
      BY <1>3, GroupEnds
    <2> QED BY <2>1 DEF IsSound, GroupEnded
  <1>4. CASE tag = "segment" /\ p.state = "InSegment"
    <2>1. p.text # <<>>
      BY <1>4 DEF EndFails
    <2>2. SegmentEnded(q, p)
      BY <1>4, <2>1, SegmentEnds
    <2> QED BY <2>2 DEF IsSound, SegmentEnded
  <1>5. CASE tag = "file" /\ p.state = "InFile"
    <2>1. p.current_file.groups # <<>> /\ p.current_file.segments # <<>>
      BY <1>5 DEF EndFails
    <2>2. FileEnded(q, p)
      BY <1>5, <2>1, FileEnds
    <2> QED BY <2>2 DEF IsSound, FileEnded, FileStates
  <1>6. CASE ~ \/ tag = TagOf(p.state) /\ p.state \in {"InNzb", "InHead", "InMeta", "InGroups", "InSegments"}
               \/ tag = "group" /\ p.state = "InGroup"
               \/ tag = "segment" /\ p.state = "InSegment"
               \/ tag = "file" /\ p.state = "InFile"
    <2>1. q = p
      BY <1>1, <1>6 DEF handle_end, TagOf, ParserStates
    <2> QED BY <2>1
  <1> QED BY <1>2, <1>3, <1>4, <1>5, <1>6
-----------------------------------------------------------------------------
(* The parser and the document: where it is, and what it has read, while   *)
(* every element stands where the format has it.  The elements that are    *)
(* open took it from state to state.                                       *)
Passes(s, tag, t) ==
    \/ tag = "other" /\ t = s /\ s \notin TextStates
    \/ t \in ParserStates \ {"Initial"} /\ tag = TagOf(t) /\ s = Around(t)

Leads(trace, tags, state) ==
    /\ trace[0] = "Initial" /\ trace[Len(tags)] = state
    /\ \A k \in 1..Len(tags) : Passes(trace[k - 1], tags[k], trace[k])

IsPlace(tags, state) == \E trace \in [0..Len(tags) -> ParserStates] : Leads(trace, tags, state)

LEMMA LastIn ==
    ASSUME NEW tags \in Seq(Tags), tags # <<>>
    PROVE  Last(tags) \in Tags /\ Front(tags) \in Seq(Tags)
  <1>1. Len(tags) \in Nat \ {0}
    BY EmptyOrNot, AnySequence
  <1>2. Len(tags) \in 1..Len(tags) /\ Len(tags) - 1 \in 0..Len(tags)
    BY <1>1
  <1>3. SubSeq(tags, 1, Len(tags) - 1) \in Seq(Tags)
    BY <1>2
  <1> QED BY <1>2, <1>3 DEF Last, Front

(* The innermost element, and the state around it.                         *)
LEMMA WhereItIs ==
    ASSUME NEW tags \in Seq(Tags), NEW state, IsPlace(tags, state)
    PROVE  /\ state \in ParserStates
           /\ tags = <<>> => state = "Initial"
           /\ tags # <<>> =>
                 \E s \in ParserStates :
                    /\ Last(tags) \in Tags /\ Front(tags) \in Seq(Tags)
                    /\ IsPlace(Front(tags), s) /\ Passes(s, Last(tags), state)
  <1>1. PICK trace \in [0..Len(tags) -> ParserStates] : Leads(trace, tags, state)
    BY DEF IsPlace
  <1> DEFINE n == Len(tags)
  <1>2. n \in Nat /\ \A k \in 0..n : trace[k] \in ParserStates
    OBVIOUS
  <1>3. state \in ParserStates
    BY <1>1, <1>2 DEF Leads
  <1>4. CASE tags = <<>>
    BY <1>1, <1>3, <1>4 DEF Leads
  <1>5. CASE tags # <<>>
    <2>1. PICK m \in Nat : n = m + 1
      <3>1. n # 0
        BY <1>5
      <3>2. n - 1 \in Nat /\ n = (n - 1) + 1
        BY <1>2, <3>1
      <3> QED BY <3>2
    <2>2. PICK rest : rest = Front(tags)
      OBVIOUS
    <2>3. rest \in Seq(Tags) /\ Len(rest) = m /\ \A k \in 1..m : rest[k] = tags[k]
      <3>1. rest = SubSeq(tags, 1, m)
        BY <2>1, <2>2 DEF Front
      <3>2. m \in 0..Len(tags)
        BY <2>1
      <3> QED BY <3>1, <3>2, <2>1
    <2>4. Last(tags) = tags[m + 1] /\ tags[m + 1] \in Tags
      BY <2>1 DEF Last
    <2>5. trace[m] \in ParserStates /\ Passes(trace[m], tags[m + 1], state)
      <3>1. m + 1 \in 1..n /\ (m + 1) - 1 = m /\ m \in 0..n
        BY <2>1
      <3>2. Passes(trace[(m + 1) - 1], tags[m + 1], trace[m + 1]) /\ trace[m + 1] = state
        BY <1>1, <2>1, <3>1 DEF Leads
      <3> QED BY <1>2, <3>1, <3>2
    <2>6. IsPlace(rest, trace[m])
      <3>1. PICK path : path = [k \in 0..m |-> trace[k]]
        OBVIOUS
      <3>2. path \in [0..Len(rest) -> ParserStates]
        <4>1. \A k \in 0..m : k \in 0..n
          BY <2>1
        <4> QED BY <1>2, <2>3, <3>1, <4>1
      <3>3. path[0] = "Initial" /\ path[Len(rest)] = trace[m]
        <4>1. 0 \in 0..m /\ m \in 0..m
          OBVIOUS
        <4> QED BY <1>1, <2>3, <3>1, <4>1 DEF Leads
      <3>4. ASSUME NEW k \in 1..Len(rest) PROVE Passes(path[k - 1], rest[k], path[k])
        <4>1. k \in 1..n /\ k \in 0..m /\ k - 1 \in 0..m /\ k \in 1..m
          BY <2>1, <2>3
        <4>2. Passes(trace[k - 1], tags[k], trace[k])
          BY <1>1, <4>1 DEF Leads
        <4> QED BY <2>3, <3>1, <4>1, <4>2
      <3> QED BY <3>2, <3>3, <3>4 DEF IsPlace, Leads
    <2> QED BY <1>3, <1>5, <2>2, <2>3, <2>4, <2>5, <2>6
  <1> QED BY <1>3, <1>4, <1>5

LEMMA PlaceInside ==
    ASSUME NEW tags \in Seq(Tags), NEW state, IsPlace(tags, state), NEW tag \in Tags,
           NEW next \in ParserStates, Passes(state, tag, next)
    PROVE  IsPlace(Append(tags, tag), next)
  <1>1. PICK trace \in [0..Len(tags) -> ParserStates] : Leads(trace, tags, state)
    BY DEF IsPlace
  <1>2. PICK n : n = Len(tags)
    OBVIOUS
  <1>3. PICK more : more = Append(tags, tag)
    OBVIOUS
  <1>4. /\ n \in Nat /\ Len(more) = n + 1 /\ more[n + 1] = tag
        /\ \A k \in 1..n : more[k] = tags[k]
    BY <1>2, <1>3, Appended
  <1>5. PICK path : path = [k \in 0..(n + 1) |-> IF k = n + 1 THEN next ELSE trace[k]]
    OBVIOUS
  <1>6. path \in [0..Len(more) -> ParserStates]
    <2>1. \A k \in 0..(n + 1) : k = n + 1 \/ k \in 0..n
      BY <1>4
    <2>2. \A k \in 0..n : trace[k] \in ParserStates
      BY <1>2
    <2> QED BY <1>4, <1>5, <2>1, <2>2
  <1>7. \A k \in 0..n : path[k] = trace[k]
    BY <1>4, <1>5
  <1>8. path[n + 1] = next
    BY <1>4, <1>5
  <1>9. path[0] = "Initial" /\ path[Len(more)] = next
    BY <1>1, <1>4, <1>7, <1>8 DEF Leads
  <1>10. ASSUME NEW k \in 1..Len(more) PROVE Passes(path[k - 1], more[k], path[k])
    <2>1. CASE k = n + 1
      <3>1. k - 1 = n /\ n \in 0..n
        BY <1>4, <2>1
      <3>2. path[k - 1] = state /\ more[k] = tag /\ path[k] = next
        BY <1>1, <1>2, <1>4, <1>7, <1>8, <2>1, <3>1 DEF Leads
      <3> QED BY <3>2
    <2>2. CASE k # n + 1
      <3>1. k \in 1..n /\ k \in 0..n /\ k - 1 \in 0..n
        BY <1>4, <2>2
      <3>2. Passes(trace[k - 1], tags[k], trace[k])
        BY <1>1, <1>2, <3>1 DEF Leads
      <3> QED BY <1>4, <1>7, <3>1, <3>2
    <2> QED BY <2>1, <2>2
  <1> QED BY <1>3, <1>6, <1>9, <1>10 DEF IsPlace, Leads

(* The file that is open, with the group or the segment that is.           *)
CurrentFits(p, f) ==
    /\ p.current_file \in Builders /\ p.current_file.subject = f.subject /\ ~f.closed
    /\ f.groups = IF p.state = "InGroup" THEN Append(p.current_file.groups, p.text)
                                         ELSE p.current_file.groups
    /\ f.segments = IF p.state = "InSegment"
                    THEN Append(p.current_file.segments, [number |-> p.number, message_id |-> p.text])
                    ELSE p.current_file.segments

FilesFit(p, w) ==
    /\ Len(w) = Len(p.files) + IF p.state \in FileStates THEN 1 ELSE 0
    /\ \A i \in 1..Len(p.files) : w[i].closed /\ p.files[i] = FileFrom(w[i])
    /\ p.state \in FileStates => CurrentFits(p, w[Len(w)])

ParserFits == IsPlace(open_tags, parser.state) /\ FilesFit(parser, written)

ReadSoFar ==
    /\ IsSound(parser) /\ open_tags \in Seq(Tags) /\ written \in Seq(FilesWritten) /\ plain \in BOOLEAN

(* The files that were complete before are there.                          *)
PrefixRead ==
    /\ Closed \in Seq(FilesWritten) /\ Len(Closed) <= Len(parser.files)
    /\ \A i \in 1..Len(Closed) : parser.files[i] = FileFrom(Closed[i])

NzbInv ==
    /\ verdict = "Parsing" => ReadSoFar /\ IF plain THEN ParserFits ELSE PrefixRead
    /\ NzbIsReadRight

LEMMA NzbInitially == NzbInit => NzbInv
  <1> SUFFICES ASSUME NzbInit PROVE NzbInv
    OBVIOUS
  <1>1. /\ parser = new /\ verdict = "Parsing" /\ open_tags = <<>> /\ written = <<>> /\ plain = TRUE
    BY DEF NzbInit
  <1>2. IsSound(new) /\ new.state = "Initial" /\ new.files = <<>>
    BY DEF new, Parsers, ParserStates, Texts, IsSound, FileStates
  <1>3. IsPlace(<<>>, "Initial")
    <2>1. PICK trace : trace = [k \in {0} |-> "Initial"]
      OBVIOUS
    <2>2. trace \in [0..Len(<<>>) -> ParserStates] /\ trace[0] = "Initial" /\ Len(<<>>) = 0
      BY <2>1 DEF ParserStates
    <2> QED BY <2>2 DEF IsPlace, Leads
  <1>4. FilesFit(new, <<>>)
    BY <1>2 DEF FilesFit, FileStates
  <1> QED BY <1>1, <1>2, <1>3, <1>4 DEF NzbInv, ReadSoFar, ParserFits, NzbIsReadRight

(* The file that is open has changed, and what the parser has of it.       *)
LEMMA OpenFileChanged ==
    ASSUME NEW p, NEW w, NEW q, NEW v, FilesFit(p, w), p.state \in FileStates, q.state \in FileStates,
           q.files = p.files, Len(q.files) \in Nat, Len(v) = Len(w),
           \A i \in 1..(Len(w) - 1) : v[i] = w[i], CurrentFits(q, v[Len(w)])
    PROVE  FilesFit(q, v)
  <1>1. Len(w) = Len(p.files) + 1 /\ \A i \in 1..Len(p.files) : w[i].closed /\ p.files[i] = FileFrom(w[i])
    BY DEF FilesFit
  <1>2. \A i \in 1..Len(p.files) : v[i] = w[i]
    BY <1>1
  <1> QED BY <1>1, <1>2 DEF FilesFit

LEMMA NoFileOpen ==
    ASSUME NEW p, NEW w, NEW q, FilesFit(p, w), p.state \notin FileStates, q.state \notin FileStates,
           q.files = p.files
    PROVE  FilesFit(q, w)
  BY DEF FilesFit

LEMMA FitsStill ==
    ASSUME NEW p, NEW f, NEW q, NEW g, CurrentFits(p, f),
           p.state \notin {"InGroup", "InSegment"}, q.state \notin {"InGroup", "InSegment"},
           q.current_file = p.current_file,
           g.subject = f.subject, g.groups = f.groups, g.segments = f.segments, g.closed = f.closed
    PROVE  CurrentFits(q, g)
  BY DEF CurrentFits

(* The last file that was written, while it is open.                       *)
LEMMA LastIsOpen ==
    ASSUME NEW p, NEW w, FilesFit(p, w), p.state \in FileStates, p \in Parsers, w \in Seq(FilesWritten)
    PROVE  /\ w # <<>> /\ Len(w) \in Nat \ {0} /\ Last(w) = w[Len(w)]
           /\ w[Len(w)] \in FilesWritten /\ CurrentFits(p, w[Len(w)])
           /\ Len(w) = Len(p.files) + 1 /\ Len(p.files) \in Nat
  <1>1. Len(w) = Len(p.files) + 1 /\ Len(p.files) \in Nat
    BY ParserFields DEF FilesFit
  <1>2. Len(w) \in Nat \ {0}
    BY <1>1
  <1>3. w # <<>>
    BY <1>2
  <1>4. w[Len(w)] \in FilesWritten
    BY <1>2, ElementOf
  <1> QED BY <1>1, <1>2, <1>3, <1>4 DEF FilesFit, Last

(* Nothing is read or written of the file that is open.                    *)
LEMMA FileStands ==
    ASSUME NEW p \in Parsers, NEW w \in Seq(FilesWritten), FilesFit(p, w), NEW q,
           p.state \notin {"InGroup", "InSegment"}, q.state \notin {"InGroup", "InSegment"},
           p.state \in FileStates <=> q.state \in FileStates,
           q.files = p.files, q.current_file = p.current_file
    PROVE  FilesFit(q, w)
  <1>1. CASE p.state \notin FileStates
    BY <1>1, NoFileOpen
  <1>2. CASE p.state \in FileStates
    <2>1. CurrentFits(p, w[Len(w)])
      BY <1>2, LastIsOpen
    <2>2. CurrentFits(q, w[Len(w)])
      BY <2>1, FitsStill
    <2>3. Len(q.files) \in Nat
      BY ParserFields
    <2> QED BY <1>2, <2>2, <2>3, OpenFileChanged
  <1> QED BY <1>1, <1>2

(* The last file is another, and what the parser has of it.                *)
LEMMA LastFileChanged ==
    ASSUME NEW p \in Parsers, NEW w \in Seq(FilesWritten), FilesFit(p, w), p.state \in FileStates,
           NEW q, q.state \in FileStates, q.files = p.files, NEW e \in FilesWritten, CurrentFits(q, e),
           NEW v, ElementChanged(v, w, Len(w), e)
    PROVE  v \in Seq(FilesWritten) /\ FilesFit(q, v)
  <1>1. w # <<>>
    BY LastIsOpen
  <1>2. /\ v \in Seq(FilesWritten) /\ Len(v) = Len(w) /\ v[Len(w)] = e
        /\ \A i \in 1..(Len(w) - 1) : v[i] = w[i]
    BY <1>1, ChangedLast
  <1>3. Len(q.files) \in Nat /\ CurrentFits(q, v[Len(w)])
    BY <1>2, ParserFields
  <1> QED BY <1>2, <1>3, OpenFileChanged
(* What may start, where the parser is.                                    *)
StartsAt(state, tag) ==
    \/ tag = "other" /\ state \notin TextStates
    \/ state = "Initial" /\ tag = "nzb"
    \/ state = "InNzb" /\ tag \in {"head", "file"}
    \/ state = "InHead" /\ tag = "meta"
    \/ state = "InFile" /\ tag \in {"groups", "segments"}
    \/ state = "InGroups" /\ tag = "group"
    \/ state = "InSegments" /\ tag = "segment"

LEMMA StandsHere ==
    ASSUME NEW state, IsPlace(open_tags, state), open_tags \in Seq(Tags), NEW tag \in Tags, Stands(tag)
    PROVE  StartsAt(state, tag)
  <1>1. state \in ParserStates
    BY WhereItIs
  <1>2. CASE open_tags = <<>>
    <2>1. state = "Initial"
      <3>1. IsPlace(<<>>, state)
        BY <1>2
      <3>2. PICK trace \in [0..0 -> ParserStates] : trace[0] = "Initial" /\ trace[0] = state
        BY <3>1 DEF IsPlace, Leads
      <3> QED BY <3>2
    <2>2. tag \in {"nzb", "other"}
      BY <1>2 DEF Stands
    <2> QED BY <2>1, <2>2 DEF StartsAt, TextStates
  <1>3. CASE open_tags # <<>>
    <2>1. PICK s \in ParserStates : Passes(s, Last(open_tags), state)
      BY <1>3, WhereItIs
    <2>2. PICK l : l = Last(open_tags)
      OBVIOUS
    <2>3. tag \in Children(l) \/ (tag = "other" /\ l \notin WithText)
      BY <1>3, <2>2 DEF Stands
    <2>4. CASE l = "other" /\ state \notin TextStates
      <3>1. Children(l) = {}
        BY <2>4 DEF Children
      <3> QED BY <2>3, <2>4, <3>1 DEF StartsAt
    <2>5. CASE state \in ParserStates \ {"Initial"} /\ l = TagOf(state)
      <3>1. CASE tag \in Children(l)
        BY <2>5, <3>1 DEF TagOf, Children, StartsAt, ParserStates
      <3>2. CASE tag = "other" /\ l \notin WithText
        BY <2>5, <3>2 DEF TagOf, WithText, StartsAt, TextStates
      <3> QED BY <2>3, <3>1, <3>2
    <2>6. \/ l = "other" /\ state \notin TextStates
          \/ state \in ParserStates \ {"Initial"} /\ l = TagOf(state)
      BY <2>1, <2>2 DEF Passes
    <2> QED BY <2>4, <2>5, <2>6
  <1> QED BY <1>2, <1>3

LEMMA PlaceOfStart ==
    ASSUME NEW state \in ParserStates, NEW tag, StartsAt(state, tag)
    PROVE  Enters(state, tag) \in ParserStates /\ Passes(state, tag, Enters(state, tag))
  <1>1. CASE tag = "other" /\ state \notin TextStates
    BY <1>1 DEF Enters, Passes
  <1>2. CASE tag # "other"
    <2>1. /\ Enters(state, tag) \in ParserStates \ {"Initial"} /\ Around(Enters(state, tag)) = state
          /\ TagOf(Enters(state, tag)) = tag
      BY <1>2 DEF StartsAt, Enters, Around, TagOf, ParserStates
    <2> QED BY <2>1 DEF Passes
  <1> QED BY <1>1, <1>2 DEF StartsAt

(* The steps of the document, one element after the other.                 *)
LEMMA StartOfFile ==
    ASSUME NEW p \in Parsers, written \in Seq(FilesWritten), FilesFit(p, written), p.state = "InNzb",
           NEW attr \in Subjects, NEW q, StartedAs(q, p, "file", attr), q.current_file \in Builders,
           NEW v, v = Written("file", attr)
    PROVE  v \in Seq(FilesWritten) /\ FilesFit(q, v)
  <1> DEFINE e == [subject |-> attr, groups |-> <<>>, segments |-> <<>>, closed |-> FALSE]
  <1>1. /\ q.state = "InFile" /\ q.files = p.files
        /\ q.current_file = [subject |-> attr, groups |-> <<>>, segments |-> <<>>]
    BY DEF StartedAs, Enters
  <1>2. v = Append(written, e)
    BY DEF Written
  <1>3. e \in FilesWritten
    <2>1. <<>> \in Seq(Texts) /\ <<>> \in Seq(SegmentsWritten)
      OBVIOUS
    <2> QED BY <2>1 DEF FilesWritten
  <1>4. /\ v \in Seq(FilesWritten) /\ Len(v) = Len(written) + 1 /\ Len(written) \in Nat
        /\ v[Len(written) + 1] = e /\ \A i \in 1..Len(written) : v[i] = written[i]
    BY <1>2, <1>3, Appended
  <1>5. Len(written) = Len(p.files) /\ \A i \in 1..Len(p.files) :
            written[i].closed /\ p.files[i] = FileFrom(written[i])
    <2>1. Len(written) = Len(p.files) + 0 /\ Len(p.files) \in Nat
      BY ParserFields DEF FilesFit, FileStates
    <2>2. Len(written) = Len(p.files)
      BY ONLY <2>1
    <2> QED BY <2>2 DEF FilesFit
  <1>6. CurrentFits(q, e)
    BY <1>1 DEF CurrentFits
  <1>7. \A i \in 1..Len(q.files) : v[i].closed /\ q.files[i] = FileFrom(v[i])
    BY <1>1, <1>4, <1>5
  <1>8. CurrentFits(q, v[Len(v)])
    BY <1>4, <1>6
  <1> QED BY <1>1, <1>4, <1>5, <1>7, <1>8 DEF FilesFit, FileStates

LEMMA StartOfGroup ==
    ASSUME NEW p \in Parsers, written \in Seq(FilesWritten), FilesFit(p, written), p.state = "InGroups",
           NEW attr, NEW q, StartedAs(q, p, "group", attr), NEW v, v = Written("group", attr)
    PROVE  v \in Seq(FilesWritten) /\ FilesFit(q, v)
  <1> DEFINE n == Len(written)
             f == written[n]
             e == [f EXCEPT !.groups = Append(@, <<>>)]
  <1>1. /\ q.state = "InGroup" /\ q.files = p.files /\ q.current_file = p.current_file /\ q.text = <<>>
    BY DEF StartedAs, Enters
  <1>2. p.state \in FileStates /\ q.state \in FileStates
    BY <1>1 DEF FileStates
  <1>3. written # <<>> /\ f \in FilesWritten /\ CurrentFits(p, f)
    BY <1>2, LastIsOpen
  <1>4. ElementChanged(v, written, n, e)
    BY <1>3 DEF Written, ElementChanged
  <1>5. /\ e \in FilesWritten /\ e.subject = f.subject /\ e.groups = Append(f.groups, <<>>)
        /\ e.segments = f.segments /\ e.closed = f.closed
    <2>1. f.groups \in Seq(Texts) /\ <<>> \in Texts
      BY <1>3 DEF FilesWritten, Texts
    <2>2. Append(f.groups, <<>>) \in Seq(Texts)
      <3> HIDE DEF f, Texts
      <3> QED BY <2>1
    <2> QED BY <1>3, <2>2 DEF FilesWritten
  <1> HIDE DEF e, f
  <1>6. CurrentFits(q, e)
    BY <1>1, <1>3, <1>5 DEF CurrentFits
  <1> QED BY <1>1, <1>2, <1>4, <1>5, <1>6, LastFileChanged

LEMMA StartOfSegment ==
    ASSUME NEW p \in Parsers, written \in Seq(FilesWritten), FilesFit(p, written), p.state = "InSegments",
           NEW attr \in Numbers, NEW q, StartedAs(q, p, "segment", attr), NEW v, v = Written("segment", attr)
    PROVE  v \in Seq(FilesWritten) /\ FilesFit(q, v)
  <1> DEFINE n == Len(written)
             f == written[n]
             r == [number |-> attr, message_id |-> <<>>]
             e == [f EXCEPT !.segments = Append(@, r)]
  <1>1. /\ q.state = "InSegment" /\ q.files = p.files /\ q.number = attr
        /\ q.current_file = p.current_file /\ q.text = <<>>
    BY DEF StartedAs, Enters
  <1>2. p.state \in FileStates /\ q.state \in FileStates
    BY <1>1 DEF FileStates
  <1>3. written # <<>> /\ f \in FilesWritten /\ CurrentFits(p, f)
    BY <1>2, LastIsOpen
  <1>4. ElementChanged(v, written, n, e)
    BY <1>3 DEF Written, ElementChanged
  <1>5. /\ e \in FilesWritten /\ e.subject = f.subject /\ e.groups = f.groups
        /\ e.segments = Append(f.segments, r) /\ e.closed = f.closed
    <2>1. r \in SegmentsWritten
      BY DEF SegmentsWritten, Texts
    <2>2. f.segments \in Seq(SegmentsWritten)
      BY <1>3 DEF FilesWritten
    <2> HIDE DEF r
    <2>3. Append(f.segments, r) \in Seq(SegmentsWritten)
      BY <2>1, <2>2
    <2> QED BY <1>3, <2>3 DEF FilesWritten
  <1> HIDE DEF e, f
  <1>6. CurrentFits(q, e)
    BY <1>1, <1>3, <1>5 DEF CurrentFits
  <1> QED BY <1>1, <1>2, <1>4, <1>5, <1>6, LastFileChanged

LEMMA StartKeepsFit ==
    ASSUME ReadSoFar, ParserFits, plain, NEW tag \in Tags, NEW attr \in Attributes(tag), Stands(tag),
           StartElement(tag, attr), ~StartFails(parser, tag, attr)
    PROVE  ReadSoFar' /\ ParserFits'
  <1>1. /\ IsSound(parser) /\ parser \in Parsers /\ written \in Seq(FilesWritten)
        /\ FilesFit(parser, written) /\ open_tags \in Seq(Tags) /\ IsPlace(open_tags, parser.state)
        /\ parser.state \in ParserStates
    BY ParserFields DEF ParserFits, ReadSoFar, IsSound
  <1>2. /\ open_tags' = Append(open_tags, tag) /\ plain' = TRUE
        /\ written' = Written(tag, attr) /\ parser' = handle_start(parser, tag, attr)
    BY DEF StartElement
  <1>3. PICK q : q = parser'
    OBVIOUS
  <1>4. PICK v : v = written'
    OBVIOUS
  <1>5. StartedAs(q, parser, tag, attr) /\ IsSound(q)
    BY <1>1, <1>2, <1>3, Started, StartIsSound
  <1>6. StartsAt(parser.state, tag)
    BY <1>1, StandsHere
  <1>7. IsPlace(open_tags', q.state) /\ open_tags' \in Seq(Tags)
    <2>1. q.state = Enters(parser.state, tag)
      BY <1>5 DEF StartedAs
    <2>2. q.state \in ParserStates /\ Passes(parser.state, tag, q.state)
      BY <1>1, <1>6, <2>1, PlaceOfStart
    <2> QED BY <1>1, <1>2, <2>2, PlaceInside
  <1>8. v \in Seq(FilesWritten) /\ FilesFit(q, v)
    <2>1. CASE tag \notin {"file", "group", "segment"}
      <3>1. v = written
        BY <1>2, <1>4, <2>1 DEF Written
      <3>2. /\ q.files = parser.files /\ q.current_file = parser.current_file
            /\ q.state = Enters(parser.state, tag)
        BY <1>5, <2>1 DEF StartedAs
      <3>3. /\ parser.state \notin {"InGroup", "InSegment"} /\ q.state \notin {"InGroup", "InSegment"}
            /\ parser.state \in FileStates <=> q.state \in FileStates
        BY <1>6, <2>1, <3>2 DEF StartsAt, TextStates, FileStates, Enters
      <3> QED BY <1>1, <3>1, <3>2, <3>3, FileStands
    <2>2. CASE tag = "file"
      <3>1. attr \in Subjects /\ parser.state = "InNzb"
        BY <1>6, <2>2 DEF Attributes, StartsAt
      <3>2. q.current_file \in Builders
        <4>1. q.state = "InFile"
          BY <1>5, <2>2, <3>1 DEF StartedAs, Enters
        <4> QED BY <1>5, <4>1 DEF IsSound, FileStates
      <3> QED BY <1>1, <1>2, <1>4, <1>5, <2>2, <3>1, <3>2, StartOfFile
    <2>3. CASE tag = "group"
      <3>1. parser.state = "InGroups"
        BY <1>6, <2>3 DEF StartsAt
      <3> QED BY <1>1, <1>2, <1>4, <1>5, <2>3, <3>1, StartOfGroup
    <2>4. CASE tag = "segment"
      <3>1. parser.state = "InSegments"
        BY <1>6, <2>4 DEF StartsAt
      <3>2. attr \in Numbers
        BY <2>4, <3>1 DEF Attributes, StartFails
      <3> QED BY <1>1, <1>2, <1>4, <1>5, <2>4, <3>1, <3>2, StartOfSegment
    <2> QED BY <2>1, <2>2, <2>3, <2>4
  <1> QED BY <1>2, <1>3, <1>4, <1>5, <1>7, <1>8 DEF ParserFits, ReadSoFar

(* Which element a text is in, and where the parser is.                    *)
LEMMA WhereTextStands ==
    ASSUME NEW state, IsPlace(open_tags, state), open_tags \in Seq(Tags), open_tags # <<>>
    PROVE  /\ Last(open_tags) \in Tags
           /\ Last(open_tags) = "group" <=> state = "InGroup"
           /\ Last(open_tags) = "segment" <=> state = "InSegment"
  <1>1. PICK s \in ParserStates : Passes(s, Last(open_tags), state) /\ Last(open_tags) \in Tags
    BY WhereItIs
  <1> QED BY <1>1 DEF Passes, TextStates, TagOf, ParserStates

(* The last of the texts is longer by a word.                              *)
LEMMA TextOfGroup ==
    ASSUME NEW p \in Parsers, written \in Seq(FilesWritten), FilesFit(p, written),
           p.state = "InGroup", NEW word \in Words, NEW q, TextAdded(q, p, word),
           NEW v, v = TextWritten("group", word)
    PROVE  v \in Seq(FilesWritten) /\ FilesFit(q, v)
  <1> DEFINE n == Len(written)
             f == written[n]
             t == f.groups
             read == p.current_file.groups
             a == p.text
             b == Append(p.text, word)
             u == [i \in DOMAIN t |-> IF i = Len(t) THEN b ELSE t[i]]
             e == [f EXCEPT !.groups = u]
  <1>1. p.state \in FileStates /\ q.state = "InGroup" /\ q.state \in FileStates
    BY DEF FileStates, TextAdded
  <1>2. written # <<>> /\ f \in FilesWritten /\ CurrentFits(p, f) /\ Last(written) = f
    BY <1>1, LastIsOpen
  <1>3. t = Append(read, a) /\ read \in Seq(Texts)
    BY <1>2 DEF CurrentFits, Builders
  <1>4. a \in Texts /\ b \in Texts /\ q.text = b
    BY ParserFields DEF TextAdded
  <1> HIDE DEF read, a, b
  <1>5. t \in Seq(Texts) /\ Len(t) \in Nat /\ t[Len(t)] = a /\ Len(t) \in DOMAIN t
    <2>1. PICK w : w = Append(read, a)
      OBVIOUS
    <2> HIDE DEF t, Texts
    <2>2. w \in Seq(Texts) /\ Len(w) = Len(read) + 1 /\ Len(read) \in Nat /\ w[Len(read) + 1] = a
      BY <1>3, <1>4, <2>1, Appended
    <2> QED BY <1>3, <2>1, <2>2
  <1>6. u = Append(read, b)
    <2> HIDE DEF t, u
    <2>1. PICK x : x = u
      OBVIOUS
    <2>2. ElementChanged(x, t, Len(t), b)
      BY <2>1 DEF u, ElementChanged
    <2>3. read \in Seq(Texts) /\ a \in Texts /\ b \in Texts /\ t = Append(read, a)
      BY <1>3, <1>4
    <2>4. x = Append(read, b)
      BY ONLY <2>2, <2>3, LastReplaced
    <2> QED BY <2>1, <2>4
  <1>7. u \in Seq(Texts)
    <2> HIDE DEF u, Texts
    <2> QED BY <1>3, <1>4, <1>6
  <1>8. ElementChanged(v, written, n, e)
    <2>1. v = [written EXCEPT ![n] = [f EXCEPT !.groups = [t EXCEPT ![Len(t)] = Append(t[Len(t)], word)]]]
      BY <1>2 DEF TextWritten
    <2>2. Append(t[Len(t)], word) = b
      BY <1>5 DEF a, b
    <2>3. [t EXCEPT ![Len(t)] = b] = u
      <3> HIDE DEF t
      <3> QED OBVIOUS
    <2> HIDE DEF t, u, f
    <2>4. v = [written EXCEPT ![n] = e]
      BY <2>1, <2>2, <2>3
    <2> HIDE DEF e
    <2> QED BY <2>4 DEF ElementChanged
  <1>9. q.current_file = p.current_file /\ q.files = p.files
    BY DEF TextAdded
  <1> HIDE DEF u
  <1>10. /\ e \in FilesWritten /\ e.subject = f.subject /\ e.segments = f.segments
         /\ e.groups = u /\ e.closed = f.closed
    BY <1>2, <1>7 DEF FilesWritten
  <1> HIDE DEF e, f
  <1>11. CurrentFits(q, e)
    BY <1>1, <1>2, <1>4, <1>6, <1>9, <1>10 DEF CurrentFits, read
  <1> QED BY <1>1, <1>8, <1>9, <1>10, <1>11, LastFileChanged

LEMMA TextOfSegment ==
    ASSUME NEW p \in Parsers, written \in Seq(FilesWritten), FilesFit(p, written), p.number \in Numbers,
           p.state = "InSegment", NEW word \in Words, NEW q, TextAdded(q, p, word),
           NEW v, v = TextWritten("segment", word)
    PROVE  v \in Seq(FilesWritten) /\ FilesFit(q, v)
  <1> DEFINE n == Len(written)
             f == written[n]
             t == f.segments
             read == p.current_file.segments
             a == [number |-> p.number, message_id |-> p.text]
             b == [number |-> p.number, message_id |-> Append(p.text, word)]
             u == [i \in DOMAIN t |-> IF i = Len(t) THEN b ELSE t[i]]
             e == [f EXCEPT !.segments = u]
  <1>1. p.state \in FileStates /\ q.state = "InSegment" /\ q.state \in FileStates
    BY DEF FileStates, TextAdded
  <1>2. written # <<>> /\ f \in FilesWritten /\ CurrentFits(p, f) /\ Last(written) = f
    BY <1>1, LastIsOpen
  <1>3. t = Append(read, a) /\ read \in Seq(SegmentsWritten)
    <2>1. t = Append(read, a) /\ read \in Seq(SegmentsRead)
      BY <1>2 DEF CurrentFits, Builders
    <2>2. SegmentsRead \subseteq SegmentsWritten
      BY DEF SegmentsRead
    <2> HIDE DEF read, a, t
    <2> QED BY <2>1, <2>2
  <1>4. p.text \in Texts /\ Append(p.text, word) \in Texts /\ q.text = Append(p.text, word)
    BY ParserFields DEF TextAdded
  <1>5. a \in SegmentsWritten /\ b \in SegmentsWritten
    BY <1>4 DEF SegmentsWritten
  <1> HIDE DEF read
  <1>6. t \in Seq(SegmentsWritten) /\ Len(t) \in Nat /\ t[Len(t)] = a /\ Len(t) \in DOMAIN t
    <2>1. PICK w : w = Append(read, a)
      OBVIOUS
    <2> HIDE DEF a, t, SegmentsWritten
    <2>2. w \in Seq(SegmentsWritten) /\ Len(w) = Len(read) + 1 /\ Len(read) \in Nat /\ w[Len(read) + 1] = a
      BY <1>3, <1>5, <2>1, Appended
    <2> QED BY <1>3, <2>1, <2>2
  <1>7. [t[Len(t)] EXCEPT !.message_id = Append(@, word)] = b
    <2>1. PICK x : x = t[Len(t)]
      OBVIOUS
    <2>2. PICK m : m = Append(p.text, word)
      OBVIOUS
    <2>3. x = [number |-> p.number, message_id |-> p.text]
      BY <1>6, <2>1
    <2>4. Append(x.message_id, word) = m
      BY <2>2, <2>3
    <2>5. [x EXCEPT !.message_id = m] = [number |-> p.number, message_id |-> m]
      BY <2>3
    <2> HIDE DEF t
    <2>6. [x EXCEPT !.message_id = Append(@, word)] = [number |-> p.number, message_id |-> m]
      BY <2>4, <2>5
    <2> QED BY <2>1, <2>2, <2>6
  <1>8. u = Append(read, b)
    <2> HIDE DEF a, b, t, u
    <2>1. PICK x : x = u
      OBVIOUS
    <2>2. ElementChanged(x, t, Len(t), b)
      BY <2>1 DEF u, ElementChanged
    <2>3. read \in Seq(SegmentsWritten) /\ a \in SegmentsWritten /\ b \in SegmentsWritten /\ t = Append(read, a)
      BY <1>3, <1>5
    <2>4. x = Append(read, b)
      BY ONLY <2>2, <2>3, LastReplaced
    <2> QED BY <2>1, <2>4
  <1>9. u \in Seq(SegmentsWritten)
    <2> HIDE DEF b, u, SegmentsWritten
    <2> QED BY <1>3, <1>5, <1>8
  <1>10. ElementChanged(v, written, n, e)
    <2>1. v = [written EXCEPT ![n] = [f EXCEPT !.segments =
                  [t EXCEPT ![Len(t)] = [t[Len(t)] EXCEPT !.message_id = Append(@, word)]]]]
      BY <1>2 DEF TextWritten
    <2>2. v = [written EXCEPT ![n] = [f EXCEPT !.segments = [t EXCEPT ![Len(t)] = b]]]
      BY <1>7, <2>1
    <2>3. [t EXCEPT ![Len(t)] = b] = u
      <3> HIDE DEF t, b
      <3> QED OBVIOUS
    <2> HIDE DEF t, b, u, f
    <2>4. v = [written EXCEPT ![n] = e]
      BY <2>2, <2>3
    <2> HIDE DEF e
    <2> QED BY <2>4 DEF ElementChanged
  <1>11. q.number = p.number /\ q.current_file = p.current_file /\ q.files = p.files
    BY DEF TextAdded
  <1>12. b = [number |-> q.number, message_id |-> q.text]
    BY <1>4, <1>11
  <1> HIDE DEF u
  <1>13. /\ e \in FilesWritten /\ e.subject = f.subject /\ e.segments = u
         /\ e.groups = f.groups /\ e.closed = f.closed
    BY <1>2, <1>9 DEF FilesWritten
  <1> HIDE DEF e, f, b
  <1>14. CurrentFits(q, e)
    BY <1>1, <1>2, <1>8, <1>11, <1>12, <1>13 DEF CurrentFits, read
  <1> QED BY <1>1, <1>10, <1>11, <1>13, <1>14, LastFileChanged

(* A text is a word, wherever it stands.                                   *)
LEMMA TextIsWord ==
    ASSUME ReadSoFar, plain => ParserFits, open_tags # <<>>
    PROVE  TextIn(Last(open_tags)) \in Words
  <1> DEFINE tag == Last(open_tags)
  <1>1. /\ open_tags \in Seq(Tags) /\ written \in Seq(FilesWritten) /\ Len(written) \in Nat
        /\ parser \in Parsers
    BY DEF ReadSoFar, IsSound
  <1>2. tag \in Tags
    BY <1>1, LastIn
  <1> HIDE DEF tag
  <1>3. CASE ~plain
    BY <1>1, <1>2, <1>3 DEF TextIn, Words, tag
  <1>4. CASE plain /\ tag \notin {"group", "segment"}
    BY <1>1, <1>2, <1>4 DEF TextIn, Words, tag
  <1>5. CASE plain /\ tag \in {"group", "segment"}
    <2>1. FilesFit(parser, written) /\ IsPlace(open_tags, parser.state)
      BY <1>5 DEF ParserFits
    <2>2. parser.state \in FileStates
      BY <1>1, <1>5, <2>1, WhereTextStands DEF FileStates, tag
    <2>3. Last(written) \in FilesWritten
      BY <1>1, <2>1, <2>2, LastIsOpen
    <2>4. Len(Last(written).segments) \in Nat /\ Len(Last(written).groups) \in Nat
      BY <2>3 DEF FilesWritten
    <2> QED BY <1>1, <1>2, <1>5, <2>4 DEF TextIn, Words, tag
  <1> QED BY <1>3, <1>4, <1>5

LEMMA TextKeepsFit ==
    ASSUME ReadSoFar, ParserFits, plain, WriteText
    PROVE  ReadSoFar' /\ ParserFits'
  <1> DEFINE tag == Last(open_tags)
             word == TextIn(tag)
  <1>1. /\ IsSound(parser) /\ parser \in Parsers /\ written \in Seq(FilesWritten)
        /\ FilesFit(parser, written) /\ open_tags \in Seq(Tags) /\ IsPlace(open_tags, parser.state)
    BY DEF ParserFits, ReadSoFar, IsSound
  <1>2. /\ open_tags # <<>> /\ open_tags' = open_tags /\ plain' = plain
        /\ parser' = [parser EXCEPT !.text = Append(@, word)] /\ written' = TextWritten(tag, word)
    BY DEF WriteText
  <1>3. word \in Words
    BY <1>2, TextIsWord
  <1> HIDE DEF word
  <1>4. PICK q : q = parser'
    OBVIOUS
  <1>5. PICK v : v = written'
    OBVIOUS
  <1>6. TextAdded(q, parser, word) /\ IsSound(q)
    BY <1>1, <1>2, <1>3, <1>4, TextIsAdded, TextIsSound
  <1>7. /\ tag \in Tags /\ (tag = "group" <=> parser.state = "InGroup")
        /\ tag = "segment" <=> parser.state = "InSegment"
    BY <1>1, <1>2, WhereTextStands
  <1> HIDE DEF tag
  <1>8. v \in Seq(FilesWritten) /\ FilesFit(q, v)
    <2>1. CASE tag \notin {"group", "segment"}
      <3>1. v = written
        BY <1>2, <1>5, <2>1 DEF TextWritten
      <3> QED BY <1>1, <1>6, <1>7, <2>1, <3>1, FileStands DEF TextAdded
    <2>2. CASE tag = "group"
      BY <1>1, <1>2, <1>3, <1>5, <1>6, <1>7, <2>2, TextOfGroup
    <2>3. CASE tag = "segment"
      BY <1>1, <1>2, <1>3, <1>5, <1>6, <1>7, <2>3, TextOfSegment DEF IsSound
    <2> QED BY <2>1, <2>2, <2>3
  <1> QED BY <1>1, <1>2, <1>4, <1>5, <1>6, <1>8 DEF ParserFits, ReadSoFar, TextAdded

(* The file that ends is complete, and the parser has it.                  *)
LEMMA EndOfFile ==
    ASSUME NEW p, IsSound(p), p.state = "InFile", written \in Seq(FilesWritten), FilesFit(p, written),
           NEW q, FileEnded(q, p), NEW v, v = [written EXCEPT ![Len(written)].closed = TRUE]
    PROVE  v \in Seq(FilesWritten) /\ FilesFit(q, v)
  <1> DEFINE n == Len(written)
             f == written[n]
             c == p.current_file
             e == [f EXCEPT !.closed = TRUE]
             r == FileFrom(c)
             files == p.files
  <1>1. p.state \in FileStates /\ p \in Parsers
    BY DEF FileStates, IsSound
  <1>2. /\ written # <<>> /\ f \in FilesWritten /\ CurrentFits(p, f) /\ n = Len(files) + 1
        /\ Len(files) \in Nat /\ files \in Seq(FilesRead)
    BY <1>1, LastIsOpen, ParserFields
  <1>3. c.subject = f.subject /\ c.groups = f.groups /\ c.segments = f.segments
    BY <1>2 DEF CurrentFits
  <1>4. ElementChanged(v, written, n, e)
    BY <1>2 DEF ElementChanged
  <1>5. e \in FilesWritten /\ e.closed /\ FileFrom(e) = r
    <2>1. /\ e \in FilesWritten /\ e.closed
          /\ e.subject = f.subject /\ e.groups = f.groups /\ e.segments = f.segments
      BY <1>2 DEF FilesWritten
    <2> HIDE DEF e, f
    <2> QED BY <1>3, <2>1 DEF FileFrom
  <1>6. q.state = "InNzb" /\ r \in FilesRead /\ q.files = Append(files, r)
    BY DEF FileEnded
  <1> HIDE DEF e, r, f
  <1>7. /\ v \in Seq(FilesWritten) /\ Len(v) = n /\ v[n] = e /\ \A i \in 1..(n - 1) : v[i] = written[i]
    <2>1. written \in Seq(FilesWritten) /\ written # <<>> /\ e \in FilesWritten
      BY <1>2, <1>5
    <2> QED BY ONLY <2>1, <1>4, ChangedLast
  <1>8. PICK w : w = Append(files, r)
    OBVIOUS
  <1>9. /\ w \in Seq(FilesRead) /\ Len(w) = Len(files) + 1 /\ w[Len(files) + 1] = r
        /\ \A i \in 1..Len(files) : w[i] = files[i]
        /\ \A i \in 1..Len(w) : i \in 1..Len(files) \/ i = Len(files) + 1
    BY <1>2, <1>6, <1>8, Appended
  <1>10. Len(v) = Len(q.files) + 0
    BY <1>2, <1>6, <1>7, <1>8, <1>9
  <1>11. ASSUME NEW i \in 1..Len(w) PROVE v[i].closed /\ w[i] = FileFrom(v[i])
    <2>1. CASE i \in 1..Len(files)
      <3>1. i \in 1..(n - 1)
        BY <1>2, <2>1
      <3>2. v[i] = written[i] /\ w[i] = files[i]
        BY <1>7, <1>9, <2>1, <3>1
      <3>3. written[i].closed /\ files[i] = FileFrom(written[i])
        BY <2>1 DEF FilesFit
      <3> QED BY <3>2, <3>3
    <2>2. CASE i = Len(files) + 1
      BY <1>2, <1>5, <1>7, <1>9, <2>2
    <2> QED BY <1>9, <2>1, <2>2
  <1>12. q.state \notin FileStates
    BY <1>6 DEF FileStates
  <1> QED BY <1>6, <1>7, <1>8, <1>10, <1>11, <1>12 DEF FilesFit

(* The last group or the last segment is complete.                         *)
LEMMA EndInFile ==
    ASSUME NEW p, IsSound(p), p.state \in {"InGroup", "InSegment"}, written \in Seq(FilesWritten),
           FilesFit(p, written), NEW q,
           p.state = "InGroup" => GroupEnded(q, p), p.state = "InSegment" => SegmentEnded(q, p)
    PROVE  FilesFit(q, written)
  <1>1. p.state \in FileStates /\ p \in Parsers
    BY DEF FileStates, IsSound
  <1>2. PICK f : f = written[Len(written)]
    OBVIOUS
  <1>3. CurrentFits(p, f)
    BY <1>1, <1>2, LastIsOpen
  <1>4. CASE p.state = "InGroup"
    <2>1. GroupEnded(q, p)
      BY <1>4
    <2>2. CurrentFits(q, f) /\ q.state \in FileStates /\ q \in Parsers /\ q.files = p.files
      BY <1>3, <1>4, <2>1 DEF CurrentFits, GroupEnded, FileStates
    <2>3. Len(q.files) \in Nat
      BY <2>2, ParserFields
    <2> QED BY <1>1, <1>2, <2>2, <2>3, OpenFileChanged
  <1>5. CASE p.state = "InSegment"
    <2>1. SegmentEnded(q, p)
      BY <1>5
    <2>2. CurrentFits(q, f) /\ q.state \in FileStates /\ q \in Parsers /\ q.files = p.files
      BY <1>3, <1>5, <2>1 DEF CurrentFits, SegmentEnded, FileStates
    <2>3. Len(q.files) \in Nat
      BY <2>2, ParserFields
    <2> QED BY <1>1, <1>2, <2>2, <2>3, OpenFileChanged
  <1> QED BY <1>4, <1>5

LEMMA EndKeepsFit ==
    ASSUME ReadSoFar, ParserFits, plain, EndElement, ~EndFails(parser, Last(open_tags))
    PROVE  ReadSoFar' /\ ParserFits'
  <1> DEFINE tag == Last(open_tags)
             s == parser.state
  <1>1. /\ IsSound(parser) /\ parser \in Parsers /\ written \in Seq(FilesWritten)
        /\ FilesFit(parser, written) /\ open_tags \in Seq(Tags) /\ IsPlace(open_tags, s)
        /\ s \in ParserStates
    BY ParserFields DEF ParserFits, ReadSoFar, IsSound
  <1>2. /\ open_tags # <<>> /\ open_tags' = Front(open_tags) /\ plain' = plain
        /\ parser' = handle_end(parser, tag)
        /\ written' = IF tag = "file" THEN [written EXCEPT ![Len(written)].closed = TRUE] ELSE written
    BY DEF EndElement
  <1>3. PICK around \in ParserStates :
           /\ tag \in Tags /\ Front(open_tags) \in Seq(Tags)
           /\ IsPlace(Front(open_tags), around) /\ Passes(around, tag, s)
    BY <1>1, <1>2, WhereItIs
  <1>4. ~EndFails(parser, tag)
    OBVIOUS
  <1> HIDE DEF tag
  <1>5. PICK q : q = parser'
    OBVIOUS
  <1>6. PICK v : v = written'
    OBVIOUS
  <1>7. IsSound(q)
    BY <1>1, <1>2, <1>3, <1>4, <1>5, EndIsSound
  <1>8. q.state = around /\ v \in Seq(FilesWritten) /\ FilesFit(q, v)
    <2>1. CASE tag = "other" /\ s = around
      <3>1. q = parser /\ v = written
        BY <1>2, <1>5, <1>6, <2>1 DEF handle_end
      <3> QED BY <1>1, <2>1, <3>1
    <2>2. CASE s \in ParserStates \ {"Initial"} /\ tag = TagOf(s) /\ around = Around(s)
      <3>1. q = handle_end(parser, TagOf(s))
        BY <1>2, <1>5, <2>2
      <3>2. s # "InFile" => v = written
        BY <1>2, <1>6, <2>2 DEF TagOf, ParserStates
      <3>3. CASE s \in {"InNzb", "InHead", "InMeta", "InGroups", "InSegments"}
        <4>1. LeftTo(q, parser, around)
          BY <1>1, <2>2, <3>1, <3>3, PlainEnd
        <4>2. /\ q.state = around /\ q.files = parser.files /\ q.current_file = parser.current_file
          BY <4>1 DEF LeftTo
        <4>3. /\ s \notin {"InGroup", "InSegment"} /\ q.state \notin {"InGroup", "InSegment"}
              /\ s \in FileStates <=> q.state \in FileStates
          BY <2>2, <3>3, <4>2 DEF Around, FileStates
        <4>4. FilesFit(q, written)
          BY <1>1, <4>2, <4>3, FileStands
        <4> QED BY <1>1, <3>2, <3>3, <4>2, <4>4
      <3>4. CASE s = "InGroup"
        <4>1. q = handle_end(parser, "group") /\ around = "InGroups"
          BY <2>2, <3>1, <3>4 DEF TagOf, Around
        <4>2. GroupEnded(q, parser)
          BY <1>1, <3>4, <4>1, GroupEnds
        <4>3. FilesFit(q, written)
          BY <1>1, <3>4, <4>2, EndInFile
        <4> QED BY <1>1, <3>2, <3>4, <4>1, <4>2, <4>3 DEF GroupEnded
      <3>5. CASE s = "InSegment"
        <4>1. q = handle_end(parser, "segment") /\ around = "InSegments" /\ tag = "segment"
          BY <2>2, <3>1, <3>5 DEF TagOf, Around
        <4>2. parser.text # <<>>
          BY <1>4, <3>5, <4>1 DEF EndFails
        <4>3. SegmentEnded(q, parser)
          BY <1>1, <3>5, <4>1, <4>2, SegmentEnds
        <4>4. FilesFit(q, written)
          BY <1>1, <3>5, <4>3, EndInFile
        <4> QED BY <1>1, <3>2, <3>5, <4>1, <4>3, <4>4 DEF SegmentEnded
      <3>6. CASE s = "InFile"
        <4>1. q = handle_end(parser, "file") /\ around = "InNzb" /\ tag = "file"
          BY <2>2, <3>1, <3>6 DEF TagOf, Around
        <4>2. v = [written EXCEPT ![Len(written)].closed = TRUE]
          BY <1>2, <1>6, <4>1
        <4>3. parser.current_file.groups # <<>> /\ parser.current_file.segments # <<>>
          BY <1>4, <3>6, <4>1 DEF EndFails
        <4>4. FileEnded(q, parser)
          BY <1>1, <3>6, <4>1, <4>3, FileEnds
        <4>5. v \in Seq(FilesWritten) /\ FilesFit(q, v)
          BY <1>1, <3>6, <4>2, <4>4, EndOfFile
        <4> QED BY <4>1, <4>4, <4>5 DEF FileEnded
      <3> QED BY <2>2, <3>3, <3>4, <3>5, <3>6 DEF ParserStates
    <2> QED BY <1>3, <2>1, <2>2 DEF Passes
  <1>9. open_tags' \in Seq(Tags) /\ IsPlace(open_tags', q.state)
    BY <1>2, <1>3, <1>8
  <1> QED BY <1>2, <1>5, <1>6, <1>7, <1>8, <1>9 DEF ParserFits, ReadSoFar

-----------------------------------------------------------------------------
(* What is refused: a segment without a number.                            *)
LEMMA RefusedAtStart ==
    ASSUME ReadSoFar, ParserFits, plain, NEW tag, NEW attr, Stands(tag), StartElement(tag, attr),
           StartFails(parser, tag, attr)
    PROVE  NzbInv'
  <1>1. /\ parser \in Parsers /\ written \in Seq(FilesWritten) /\ FilesFit(parser, written)
    BY DEF ParserFits, ReadSoFar, IsSound
  <1>2. parser.state = "InSegments" /\ tag = "segment" /\ attr = Bad
    BY DEF StartFails
  <1>3. verdict' = "InvalidSegment" /\ written' = Written("segment", Bad)
    BY <1>2 DEF StartElement
  <1> DEFINE n == Len(written)
             f == written[n]
             r == [number |-> Bad, message_id |-> <<>>]
             S == SegmentsWritten \union {r}
             e == [f EXCEPT !.segments = Append(@, r)]
  <1>4. parser.state \in FileStates
    BY <1>2 DEF FileStates
  <1>5. written # <<>> /\ n \in Nat \ {0} /\ f \in FilesWritten
    BY <1>1, <1>4, LastIsOpen
  <1>6. PICK v : v = written'
    OBVIOUS
  <1>7. ElementChanged(v, written, n, e)
    BY <1>3, <1>5, <1>6 DEF Written, ElementChanged
  <1>8. PICK t : t = Append(f.segments, r)
    OBVIOUS
  <1>9. e.segments = t
    BY <1>5, <1>8 DEF FilesWritten
  <1>10. f.segments \in Seq(S) /\ r \in S
    <2>1. f.segments \in Seq(SegmentsWritten)
      BY <1>5 DEF FilesWritten
    <2> HIDE DEF r
    <2> QED BY <2>1
  <1>11. Len(t) \in Nat \ {0} /\ t[Len(t)] = r /\ t \in Seq(S)
    <2> HIDE DEF S, r, f
    <2>1. /\ t \in Seq(S) /\ Len(t) = Len(f.segments) + 1 /\ Len(f.segments) \in Nat
          /\ t[Len(f.segments) + 1] = r
      BY <1>8, <1>10, Appended
    <2> QED BY <2>1
  <1> HIDE DEF e, f
  <1>12. Len(v) = n /\ v[n] = e
    <2>1. /\ written \in Seq(FilesWritten \union {e}) /\ written # <<>> /\ e \in FilesWritten \union {e}
      BY <1>1, <1>5
    <2>2. PICK G : G = FilesWritten \union {e}
      OBVIOUS
    <2>3. written \in Seq(G) /\ e \in G
      BY <2>1, <2>2
    <2> QED BY ONLY <2>1, <2>3, <1>7, ChangedLast
  <1>13. Last(v).segments = t
    BY <1>9, <1>12 DEF Last
  <1>14. Len(t) \in DOMAIN t /\ t[Len(t)].number = Bad
    BY <1>11
  <1>15. LacksSomething(Last(v))
    BY <1>13, <1>14 DEF LacksSomething
  <1> QED BY <1>3, <1>6, <1>15 DEF NzbInv, NzbIsReadRight, LacksSomething

(* A segment without an id, or a file that lacks something.                *)
LEMMA RefusedAtEnd ==
    ASSUME ReadSoFar, ParserFits, plain, EndElement, EndFails(parser, Last(open_tags))
    PROVE  NzbInv'
  <1> DEFINE n == Len(written)
             f == written[n]
             c == parser.current_file
  <1>1. /\ parser \in Parsers /\ written \in Seq(FilesWritten) /\ FilesFit(parser, written)
        /\ IsSound(parser)
    BY DEF ParserFits, ReadSoFar, IsSound
  <1>2. verdict' = "Malformed"
    BY DEF EndElement
  <1>3. \/ parser.state = "InSegment" /\ Last(open_tags) = "segment" /\ parser.text = <<>>
        \/ /\ parser.state = "InFile" /\ Last(open_tags) = "file"
           /\ c.groups = <<>> \/ c.segments = <<>>
    BY DEF EndFails
  <1>4. parser.state \in FileStates
    BY <1>3 DEF FileStates
  <1>5. /\ written # <<>> /\ n \in Nat \ {0} /\ f \in FilesWritten /\ CurrentFits(parser, f)
        /\ Last(written) = f
    BY <1>1, <1>4, LastIsOpen
  <1>6. CASE parser.state = "InSegment" /\ Last(open_tags) = "segment" /\ parser.text = <<>>
    <2>1. written' = written
      BY <1>6 DEF EndElement
    <2> DEFINE r == [number |-> parser.number, message_id |-> parser.text]
    <2>2. c \in Builders /\ f.segments = Append(c.segments, r) /\ parser.number \in Numbers
      BY <1>1, <1>5, <1>6 DEF CurrentFits, IsSound
    <2>3. c.segments \in Seq(SegmentsWritten) /\ r \in SegmentsWritten
      <3>1. c.segments \in Seq(SegmentsRead)
        BY <2>2 DEF Builders
      <3>2. SegmentsRead \subseteq SegmentsWritten
        BY DEF SegmentsRead
      <3>3. r \in SegmentsWritten
        BY <1>1, <2>2, ParserFields DEF SegmentsWritten
      <3> HIDE DEF c, r
      <3> QED BY <3>1, <3>2, <3>3
    <2>4. PICK t : t = f.segments
      OBVIOUS
    <2>5. Len(t) \in Nat \ {0} /\ t[Len(t)] = r /\ t \in Seq(SegmentsWritten)
      <3> HIDE DEF r, c, f
      <3>1. /\ t \in Seq(SegmentsWritten) /\ Len(t) = Len(c.segments) + 1 /\ Len(c.segments) \in Nat
            /\ t[Len(c.segments) + 1] = r
        BY <2>2, <2>3, <2>4, Appended
      <3> QED BY <3>1
    <2>6. Len(t) \in DOMAIN t /\ t[Len(t)].message_id = <<>>
      BY <1>6, <2>5
    <2>7. PICK l : l = Last(written')
      OBVIOUS
    <2>8. l.segments = t
      BY <1>5, <2>1, <2>4, <2>7
    <2> HIDE DEF f
    <2>9. LacksSomething(l)
      BY <2>6, <2>8 DEF LacksSomething
    <2> QED BY <1>2, <2>7, <2>9 DEF NzbInv, NzbIsReadRight, LacksSomething
  <1>7. CASE parser.state = "InFile" /\ Last(open_tags) = "file" /\ (c.groups = <<>> \/ c.segments = <<>>)
    <2> DEFINE e == [f EXCEPT !.closed = TRUE]
    <2>1. PICK v : v = written'
      OBVIOUS
    <2>2. ElementChanged(v, written, n, e)
      BY <1>5, <1>7, <2>1 DEF EndElement, ElementChanged
    <2>3. e \in FilesWritten /\ e.groups = f.groups /\ e.segments = f.segments
      BY <1>5 DEF FilesWritten
    <2>4. f.groups = c.groups /\ f.segments = c.segments
      BY <1>5, <1>7 DEF CurrentFits
    <2> HIDE DEF e, f
    <2>5. Len(v) = n /\ v[n] = e
      <3>1. written \in Seq(FilesWritten) /\ written # <<>> /\ e \in FilesWritten
        BY <1>1, <1>5, <2>3
      <3> QED BY ONLY <3>1, <2>2, ChangedLast
    <2>6. Last(v).groups = <<>> \/ Last(v).segments = <<>>
      BY <1>7, <2>3, <2>4, <2>5 DEF Last
    <2>7. LacksSomething(Last(v))
      BY <2>6 DEF LacksSomething
    <2> QED BY <1>2, <2>1, <2>7 DEF NzbInv, NzbIsReadRight, LacksSomething
  <1> QED BY <1>3, <1>6, <1>7

(* The complete files of a document are those the parser has.              *)
LEMMA ClosedAreRead ==
    ASSUME ReadSoFar, ParserFits
    PROVE  PrefixRead /\ Len(Closed) = Len(parser.files)
  <1> DEFINE m == Len(parser.files)
             T == {f \in Range(written) : f.closed}
  <1>1. /\ parser \in Parsers /\ written \in Seq(FilesWritten) /\ FilesFit(parser, written)
        /\ m \in Nat
    BY ParserFields DEF ParserFits, ReadSoFar, IsSound
  <1>2. \A i \in 1..m : written[i].closed /\ parser.files[i] = FileFrom(written[i])
    BY <1>1 DEF FilesFit
  <1>3. /\ m \in 0..Len(written) /\ Len(written) \in Nat
        /\ \A i \in 1..Len(written) : i <= m \/ (i = Len(written) /\ parser.state \in FileStates)
    <2>1. CASE parser.state \in FileStates
      <3>1. Len(written) = m + 1
        BY <1>1, <2>1 DEF FilesFit
      <3> HIDE DEF m
      <3> QED BY <1>1, <2>1, <3>1
    <2>2. CASE parser.state \notin FileStates
      <3>1. Len(written) = m + 0
        BY <1>1, <2>2 DEF FilesFit
      <3>2. PICK k : k = m
        OBVIOUS
      <3>3. k \in Nat /\ Len(written) = k + 0
        BY <1>1, <3>1, <3>2
      <3>4. k \in 0..Len(written) /\ Len(written) \in Nat /\ \A i \in 1..Len(written) : i <= k
        BY ONLY <3>3
      <3> QED BY <3>2, <3>4
    <2> QED BY <2>1, <2>2
  <1>4. parser.state \in FileStates => ~written[Len(written)].closed /\ Len(written) = m + 1
    BY <1>1 DEF FilesFit, CurrentFits
  <1> HIDE DEF m
  <1>5. \A i \in 1..Len(written) : written[i] \in Range(written)
    BY <1>1, AnySequence DEF Range
  <1>6. ASSUME NEW i \in 1..Len(written) PROVE written[i] \in T <=> i <= m
    <2>1. CASE i <= m
      <3>1. i \in 1..m
        BY <1>1, <1>3, <2>1
      <3> QED BY <1>2, <1>5, <2>1, <3>1
    <2>2. CASE ~(i <= m)
      <3>1. i = Len(written) /\ parser.state \in FileStates
        BY <1>3, <2>2
      <3> QED BY <1>4, <2>2, <3>1
    <2> QED BY <2>1, <2>2
  <1>7. PICK s : s = Closed
    OBVIOUS
  <1>8. s = Selected(written, T)
    BY <1>7 DEF Closed
  <1> HIDE DEF T
  <1>9. Len(s) = m /\ \A i \in 1..m : s[i] = written[i]
    BY <1>1, <1>3, <1>6, <1>8, SelectedFirst
  <1>10. s \in Seq(FilesWritten)
    BY <1>1, <1>8, SelectedElements
  <1>11. \A i \in 1..m : parser.files[i] = FileFrom(s[i])
    BY <1>2, <1>9
  <1> QED BY <1>1, <1>7, <1>9, <1>10, <1>11 DEF PrefixRead, m

(* Files that are read stay, whatever is read after them.                  *)
LEMMA PrefixStays ==
    ASSUME PrefixRead, parser \in Parsers, written' = written,
           \/ parser'.files = parser.files
           \/ \E r \in FilesRead : parser'.files = Append(parser.files, r)
    PROVE  PrefixRead'
  <1>1. Closed' = Closed
    BY DEF Closed
  <1>2. parser.files \in Seq(FilesRead) /\ Len(parser.files) \in Nat
    BY ParserFields
  <1>3. PICK c : c = Closed
    OBVIOUS
  <1>4. PICK files : files = parser.files
    OBVIOUS
  <1>5. /\ c \in Seq(FilesWritten) /\ Len(c) \in Nat /\ Len(c) <= Len(files)
        /\ \A i \in 1..Len(c) : files[i] = FileFrom(c[i])
    BY <1>3, <1>4 DEF PrefixRead
  <1>6. PICK more : more = parser'.files
    OBVIOUS
  <1>7. Len(c) <= Len(more) /\ \A i \in 1..Len(c) : more[i] = FileFrom(c[i])
    <2>1. CASE more = files
      BY <1>5, <2>1
    <2>2. CASE \E r \in FilesRead : more = Append(files, r)
      <3>1. PICK r \in FilesRead : more = Append(files, r)
        BY <2>2
      <3>2. Len(more) = Len(files) + 1 /\ Len(files) \in Nat /\ \A i \in 1..Len(files) : more[i] = files[i]
        BY <1>2, <1>4, <3>1, Appended
      <3> QED BY <1>5, <3>2
    <2> QED BY <1>4, <1>6, <2>1, <2>2
  <1> QED BY <1>1, <1>3, <1>5, <1>6, <1>7 DEF PrefixRead

(* The files with their segments sorted.                                   *)
SortedFrom(g, f) ==
    /\ g \in FilesRead /\ g.filename = f.filename /\ g.par_status = f.par_status /\ g.groups = f.groups
    /\ Range(g.segments) = Range(f.segments) /\ Len(g.segments) = Len(f.segments)
    /\ ByNumber(g.segments)

LEMMA SegmentsSorted ==
    ASSUME NEW f \in FilesRead, NEW g, g = [f EXCEPT !.segments = BySegmentNumber(@)]
    PROVE  SortedFrom(g, f)
  <1>1. /\ f.filename \in Subjects /\ f.par_status \in Statuses /\ f.groups \in GroupsOfFiles
        /\ f.segments \in Seq(SegmentsRead) /\ f.segments # <<>>
    BY DEF FilesRead, FilesNamed, SegmentsOfFiles
  <1>2. \A s \in SegmentsRead : s.number \in Nat
    BY NzbAssumption DEF SegmentsRead, SegmentsWritten
  <1>3. PICK w : w = f.segments
    OBVIOUS
  <1>4. PICK t : t = BySegmentNumber(w)
    OBVIOUS
  <1>5. w \in Seq(SegmentsRead) /\ w # <<>>
    BY <1>1, <1>3
  <1>6. t \in Seq(SegmentsRead) /\ Len(t) = Len(w) /\ Range(t) = Range(w) /\ ByNumber(t)
    BY <1>2, <1>4, <1>5, SortedByNumber
  <1>7. t # <<>>
    <2>1. Len(w) # 0
      BY <1>5, EmptyOrNot
    <2> QED BY <1>6, <2>1
  <1>8. t \in SegmentsOfFiles
    BY <1>6, <1>7 DEF SegmentsOfFiles
  <1>9. g = [f EXCEPT !.segments = t]
    BY <1>3, <1>4
  <1>10. g.filename = f.filename /\ g.par_status = f.par_status /\ g.groups = f.groups /\ g.segments = t
    BY <1>9 DEF FilesRead, FilesNamed
  <1>11. g \in FilesRead
    <2> HIDE DEF SegmentsOfFiles, GroupsOfFiles, Statuses
    <2> QED BY <1>8, <1>9 DEF FilesRead, FilesNamed
  <1> QED BY <1>3, <1>6, <1>10, <1>11 DEF SortedFrom

(* A file with groups, and with segments that have ids and are in order.   *)
LEMMA WholeFile ==
    ASSUME NEW file, file.groups \in GroupsOfFiles, file.segments \in SegmentsOfFiles,
           ByNumber(file.segments)
    PROVE  IsWhole(file)
  <1>1. PICK t : t = file.segments
    OBVIOUS
  <1>2. t \in Seq(SegmentsRead) /\ t # <<>> /\ ByNumber(t)
    BY <1>1 DEF SegmentsOfFiles
  <1>3. DOMAIN t = 1..Len(t) /\ \A i \in 1..Len(t) : t[i] \in SegmentsRead
    BY <1>2
  <1>4. /\ \A i \in DOMAIN t : t[i].message_id # <<>>
        /\ \A i, j \in DOMAIN t : i < j => t[i].number <= t[j].number
    BY <1>2, <1>3 DEF SegmentsRead, ByNumber
  <1> QED BY <1>1, <1>2, <1>4 DEF IsWhole, GroupsOfFiles

(* What is handed over at the end of the data.                             *)
LEMMA ReadAtTheEnd ==
    ASSUME ReadSoFar, PrefixRead, plain => Len(Closed) = Len(parser.files), EndOfData, verdict' = "Ok"
    PROVE  NzbInv'
  <1>1. PICK files : files = parser.files
    OBVIOUS
  <1>2. PICK m : m = Len(files)
    OBVIOUS
  <1>3. files \in Seq(FilesRead) /\ m \in Nat /\ DOMAIN files = 1..m /\ \A i \in 1..m : files[i] \in FilesRead
    <2>1. files \in Seq(FilesRead)
      BY <1>1, ParserFields DEF ReadSoFar, IsSound
    <2> QED BY <1>2, <2>1
  <1>4. nzb_files' = build_nzb_info(parser) /\ written' = written /\ plain' = plain
    BY DEF EndOfData
  <1>5. PICK c : c = Closed
    OBVIOUS
  <1>6. Closed' = c
    BY <1>4, <1>5 DEF Closed
  <1>7. /\ c \in Seq(FilesWritten) /\ Len(c) <= m /\ (plain => Len(c) = m)
        /\ \A i \in 1..Len(c) : files[i] = FileFrom(c[i])
    BY <1>1, <1>2, <1>5 DEF PrefixRead
  <1>8. PICK s : s = [i \in DOMAIN files |-> [files[i] EXCEPT !.segments = BySegmentNumber(@)]]
    OBVIOUS
  <1>9. PICK u : u = nzb_files'
    OBVIOUS
  <1>10. u = ensure_unique_filenames(s)
    BY <1>1, <1>4, <1>8, <1>9 DEF build_nzb_info
  <1>11. ASSUME NEW i \in 1..m PROVE SortedFrom(s[i], files[i])
    <2>1. PICK f : f = files[i]
      OBVIOUS
    <2>2. PICK g : g = s[i]
      OBVIOUS
    <2>3. f \in FilesRead /\ g = [f EXCEPT !.segments = BySegmentNumber(@)]
      BY <1>3, <1>8, <2>1, <2>2
    <2>4. SortedFrom(g, f)
      BY ONLY <2>3, SegmentsSorted
    <2> QED BY <2>1, <2>2, <2>4
  <1>12. s \in Seq(FilesRead) /\ Len(s) = m
    <2>1. s = [i \in 1..m |-> s[i]]
      BY <1>3, <1>8
    <2>2. s \in [1..m -> FilesRead]
      BY <1>11, <2>1 DEF SortedFrom
    <2> QED BY <1>3, <2>2
  <1>13. /\ Len(u) = m /\ u \in Seq(FilesNamed(MadeNames, Statuses, GroupsOfFiles, SegmentsOfFiles))
         /\ \A i \in 1..m : NamedAs(u[i], s[i], NamesUpto(u, i - 1))
         /\ \A i, j \in 1..m : u[i].filename = u[j].filename => i = j \/ u[i].filename = NoName
    <2>1. PICK P : P = Statuses
      OBVIOUS
    <2>2. PICK G : G = GroupsOfFiles
      OBVIOUS
    <2>3. PICK S : S = SegmentsOfFiles
      OBVIOUS
    <2>4. s \in Seq(FilesNamed(Subjects, P, G, S))
      BY <1>12, <2>1, <2>2, <2>3 DEF FilesRead
    <2>5. /\ u \in Seq(FilesNamed(MadeNames, P, G, S)) /\ Len(u) = Len(s)
          /\ \A i \in 1..Len(u) : NamedAs(u[i], s[i], NamesUpto(u, i - 1))
          /\ \A i, j \in 1..Len(u) : u[i].filename = u[j].filename => i = j \/ u[i].filename = NoName
      BY <1>10, <2>4, NamesAreUnique
    <2> QED BY <1>12, <2>1, <2>2, <2>3, <2>5
  <1>14. DOMAIN u = 1..m /\ DOMAIN c = 1..Len(c) /\ Len(c) \in Nat
    BY <1>7, <1>13, AnySequence
  <1>15. ASSUME NEW i \in 1..m
         PROVE  /\ u[i].filename = NoName <=> files[i].filename = NoName
                /\ u[i].filename = files[i].filename \/ \E j \in 1..(i - 1) : u[j].filename = files[i].filename
                /\ u[i].par_status = files[i].par_status /\ u[i].groups = files[i].groups
                /\ Range(u[i].segments) = Range(files[i].segments)
                /\ Len(u[i].segments) = Len(files[i].segments)
                /\ IsWhole(u[i])
    <2>1. PICK v : v = u[i]
      OBVIOUS
    <2>2. PICK g : g = s[i]
      OBVIOUS
    <2>3. PICK f : f = files[i]
      OBVIOUS
    <2>4. SortedFrom(g, f)
      BY <1>11, <2>2, <2>3
    <2>5. /\ v.filename = NoName <=> g.filename = NoName
          /\ v.filename = g.filename \/ g.filename \in NamesUpto(u, i - 1)
          /\ v.par_status = g.par_status /\ v.groups = g.groups /\ v.segments = g.segments
      BY <1>13, <2>1, <2>2 DEF NamedAs
    <2>6. g.filename \in NamesUpto(u, i - 1) => \E j \in 1..(i - 1) : u[j].filename = g.filename
      BY DEF NamesUpto
    <2>7. v.groups \in GroupsOfFiles /\ v.segments \in SegmentsOfFiles /\ ByNumber(v.segments)
      BY <2>4, <2>5 DEF SortedFrom, FilesRead, FilesNamed
    <2>8. IsWhole(v)
      BY <2>7, WholeFile
    <2>9. /\ g.filename = f.filename /\ g.par_status = f.par_status /\ g.groups = f.groups
          /\ Range(g.segments) = Range(f.segments) /\ Len(g.segments) = Len(f.segments)
      BY <2>4 DEF SortedFrom
    <2> QED BY <2>1, <2>3, <2>5, <2>6, <2>8, <2>9
  <1>16. ASSUME NEW i \in 1..Len(c)
         PROVE  /\ ReadAs(u[i], c[i])
                /\ c[i].subject = NoName <=> u[i].filename = NoName
                /\ u[i].filename = c[i].subject \/ \E j \in 1..(i - 1) : u[j].filename = c[i].subject
    <2>1. i \in 1..m
      <3>1. PICK n : n = Len(c)
        OBVIOUS
      <3>2. n \in Nat /\ m \in Nat /\ n <= m /\ i \in 1..n
        BY <1>3, <1>7, <1>14, <3>1
      <3> QED BY ONLY <3>2
    <2>2. PICK x : x = c[i]
      OBVIOUS
    <2>3. PICK f : f = files[i]
      OBVIOUS
    <2>4. /\ f.filename = x.subject /\ f.par_status = ParOf[x.subject] /\ f.groups = x.groups
          /\ f.segments = x.segments
      <3>1. f = FileFrom(x)
        BY <1>7, <2>2, <2>3
      <3> QED BY <3>1 DEF FileFrom
    <2>5. ReadAs(u[i], x)
      BY <1>15, <2>1, <2>3, <2>4 DEF ReadAs
    <2> QED BY <1>15, <2>1, <2>2, <2>3, <2>4, <2>5
  <1> HIDE DEF Closed
  <1>17. /\ Len(u) >= Len(c) /\ (plain => Len(u) = Len(c))
         /\ \A i \in DOMAIN c :
               /\ ReadAs(u[i], c[i])
               /\ c[i].subject = NoName <=> u[i].filename = NoName
               /\ (\A j \in 1..(i - 1) : c[j].subject # c[i].subject) =>
                     u[i].filename = c[i].subject \/ \E j \in 1..(i - 1) : u[j].filename = c[i].subject
         /\ \A i \in DOMAIN u :
               /\ IsWhole(u[i])
               /\ \A j \in DOMAIN u : u[j].filename = u[i].filename => i = j \/ u[i].filename = NoName
    <2>1. Len(u) >= Len(c) /\ (plain => Len(u) = Len(c))
      BY <1>3, <1>7, <1>13, <1>14
    <2> QED BY <1>13, <1>14, <1>15, <1>16, <2>1
  <1> QED BY <1>4, <1>6, <1>9, <1>17 DEF NzbInv, NzbIsReadRight, ReadAs, NamedFor, IsWhole

-----------------------------------------------------------------------------
(* The events, one after the other.                                        *)
LEMMA ReadStill ==
    ASSUME verdict' = "Parsing", ReadSoFar', (plain' => ParserFits'), (~plain' => PrefixRead')
    PROVE  NzbInv'
  BY DEF NzbInv, NzbIsReadRight

(* An element that is out of place, or stands behind one that was.         *)
LEMMA NotPlain ==
    ASSUME NzbInv, verdict = "Parsing", verdict' = "Parsing", ~plain', plain' \in BOOLEAN,
           written' = written, IsSound(parser)', (open_tags \in Seq(Tags))',
           \/ parser'.files = parser.files
           \/ \E r \in FilesRead : parser'.files = Append(parser.files, r)
    PROVE  NzbInv'
  <1>1. ReadSoFar /\ PrefixRead
    BY ClosedAreRead DEF NzbInv
  <1>2. PrefixRead'
    BY <1>1, PrefixStays DEF ReadSoFar, IsSound
  <1>3. ReadSoFar'
    BY <1>1 DEF ReadSoFar
  <1> QED BY <1>2, <1>3, ReadStill

LEMMA NzbStep == NzbInv /\ [NzbNext]_nzbVars => NzbInv'
  <1> SUFFICES ASSUME NzbInv, [NzbNext]_nzbVars PROVE NzbInv'
    OBVIOUS
  <1>1. ASSUME NEW tag \in Tags, NEW attr \in Attributes(tag), StartElement(tag, attr) PROVE NzbInv'
    <2>1. verdict = "Parsing" /\ ReadSoFar /\ (plain => ParserFits) /\ IsSound(parser)
      BY <1>1 DEF NzbInv, StartElement, ReadSoFar
    <2>2. plain' = (plain /\ Stands(tag)) /\ (plain' \in BOOLEAN)
      BY <1>1, <2>1 DEF StartElement, ReadSoFar
    <2>3. CASE StartFails(parser, tag, attr) /\ plain'
      BY <1>1, <2>1, <2>2, <2>3, RefusedAtStart
    <2>4. CASE StartFails(parser, tag, attr) /\ ~plain'
      <3>1. verdict' = "InvalidSegment"
        BY <1>1, <2>4 DEF StartElement
      <3> QED BY <2>4, <3>1 DEF NzbInv, NzbIsReadRight
    <2>5. CASE ~StartFails(parser, tag, attr) /\ plain'
      <3>1. ReadSoFar' /\ ParserFits' /\ verdict' = "Parsing"
        BY <1>1, <2>1, <2>2, <2>5, StartKeepsFit DEF StartElement
      <3> QED BY <2>5, <3>1, ReadStill
    <2>6. CASE ~StartFails(parser, tag, attr) /\ ~plain'
      <3>1. /\ verdict' = "Parsing" /\ written' = written /\ open_tags' = Append(open_tags, tag)
            /\ parser' = handle_start(parser, tag, attr)
        BY <1>1, <2>1, <2>6 DEF StartElement
      <3>2. IsSound(parser') /\ parser'.files = parser.files
        BY <2>1, <2>6, <3>1, StartIsSound
      <3>3. (open_tags \in Seq(Tags))'
        BY <2>1, <3>1 DEF ReadSoFar
      <3>4. IsSound(parser)'
        BY <3>2
      <3> QED BY <2>1, <2>2, <2>6, <3>1, <3>2, <3>3, <3>4, NotPlain
    <2> QED BY <2>3, <2>4, <2>5, <2>6
  <1>2. ASSUME NEW tag \in Tags, EmptyElement(tag) PROVE NzbInv'
    <2>1. /\ verdict = "Parsing" /\ verdict' = "Parsing" /\ parser' = parser /\ open_tags' = open_tags
          /\ written' = written /\ plain' = (plain /\ tag = "other") /\ ReadSoFar
      BY <1>2 DEF NzbInv, EmptyElement
    <2>2. ReadSoFar'
      BY <2>1 DEF ReadSoFar
    <2>3. CASE plain'
      <3>1. ParserFits
        BY <2>1, <2>3 DEF NzbInv
      <3>2. ParserFits'
        BY <2>1, <3>1 DEF ParserFits
      <3> QED BY <2>1, <2>2, <2>3, <3>2, ReadStill
    <2>4. CASE ~plain'
      BY <2>1, <2>2, <2>4, NotPlain DEF ReadSoFar
    <2> QED BY <2>3, <2>4
  <1>3. CASE WriteText
    <2>1. /\ verdict = "Parsing" /\ verdict' = "Parsing" /\ plain' = plain /\ open_tags' = open_tags
          /\ open_tags # <<>> /\ ReadSoFar /\ (plain => ParserFits) /\ IsSound(parser)
      BY <1>3 DEF NzbInv, WriteText, ReadSoFar
    <2>2. CASE plain
      <3>1. ReadSoFar' /\ ParserFits'
        BY <1>3, <2>1, <2>2, TextKeepsFit
      <3> QED BY <2>1, <2>2, <3>1, ReadStill
    <2>3. CASE ~plain
      <3>1. PICK word : word = TextIn(Last(open_tags))
        OBVIOUS
      <3>2. word \in Words
        BY <2>1, <3>1, TextIsWord
      <3>3. parser' = [parser EXCEPT !.text = Append(@, word)] /\ written' = written
        BY <1>3, <2>3, <3>1 DEF WriteText
      <3>4. IsSound(parser') /\ parser'.files = parser.files
        BY <2>1, <3>2, <3>3, TextIsSound
      <3>5. IsSound(parser)' /\ (open_tags \in Seq(Tags))' /\ plain' \in BOOLEAN /\ ~plain'
        BY <2>1, <2>3, <3>4 DEF ReadSoFar
      <3> QED BY <2>1, <3>3, <3>4, <3>5, NotPlain
    <2> QED BY <2>2, <2>3
  <1>4. CASE EndElement
    <2>1. /\ verdict = "Parsing" /\ plain' = plain /\ open_tags' = Front(open_tags)
          /\ open_tags # <<>> /\ ReadSoFar /\ (plain => ParserFits) /\ IsSound(parser)
      BY <1>4 DEF NzbInv, EndElement, ReadSoFar
    <2>2. CASE EndFails(parser, Last(open_tags)) /\ plain
      BY <1>4, <2>1, <2>2, RefusedAtEnd
    <2>3. CASE EndFails(parser, Last(open_tags)) /\ ~plain
      <3>1. verdict' = "Malformed"
        BY <1>4, <2>3 DEF EndElement
      <3> QED BY <2>1, <2>3, <3>1 DEF NzbInv, NzbIsReadRight
    <2>4. CASE ~EndFails(parser, Last(open_tags)) /\ plain
      <3>1. ReadSoFar' /\ ParserFits' /\ verdict' = "Parsing"
        BY <1>4, <2>1, <2>4, EndKeepsFit DEF EndElement
      <3> QED BY <2>1, <2>4, <3>1, ReadStill
    <2>5. CASE ~EndFails(parser, Last(open_tags)) /\ ~plain
      <3>1. Last(open_tags) \in Tags /\ Front(open_tags) \in Seq(Tags)
        BY <2>1, LastIn DEF ReadSoFar
      <3>2. /\ verdict' = "Parsing" /\ written' = written
            /\ parser' = handle_end(parser, Last(open_tags))
        BY <1>4, <2>1, <2>5 DEF EndElement
      <3>3. /\ IsSound(parser')
            /\ \/ parser'.files = parser.files
               \/ \E r \in FilesRead : parser'.files = Append(parser.files, r)
        BY <2>1, <2>5, <3>1, <3>2, EndIsSound
      <3>4. IsSound(parser)' /\ (open_tags \in Seq(Tags))' /\ plain' \in BOOLEAN /\ ~plain'
        BY <2>1, <2>5, <3>1, <3>3 DEF ReadSoFar
      <3> QED BY <2>1, <3>2, <3>3, <3>4, NotPlain
    <2> QED BY <2>2, <2>3, <2>4, <2>5
  <1>5. CASE EndOfData
    <2>1. verdict = "Parsing" /\ verdict' \in {"Ok", "MalformedNzb", "NoFiles"}
      BY <1>5 DEF EndOfData
    <2>2. ReadSoFar /\ PrefixRead /\ (plain => Len(Closed) = Len(parser.files))
      BY <2>1, ClosedAreRead DEF NzbInv
    <2>3. CASE verdict' = "Ok"
      BY <1>5, <2>2, <2>3, ReadAtTheEnd
    <2>4. CASE verdict' \in {"MalformedNzb", "NoFiles"}
      BY <2>4 DEF NzbInv, NzbIsReadRight
    <2> QED BY <2>1, <2>3, <2>4
  <1>6. CASE UNCHANGED nzbVars
    <2>1. /\ parser' = parser /\ verdict' = verdict /\ nzb_files' = nzb_files /\ open_tags' = open_tags
          /\ plain' = plain /\ written' = written
      BY <1>6 DEF nzbVars
    <2>2. Closed' = Closed
      BY <2>1 DEF Closed
    <2>3. (ReadSoFar => ReadSoFar') /\ (ParserFits => ParserFits') /\ (PrefixRead => PrefixRead')
      BY <2>1, <2>2 DEF ReadSoFar, ParserFits, PrefixRead
    <2>4. NzbIsReadRight'
      BY <2>1, <2>2 DEF NzbInv, NzbIsReadRight, ReadAs, NamedFor, IsWhole, LacksSomething
    <2> QED BY <2>1, <2>3, <2>4 DEF NzbInv
  <1> QED BY <1>1, <1>2, <1>3, <1>4, <1>5, <1>6 DEF NzbNext

(* Event by event, with any elements in any place: the parser is of one    *)
(* piece; as long as every element stands where the format has it, it is   *)
(* where the document is, has its complete files, and of the open one what *)
(* has been written of it; and after an element out of place it still has  *)
(* the files that were complete before.  For any subjects, numbers and     *)
(* length of the document.                                                 *)
THEOREM NzbInvCorrect == NzbSpec => []NzbInv
  BY NzbInitially, NzbStep, PTL DEF NzbSpec

(* What parse_nzb hands over: of a document in which every element stands  *)
(* where the format has it, the complete files in order, each with its own *)
(* groups and all of its segments by number, under a name no other file    *)
(* has; and such a document is refused only if a file lacks something.  Of *)
(* any other document, the files that were complete before the first       *)
(* element out of place, as they are; and no file without groups, without  *)
(* segments, with a segment without an id, or with the name of another.    *)
THEOREM DocumentsAreReadRight == NzbSpec => []NzbIsReadRight
  <1>1. NzbInv => NzbIsReadRight
    BY DEF NzbInv
  <1> QED BY <1>1, NzbInvCorrect, PTL
=============================================================================
