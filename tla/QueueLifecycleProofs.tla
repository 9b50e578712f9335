------------------------ MODULE QueueLifecycleProofs ------------------------
(* What becomes of an NZB: the coordinator implements DownloadLifecycle,   *)
(* for every value of the constants, and what that argument shows besides. *)
EXTENDS QueueLifecycle, QueueCoordinatorProofs

(* What the worker or the channels hold, after a shutdown too.             *)
Transit == Range(assignments) \union fetching \union Reported

(* A file counts as completed exactly when its articles have outcomes, and *)
(* what is to be post-processed has them all.  The health check breaks     *)
(* both: it sends an NZB to the history as it is.                          *)
Consistent(z) == \A f \in Files : z.completed[f] <=> AllTerminal(z, f)
Done(z) == \A f \in Files : z.completed[f] /\ AllTerminal(z, f)

QueuedOk(z) == HealthFailed(z) \/ (IF z.post THEN Done(z) ELSE Consistent(z))
HistoryOk(z) == ~z.post /\ (HealthFailed(z) \/ Done(z))

RecordsInv ==
    /\ \A n \in Range(queue) : QueuedOk(nzb[n])
    /\ \A n \in history : HistoryOk(nzb[n])

(* A result that can still change an NZB does not find it being            *)
(* post-processed.                                                         *)
TransitInv ==
    \A a \in Transit :
       /\ a[1] < next_nzb_id
       /\ InQueue(a[1]) /\ nzb[a[1]].segs[<<a[2], a[3]>>] \notin Terminal
             => ~nzb[a[1]].post

(* An NZB the pipeline was told of is in post-processing for good.         *)
NoticesInv ==
    /\ PostProcessedOnce
    /\ \A n \in Range(Notices) : n < next_nzb_id /\ (InQueue(n) => nzb[n].post)

(* An article marked Running is on its way, unless its NZB was given up    *)
(* and came back.                                                          *)
TrackedInv ==
    ~shutdown =>
       \A n \in Range(queue) : ~nzb[n].post /\ ~HealthFailed(nzb[n]) =>
          \A x \in Files \X Segments :
             nzb[n].segs[x] = "Running" => active[<<n, x[1], x[2]>>] # NoServer

(* Post-processing starts once, after the last outcome, because an NZB     *)
(* that the health check gave up is given up again by its next result:     *)
(* its lost articles are never forgotten without the others being so.      *)
StayInv == IInv /\ RecordsInv /\ TransitInv /\ NoticesInv /\ TrackedInv
-----------------------------------------------------------------------------
(* The verdict of the health check stands: more losses do not improve it.  *)

LEMMA DivMonotone ==
    ASSUME NEW a \in Int, NEW b \in Int, a <= b, NEW d \in Nat \ {0}
    PROVE  a \div d <= b \div d
  <1>1. /\ a \div d \in Int /\ a % d \in 0..(d - 1) /\ a = d * (a \div d) + (a % d)
        /\ b \div d \in Int /\ b % d \in 0..(d - 1) /\ b = d * (b \div d) + (b % d)
    OBVIOUS
  <1> DEFINE q == a \div d
             r == b \div d
  <1>2. q \in Int /\ r \in Int
    BY <1>1
  <1>3. d * q <= a /\ b < d * r + d
    BY <1>1
  <1> HIDE DEF q, r
  <1>4. d * q < d * r + d
    BY <1>2, <1>3
  <1>5. d * (q - r - 1) < 0
    BY <1>2, <1>4
  <1>6. CASE q > r
    <2>1. q - r - 1 \in Nat
      BY <1>2, <1>6
    <2>2. \A m \in Nat : d * m >= 0
      OBVIOUS
    <2> QED BY <1>5, <2>1, <2>2
  <1>7. CASE q <= r
    BY <1>7 DEF q, r
  <1> QED BY <1>2, <1>6, <1>7

LEMMA TimesMonotone ==
    ASSUME NEW a \in Int, NEW b \in Int, a <= b, NEW c \in Nat
    PROVE  c * a <= c * b
  <1>1. b - a \in Nat
    OBVIOUS
  <1>2. c * (b - a) >= 0
    BY <1>1
  <1> QED BY <1>2

LEMMA HealthFalls ==
    ASSUME NEW t \in Nat, NEW f \in Int, NEW g \in Int, f <= g
    PROVE  /\ CalculateHealth(t, g) <= CalculateHealth(t, f)
           /\ CalculateHealth(t, f) \in Int
           /\ CalculateHealth(t, 0) = 1000
  <1>1. Truncated(t - g) <= Truncated(t - f) /\ Truncated(t - g) \in Int /\ Truncated(t - f) \in Int
    BY DEF Truncated
  <1>2. 1000 * Truncated(t - g) <= 1000 * Truncated(t - f)
    BY <1>1
  <1>3. t # 0 => (1000 * Truncated(t - g)) \div t <= (1000 * Truncated(t - f)) \div t
    BY <1>1, <1>2, DivMonotone
  <1>4. t # 0 => (1000 * Truncated(t - 0)) \div t = 1000
    <2> SUFFICES ASSUME t # 0 PROVE (1000 * t) \div t = 1000
      BY DEF Truncated
    <2> QED OBVIOUS
  <1> QED BY <1>1, <1>3, <1>4 DEF CalculateHealth

LEMMA CriticalHealthRises ==
    ASSUME NEW t \in Nat, NEW s \in Nat, NEW p \in Int, NEW q \in Int, p <= q
    PROVE  /\ CalculateCriticalHealth(t, s, p) <= CalculateCriticalHealth(t, s, q)
           /\ CalculateCriticalHealth(t, s, p) <= 1000
           /\ CalculateCriticalHealth(t, s, p) \in Int
  <1>1. CASE t = 0 \/ s = 0
    BY <1>1 DEF CalculateCriticalHealth
  <1>2. CASE t # 0 /\ s # 0
    <2> DEFINE r(p_) == ((t \div RepairDivisor) * Truncated(s - p_)) \div s
    <2>1. t \div RepairDivisor \in Nat
      BY CoordinatorAssumption
    <2>2. /\ Truncated(s - p) \in Nat /\ Truncated(s - q) \in Nat
          /\ Truncated(s - q) <= Truncated(s - p)
      BY DEF Truncated
    <2>3. /\ (t \div RepairDivisor) * Truncated(s - q) <= (t \div RepairDivisor) * Truncated(s - p)
          /\ (t \div RepairDivisor) * Truncated(s - q) \in Nat
          /\ (t \div RepairDivisor) * Truncated(s - p) \in Nat
      <3> DEFINE d == t \div RepairDivisor
                 u == Truncated(s - q)
                 v == Truncated(s - p)
      <3> HIDE DEF d, u, v
      <3>1. d \in Nat /\ u \in Nat /\ v \in Nat /\ u <= v
        BY <2>1, <2>2 DEF d, u, v
      <3>2. d * u <= d * v
        BY <3>1, TimesMonotone
      <3>3. d * u \in Nat /\ d * v \in Nat
        BY <3>1
      <3> QED BY <3>2, <3>3 DEF d, u, v
    <2>4. r(q) <= r(p) /\ r(q) \in Int /\ r(p) \in Int
      BY <1>2, <2>3, DivMonotone
    <2>5. r(p) >= 0
      BY <1>2, <2>3
    <2> HIDE DEF r
    <2>6. /\ Truncated(t - r(p)) <= Truncated(t - r(q)) /\ Truncated(t - r(p)) <= t
          /\ Truncated(t - r(p)) \in Int /\ Truncated(t - r(q)) \in Int
      BY <2>4, <2>5 DEF Truncated
    <2>7. /\ 1000 * Truncated(t - r(p)) <= 1000 * Truncated(t - r(q))
          /\ 1000 * Truncated(t - r(p)) <= 1000 * t
      BY <2>6
    <2>8. /\ (1000 * Truncated(t - r(p))) \div t <= (1000 * Truncated(t - r(q))) \div t
          /\ (1000 * Truncated(t - r(p))) \div t <= (1000 * t) \div t
          /\ (1000 * Truncated(t - r(p))) \div t \in Int
      BY <1>2, <2>6, <2>7, DivMonotone
    <2>9. (1000 * t) \div t = 1000
      BY <1>2
    <2>10. /\ CalculateCriticalHealth(t, s, p) = (1000 * Truncated(t - r(p))) \div t
           /\ CalculateCriticalHealth(t, s, q) = (1000 * Truncated(t - r(q))) \div t
      BY <1>2 DEF CalculateCriticalHealth, r
    <2> QED BY <2>8, <2>9, <2>10
  <1> QED BY <1>1, <1>2

LEMMA SizesAreNat == ParSize \in Nat /\ DataTotal \in Nat
  <1>1. IsFiniteSet(Files) /\ ParFiles \subseteq Files
    BY CoordinatorAssumption, FS_Interval DEF Files
  <1>2. IsFiniteSet(ParFiles) /\ IsFiniteSet(Files \ ParFiles)
    BY <1>1, FS_Subset
  <1>3. Cardinality(ParFiles) \in Nat /\ Cardinality(Files \ ParFiles) \in Nat
    BY <1>2, FS_CardinalityType
  <1>4. \A m \in Nat : NumSegments * m \in Nat
    BY CoordinatorAssumption
  <1> QED BY <1>3, <1>4 DEF ParSize, DataTotal

(* An NZB that has lost at least as much data, and as many PAR2 articles,  *)
(* as one the health check gives up is given up too.                       *)
LEMMA VerdictStands ==
    ASSUME NEW z \in NzbRecord, NEW y \in NzbRecord, HealthFailed(z),
           z.failed - z.par_failed <= y.failed - y.par_failed,
           z.par_failed <= y.par_failed
    PROVE  HealthFailed(y)
  <1> DEFINE f == Truncated(z.failed - z.par_failed)
             g == Truncated(y.failed - y.par_failed)
  <1>1. /\ z.par_failed \in Int /\ y.par_failed \in Int
        /\ z.failed \in Int /\ y.failed \in Int
    BY DEF NzbRecord
  <1>2. f \in Int /\ g \in Int /\ f <= g
    BY <1>1 DEF Truncated
  <1>3. CalculateHealth(DataTotal, f) < CalculateCriticalHealth(DataTotal, ParSize, z.par_failed)
    BY DEF HealthFailed
  <1> HIDE DEF f, g
  <1>4. /\ CalculateHealth(DataTotal, g) <= CalculateHealth(DataTotal, f)
        /\ CalculateHealth(DataTotal, g) \in Int /\ CalculateHealth(DataTotal, f) \in Int
    BY <1>2, SizesAreNat, HealthFalls
  <1>5. /\ CalculateCriticalHealth(DataTotal, ParSize, z.par_failed)
              <= CalculateCriticalHealth(DataTotal, ParSize, y.par_failed)
        /\ CalculateCriticalHealth(DataTotal, ParSize, z.par_failed) \in Int
        /\ CalculateCriticalHealth(DataTotal, ParSize, y.par_failed) \in Int
    BY <1>1, SizesAreNat, CriticalHealthRises
  <1>6. CalculateHealth(DataTotal, g) < CalculateCriticalHealth(DataTotal, ParSize, y.par_failed)
    BY <1>3, <1>4, <1>5
  <1> QED BY <1>6 DEF HealthFailed, g

(* Nothing lost, nothing given up.                                         *)
LEMMA NothingLost ==
    ASSUME NEW z \in NzbRecord, z.failed = 0
    PROVE  ~HealthFailed(z)
  <1>1. z.par_failed \in Nat
    BY DEF NzbRecord
  <1>2. Truncated(z.failed - z.par_failed) = 0
    BY <1>1 DEF Truncated
  <1>3. CalculateHealth(DataTotal, 0) = 1000
    BY SizesAreNat, HealthFalls
  <1>4. /\ CalculateCriticalHealth(DataTotal, ParSize, z.par_failed) <= 1000
        /\ CalculateCriticalHealth(DataTotal, ParSize, z.par_failed) \in Int
    BY <1>1, SizesAreNat, CriticalHealthRises
  <1> QED BY <1>2, <1>3, <1>4 DEF HealthFailed

-----------------------------------------------------------------------------
(* What a result does to the record of its NZB.                            *)

LEMMA SettledFields ==
    ASSUME NEW z \in NzbRecord, NEW x \in Files \X Segments, NEW o
    PROVE  /\ Settled(z, x, o) \in NzbRecord
           /\ Settled(z, x, o).segs[x] \in Terminal
           /\ Settled(z, x, o).completed = z.completed
           /\ Settled(z, x, o).post = z.post
           /\ z.failed - z.par_failed
                 <= Settled(z, x, o).failed - Settled(z, x, o).par_failed
           /\ z.par_failed <= Settled(z, x, o).par_failed
  <1>1. /\ z.segs \in [Files \X Segments -> SegmentStatus]
        /\ z.failed \in Nat /\ z.par_failed \in Nat
    BY DEF NzbRecord
  <1>2. CASE o = "Success"
    <2> DEFINE t == [z.segs EXCEPT ![x] = "Finished"]
               s == z.success + 1
               y == [z EXCEPT !.segs = t, !.success = s]
    <2>1. t[x] \in Terminal
      BY <1>1 DEF Terminal
    <2> HIDE DEF t, s
    <2>2. /\ y.segs = t /\ y.completed = z.completed /\ y.post = z.post
          /\ y.failed = z.failed /\ y.par_failed = z.par_failed
      BY DEF NzbRecord
    <2>3. Settled(z, x, o) = y
      BY <1>2 DEF Settled, t, s
    <2> HIDE DEF y
    <2> QED BY <1>1, <2>1, <2>2, <2>3, SettledType
  <1>3. CASE o # "Success"
    <2> DEFINE t == [z.segs EXCEPT ![x] = "Failed"]
               s == z.failed + 1
               p == IF x[1] \in ParNamed THEN z.par_failed + 1 ELSE z.par_failed
               y == [z EXCEPT !.segs = t, !.failed = s, !.par_failed = p]
    <2>1. /\ t[x] \in Terminal
          /\ z.failed - z.par_failed <= s - p /\ z.par_failed <= p
      BY <1>1 DEF Terminal
    <2> HIDE DEF t, s, p
    <2>2. /\ y.segs = t /\ y.completed = z.completed /\ y.post = z.post
          /\ y.failed = s /\ y.par_failed = p
      BY DEF NzbRecord
    <2>3. Settled(z, x, o) = y
      BY <1>3 DEF Settled, t, s, p
    <2> HIDE DEF y
    <2> QED BY <2>1, <2>2, <2>3, SettledType
  <1> QED BY <1>2, <1>3

LEMMA CompletionFields ==
    ASSUME NEW z \in NzbRecord, NEW f \in Files
    PROVE  /\ CheckFileCompletion(z, f).post = z.post
           /\ CheckFileCompletion(z, f).failed = z.failed
           /\ CheckFileCompletion(z, f).par_failed = z.par_failed
           /\ \A g \in Files : CheckFileCompletion(z, f).completed[g] <=>
                 z.completed[g] \/ (g = f /\ AllTerminal(z, f))
  <1> DEFINE d == [z.completed EXCEPT ![f] = TRUE]
             r == Truncated(z.remaining_files - 1)
             y == [z EXCEPT !.completed = d, !.remaining_files = r]
  <1>1. z.completed \in [Files -> BOOLEAN]
    BY DEF NzbRecord
  <1>2. \A g \in Files : d[g] <=> z.completed[g] \/ g = f
    BY <1>1
  <1> HIDE DEF d, r
  <1>3. /\ y.completed = d /\ y.post = z.post
        /\ y.failed = z.failed /\ y.par_failed = z.par_failed
    BY DEF NzbRecord
  <1>4. CASE ~z.completed[f] /\ AllTerminal(z, f)
    <2>1. CheckFileCompletion(z, f) = y
      BY <1>4 DEF CheckFileCompletion, d, r
    <2> HIDE DEF y
    <2> QED BY <1>2, <1>3, <1>4, <2>1
  <1>5. CASE ~(~z.completed[f] /\ AllTerminal(z, f))
    BY <1>5 DEF CheckFileCompletion
  <1> QED BY <1>4, <1>5

LEMMA SegsSame ==
    ASSUME NEW z, NEW y, z.segs = y.segs
    PROVE  \A f : AllTerminal(z, f) <=> AllTerminal(y, f)
  BY DEF AllTerminal

LEMMA SameVerdict ==
    ASSUME NEW z, NEW y, z.failed = y.failed, z.par_failed = y.par_failed
    PROVE  HealthFailed(z) <=> HealthFailed(y)
  BY DEF HealthFailed

(* The result of an article of an NZB that downloads: if the NZB is not    *)
(* given up, it was not before, and its files stay exact.                  *)
LEMMA SettledStays ==
    ASSUME NEW z \in NzbRecord, NEW x \in Files \X Segments, NEW o,
           QueuedOk(z), ~z.post, ~HealthFailed(Settled(z, x, o)),
           NEW c, c = CheckFileCompletion(Settled(z, x, o), x[1])
    PROVE  /\ ~HealthFailed(z) /\ ~HealthFailed(c)
           /\ ~c.post /\ Consistent(c)
           /\ c.segs = Settled(z, x, o).segs
  <1> DEFINE y == Settled(z, x, o)
  <1>1. /\ y \in NzbRecord /\ y.segs[x] \in Terminal
        /\ y.completed = z.completed /\ y.post = z.post
        /\ z.failed - z.par_failed <= y.failed - y.par_failed
        /\ z.par_failed <= y.par_failed
    BY SettledFields
  <1>2. \A k \in Files \X Segments : k # x => y.segs[k] = z.segs[k]
    BY SettledSegs
  <1> HIDE DEF y
  <1>3. ~HealthFailed(z)
    BY <1>1, VerdictStands DEF y
  <1>4. x[1] \in Files
    OBVIOUS
  <1>5. /\ c.post = y.post /\ c.failed = y.failed /\ c.par_failed = y.par_failed
        /\ c.segs = y.segs
        /\ \A g \in Files : c.completed[g] <=>
              y.completed[g] \/ (g = x[1] /\ AllTerminal(y, x[1]))
    BY <1>1, <1>4, CompletionFields, CheckFileCompletionSegs DEF y
  <1>6. ~HealthFailed(c)
    BY <1>5, SameVerdict DEF y
  <1>7. Consistent(z)
    BY <1>3 DEF QueuedOk
  <1>8. ASSUME NEW g \in Files PROVE c.completed[g] <=> AllTerminal(c, g)
    <2>1. AllTerminal(c, g) <=> AllTerminal(y, g)
      BY <1>5, SegsSame
    <2>2. z.completed[g] <=> AllTerminal(z, g)
      BY <1>7 DEF Consistent
    <2>3. CASE g # x[1]
      <3>1. \A s \in Segments : y.segs[<<g, s>>] = z.segs[<<g, s>>]
        BY <1>2, <2>3
      <3>2. AllTerminal(y, g) <=> AllTerminal(z, g)
        BY <3>1 DEF AllTerminal
      <3> QED BY <1>1, <1>5, <2>1, <2>2, <2>3, <3>2
    <2>4. CASE g = x[1]
      <3>1. \A s \in Segments : y.segs[<<g, s>>] = z.segs[<<g, s>>] \/ <<g, s>> = x
        BY <1>2
      <3>2. AllTerminal(z, g) => AllTerminal(y, g)
        BY <1>1, <3>1 DEF AllTerminal
      <3> QED BY <1>1, <1>5, <2>1, <2>2, <2>4, <3>2
    <2> QED BY <2>3, <2>4
  <1> QED BY <1>1, <1>3, <1>5, <1>6, <1>8 DEF Consistent, y

-----------------------------------------------------------------------------
(* Steps in terms of the life cycle.                                       *)

Stays == RecordsInv /\ TransitInv /\ NoticesInv /\ TrackedInv
Abstract == <<Phase, InFlight, HasOutcome, shutdown>>

(* What a step may do to the queue, and what only some steps may.          *)
OutcomesKept ==
    \A n \in Range(queue) \intersect (Range(queue') \union history') :
       \A x \in Files \X Segments :
          nzb[n].segs[x] \in Terminal => nzb'[n].segs[x] = nzb[n].segs[x]

Taken == \E m \in NzbIds : RemoveNzb(m) \/ MoveToMissing(m)
NzbsKept == \A n \in Range(queue) \ Range(queue') : n \in history' \/ Taken

(* An NZB that the health check gave up downloads again only if it came    *)
(* back from the history as it was.                                        *)
Revived == \E h \in NzbIds : HistoryReturn(h)
Hopelessly(z) == HealthFailed(z) /\ ~z.post
VerdictsKept ==
    \A n \in Range(queue') :
       Hopelessly(nzb'[n]) => Revived \/ (n \in Range(queue) /\ Hopelessly(nzb[n]))

(* An NZB waits for post-processing in vain only if the channel was full   *)
(* or the coordinator is gone.                                             *)
Untold(n) == nzb[n].post /\ n \notin Range(Notices)
NoticesKept ==
    \A n \in Range(queue') :
       Untold(n)' => \/ n \in Range(queue) /\ Untold(n)
                     \/ FinishUnreported
                     \/ n \notin Range(Notices) /\ Len(completions) >= CompletionCap

Keeps == OutcomesKept /\ NzbsKept /\ VerdictsKept /\ NoticesKept

(* What the life cycle and the invariant see of a record.                  *)
SameDownload(z, y) ==
    /\ y.segs = z.segs /\ y.completed = z.completed /\ y.post = z.post
    /\ y.failed = z.failed /\ y.par_failed = z.par_failed

LEMMA SameIsOk ==
    ASSUME NEW z, NEW y, SameDownload(z, y)
    PROVE  /\ QueuedOk(z) <=> QueuedOk(y)
           /\ HistoryOk(z) <=> HistoryOk(y)
           /\ HealthFailed(z) <=> HealthFailed(y)
  <1>1. \A f : AllTerminal(z, f) <=> AllTerminal(y, f)
    BY SegsSame DEF SameDownload
  <1>2. HealthFailed(z) <=> HealthFailed(y)
    BY SameVerdict DEF SameDownload
  <1>3. (Done(z) <=> Done(y)) /\ (Consistent(z) <=> Consistent(y))
    BY <1>1 DEF Done, Consistent, SameDownload
  <1> QED BY <1>2, <1>3 DEF QueuedOk, HistoryOk, SameDownload

LEMMA ListedIds ==
    ASSUME StayInv
    PROVE  \A n \in Range(queue) \union history :
              n \in NzbIds /\ n \in Int /\ n < next_nzb_id /\ nzb[n] \in NzbRecord
  BY IdsAreBelowNext DEF StayInv, IInv, ListsInv, TypeOK

(* The lists hold the same NZBs with the same downloads.                   *)
LEMMA StayKept ==
    ASSUME StayInv,
           Range(queue') = Range(queue), UNCHANGED <<history, next_nzb_id, active, shutdown>>,
           \A n \in Range(queue) \union history : SameDownload(nzb[n], nzb'[n]),
           Transit' \subseteq Transit,
           PostProcessedOnce', Range(Notices') \subseteq Range(Notices),
           FinishUnreported \/ Range(queue) \intersect Range(Notices) \subseteq Range(Notices')
    PROVE  Stays' /\ Keeps /\ UNCHANGED Abstract
  <1>1. \A n \in Range(queue) \union history :
           /\ QueuedOk(nzb[n]) <=> QueuedOk(nzb'[n])
           /\ HistoryOk(nzb[n]) <=> HistoryOk(nzb'[n])
           /\ HealthFailed(nzb[n]) <=> HealthFailed(nzb'[n])
           /\ nzb'[n].segs = nzb[n].segs /\ nzb'[n].post = nzb[n].post
    BY SameIsOk DEF SameDownload
  <1>2. \A n : InQueue(n)' <=> InQueue(n)
    BY DEF InQueue
  <1>3. RecordsInv'
    BY <1>1 DEF StayInv, RecordsInv, QueuedOk, HistoryOk
  <1>4. TransitInv'
    BY <1>1, <1>2 DEF StayInv, TransitInv, InQueue
  <1>5. NoticesInv'
    BY <1>1, <1>2 DEF StayInv, NoticesInv, InQueue
  <1>6. TrackedInv'
    BY <1>1 DEF StayInv, TrackedInv
  <1>7. Phase' = Phase
    BY <1>1, <1>2 DEF Phase, PhaseOf, InQueue
  <1>8. InFlight' = InFlight
    BY DEF InFlight, Active
  <1>9. HasOutcome' = HasOutcome
    BY <1>1 DEF HasOutcome
  <1>10. OutcomesKept /\ NzbsKept
    BY <1>1 DEF OutcomesKept, NzbsKept
  <1>11. VerdictsKept
    BY <1>1 DEF VerdictsKept, Hopelessly
  <1>12. NoticesKept
    BY <1>1 DEF NoticesKept, Untold
  <1> QED BY <1>3, <1>4, <1>5, <1>6, <1>7, <1>8, <1>9, <1>10, <1>11, <1>12
          DEF Stays, Keeps, Abstract

(* An NZB leaves the lists.                                                *)
LEMMA StayRemoved ==
    ASSUME StayInv, NEW n \in Range(queue) \union history,
           Range(queue') = Range(queue) \ {n}, history' = history \ {n},
           \A m \in NzbIds \ {n} : nzb'[m] = nzb[m],
           UNCHANGED <<next_nzb_id, active, shutdown, worker, pipeline>>,
           n \in history \/ Taken
    PROVE  Stays' /\ Keeps /\ Lifecycle!Remove(n)
  <1>1. \A m \in Range(queue) \union history :
           m \in NzbIds /\ m \in Int /\ m < next_nzb_id
    BY ListedIds
  <1>2. \A m \in Range(queue') \union history' : nzb'[m] = nzb[m]
    BY <1>1
  <1>3. \A m : InQueue(m)' <=> InQueue(m) /\ m # n
    BY DEF InQueue
  <1>4. Transit' = Transit /\ Notices' = Notices
    BY DEF Transit, Notices, worker, pipeline, Reported
  <1>5. RecordsInv'
    BY <1>2 DEF StayInv, RecordsInv
  <1>6. TransitInv'
    BY <1>2, <1>3, <1>4 DEF StayInv, TransitInv, InQueue
  <1>7. NoticesInv'
    BY <1>2, <1>3, <1>4 DEF StayInv, NoticesInv, InQueue, PostProcessedOnce
  <1>8. TrackedInv'
    BY <1>2 DEF StayInv, TrackedInv
  <1>9. n \in NzbIds /\ n < next_nzb_id
    BY <1>1
  <1>10. Phase[n] \in {"queued", "post", "history"}
    BY <1>9 DEF Phase, PhaseOf, InQueue
  <1>11. Phase' = [Phase EXCEPT ![n] = "gone"]
    <2>1. ASSUME NEW m \in NzbIds
          PROVE  PhaseOf(m)' = IF m = n THEN "gone" ELSE PhaseOf(m)
      BY <1>2, <1>3, <1>9 DEF PhaseOf, InQueue
    <2> QED BY <2>1, <1>9 DEF Phase
  <1>12. InFlight' = InFlight
    BY DEF InFlight, Active
  <1>13. HasOutcome' = HasOutcome \ {o \in HasOutcome : o[1] = n}
    BY <1>2 DEF HasOutcome
  <1>14. OutcomesKept
    BY <1>2 DEF OutcomesKept
  <1>15. NzbsKept
    BY DEF NzbsKept, StayInv, IInv, ListsInv, IdsAreUnique
  <1>16. VerdictsKept
    BY <1>2 DEF VerdictsKept
  <1>17. NoticesKept
    BY <1>2, <1>4 DEF NoticesKept, Untold
  <1> QED
    BY <1>5, <1>6, <1>7, <1>8, <1>10, <1>11, <1>12, <1>13, <1>14, <1>15, <1>16, <1>17
    DEF Stays, Keeps, Lifecycle!Remove, Lifecycle!Of

(* The next id is the only one the life cycle may use.                     *)
LEMMA NextIdIsNext ==
    ASSUME StayInv, next_nzb_id \in NzbIds
    PROVE  /\ Lifecycle!NextId(next_nzb_id)
           /\ next_nzb_id \notin Range(queue) \union history
           /\ \A m \in NzbIds : m < next_nzb_id \/ m = next_nzb_id \/ m > next_nzb_id
  <1>1. \A m \in Range(queue) \union history : m \in Int /\ m < next_nzb_id
    BY ListedIds
  <1>2. \A m \in NzbIds : m \in Int
    BY DEF NzbIds
  <1>3. next_nzb_id \notin Range(queue) \union history
    BY <1>1, <1>2
  <1>4. Phase[next_nzb_id] = "unborn"
    BY <1>2, <1>3 DEF Phase, PhaseOf, InQueue
  <1>5. \A m \in NzbIds : m < next_nzb_id => Phase[m] # "unborn"
    BY DEF Phase, PhaseOf
  <1> QED BY <1>2, <1>3, <1>4, <1>5 DEF Lifecycle!NextId

(* An NZB joins the queue under the next id, perhaps from the history.     *)
LEMMA StayJoined ==
    ASSUME StayInv, next_nzb_id \in NzbIds, next_nzb_id' = next_nzb_id + 1,
           Range(queue') = Range(queue) \union {next_nzb_id}, history' \subseteq history,
           \A m \in Range(queue) \union history' : nzb'[m] = nzb[m],
           QueuedOk(nzb'[next_nzb_id]),
           \/ nzb'[next_nzb_id].post \/ HealthFailed(nzb'[next_nzb_id])
           \/ \A x \in Files \X Segments : nzb'[next_nzb_id].segs[x] # "Running",
           UNCHANGED <<active, shutdown, worker>>, NoticesInv',
           Hopelessly(nzb'[next_nzb_id]) => Revived,
           Range(Notices) \subseteq Range(Notices'),
           nzb'[next_nzb_id].post
              => next_nzb_id \in Range(Notices') \/ Len(completions) >= CompletionCap
    PROVE  Stays' /\ Keeps
  <1>1. \A m \in Range(queue) \union history : m \in Int /\ m < next_nzb_id
    BY ListedIds
  <1>2. Transit' = Transit
    BY DEF Transit, worker, Reported
  <1>3. RecordsInv'
    BY DEF StayInv, RecordsInv
  <1>4. TransitInv'
    <2> SUFFICES ASSUME NEW a \in Transit
                 PROVE  /\ a[1] < next_nzb_id'
                        /\ InQueue(a[1])' /\ nzb'[a[1]].segs[<<a[2], a[3]>>] \notin Terminal
                              => ~nzb'[a[1]].post
      BY <1>2 DEF TransitInv
    <2>1. /\ a[1] < next_nzb_id
          /\ InQueue(a[1]) /\ nzb[a[1]].segs[<<a[2], a[3]>>] \notin Terminal
                => ~nzb[a[1]].post
      BY DEF StayInv, TransitInv
    <2>2. a[1] \in Int /\ next_nzb_id \in Int
      <3>1. a \in ArticleIds
        BY ReportedArtsType DEF Transit, StayInv, IInv, TypeOK, Range
      <3> QED BY <3>1 DEF ArticleIds, NzbIds
    <2>3. a[1] # next_nzb_id /\ a[1] < next_nzb_id'
      BY <2>1, <2>2
    <2>4. InQueue(a[1])' => InQueue(a[1]) /\ nzb'[a[1]] = nzb[a[1]]
      BY <2>3 DEF InQueue
    <2> QED BY <2>1, <2>3, <2>4
  <1>5. TrackedInv'
    <2> SUFFICES ASSUME ~shutdown, NEW n \in Range(queue'),
                        ~nzb'[n].post, ~HealthFailed(nzb'[n]),
                        NEW x \in Files \X Segments, nzb'[n].segs[x] = "Running"
                 PROVE  active[<<n, x[1], x[2]>>] # NoServer
      BY DEF TrackedInv
    <2>1. n \in Range(queue) /\ nzb'[n] = nzb[n]
      OBVIOUS
    <2> QED BY <2>1 DEF StayInv, TrackedInv
  <1>6. OutcomesKept /\ NzbsKept
    BY DEF OutcomesKept, NzbsKept
  <1>7. VerdictsKept
    BY DEF VerdictsKept
  <1>8. NoticesKept
    <2>1. next_nzb_id \notin Range(Notices)
      <3>1. next_nzb_id \in Int
        BY DEF StayInv, IInv, TypeOK
      <3> QED BY <3>1 DEF StayInv, NoticesInv
    <2> QED BY <2>1 DEF NoticesKept, Untold
  <1> QED BY <1>3, <1>4, <1>5, <1>6, <1>7, <1>8 DEF Stays, Keeps

LEMMA JoinedLifecycle ==
    ASSUME StayInv, next_nzb_id \in NzbIds, next_nzb_id' = next_nzb_id + 1,
           Range(queue') = Range(queue) \union {next_nzb_id}, history' \subseteq history,
           \A m \in Range(queue) \union history' : nzb'[m] = nzb[m],
           UNCHANGED <<active, shutdown>>
    PROVE  /\ InFlight' = InFlight
           /\ \A m \in NzbIds : Phase'[m] =
                 IF m = next_nzb_id
                 THEN IF nzb'[next_nzb_id].post THEN "post" ELSE "queued"
                 ELSE IF m \in history \ history' THEN "gone" ELSE Phase[m]
           /\ HasOutcome' =
                 {o \in HasOutcome : o[1] \notin history \ history'}
                 \union {o \in {next_nzb_id} \X (Files \X Segments) :
                           nzb'[next_nzb_id].segs[o[2]] \in Terminal}
  <1>1. \A m \in Range(queue) \union history : m \in NzbIds /\ m \in Int /\ m < next_nzb_id
    BY ListedIds
  <1>2. next_nzb_id \in Int /\ \A m \in NzbIds : m \in Int
    BY DEF NzbIds
  <1>3. Range(queue) \intersect history = {}
    BY DEF StayInv, IInv, ListsInv, IdsAreUnique
  <1>4. \A m : InQueue(m)' <=> InQueue(m) \/ m = next_nzb_id
    BY DEF InQueue
  <1>5. ASSUME NEW m \in NzbIds
        PROVE  PhaseOf(m)' =
                 IF m = next_nzb_id
                 THEN IF nzb'[next_nzb_id].post THEN "post" ELSE "queued"
                 ELSE IF m \in history \ history' THEN "gone" ELSE PhaseOf(m)
    <2>0. m \in Int /\ next_nzb_id' = next_nzb_id + 1
      BY <1>2
    <2>1. CASE m = next_nzb_id
      BY <1>4, <2>1 DEF PhaseOf
    <2>2. CASE m \in history \ history'
      <3>1. ~InQueue(m) /\ m # next_nzb_id /\ m < next_nzb_id'
        BY <1>1, <1>2, <1>3, <2>0, <2>2 DEF InQueue
      <3> QED BY <1>4, <2>2, <3>1 DEF PhaseOf
    <2>3. CASE m # next_nzb_id /\ m \notin history \ history'
      <3>1. m < next_nzb_id' <=> m < next_nzb_id
        BY <1>2, <2>0, <2>3
      <3>2. (m \in history' <=> m \in history) /\ (InQueue(m)' <=> InQueue(m))
        BY <1>4, <2>3
      <3>3. InQueue(m) => nzb'[m] = nzb[m]
        BY DEF InQueue
      <3> QED BY <2>3, <3>1, <3>2, <3>3 DEF PhaseOf
    <2> QED BY <2>1, <2>2, <2>3
  <1>6. InFlight' = InFlight
    BY DEF InFlight, Active
  <1>7. ASSUME NEW o
        PROVE  o \in HasOutcome' <=>
                  \/ o \in HasOutcome /\ o[1] \notin history \ history'
                  \/ /\ o \in {next_nzb_id} \X (Files \X Segments)
                     /\ nzb'[next_nzb_id].segs[o[2]] \in Terminal
    <2>1. \A m : m \in Range(queue') \union history' <=>
             \/ m \in Range(queue) \union history /\ m \notin history \ history'
             \/ m = next_nzb_id
      BY <1>3
    <2>2. \A m \in Range(queue) \union history :
             m \notin history \ history' => nzb'[m] = nzb[m]
      OBVIOUS
    <2>3. next_nzb_id \notin Range(queue) \union history
      BY <1>1, <1>2
    <2> QED BY <2>1, <2>2, <2>3 DEF HasOutcome
  <1>8. \A m \in NzbIds : Phase[m] = PhaseOf(m) /\ Phase'[m] = PhaseOf(m)'
    BY DEF Phase
  <1> QED BY <1>5, <1>6, <1>7, <1>8

-----------------------------------------------------------------------------
(* The notices on their way through the pipeline.                          *)

Sent(c, f, q, p) ==
    c \o (IF f = NoNzb THEN <<>> ELSE <<f>>) \o q \o (IF p = NoNzb THEN <<>> ELSE <<p>>)

Named(c, f, q, p) == Range(c) \union Range(q) \union ({f, p} \ {NoNzb})

Distinct(c, f, q, p) ==
    /\ IsInjective(c) /\ IsInjective(q) /\ Range(c) \intersect Range(q) = {}
    /\ f # NoNzb => f \notin Range(c) \union Range(q)
    /\ p # NoNzb => p \notin Range(c) \union Range(q) /\ p # f

LEMMA OneNotice ==
    ASSUME NEW f \in NzbIds \union {NoNzb}
    PROVE  /\ (IF f = NoNzb THEN <<>> ELSE <<f>>) \in Seq(NzbIds)
           /\ Range(IF f = NoNzb THEN <<>> ELSE <<f>>) = {f} \ {NoNzb}
           /\ IsInjective(IF f = NoNzb THEN <<>> ELSE <<f>>)
  <1>1. CASE f = NoNzb
    BY <1>1, EmptySeq DEF Range, IsInjective
  <1>2. CASE f # NoNzb
    <2>1. <<f>> \in Seq(NzbIds) /\ DOMAIN <<f>> = {1} /\ <<f>>[1] = f
      BY <1>2
    <2> QED BY <1>2, <2>1 DEF Range, IsInjective
  <1> QED BY <1>1, <1>2

LEMMA NoticeParts ==
    ASSUME NEW c \in Seq(NzbIds), NEW f \in NzbIds \union {NoNzb},
           NEW q \in Seq(NzbIds), NEW p \in NzbIds \union {NoNzb}
    PROVE  /\ Range(Sent(c, f, q, p)) = Named(c, f, q, p)
           /\ IsInjective(Sent(c, f, q, p)) <=> Distinct(c, f, q, p)
  <1> DEFINE F == IF f = NoNzb THEN <<>> ELSE <<f>>
             P == IF p = NoNzb THEN <<>> ELSE <<p>>
             N == Sent(c, f, q, p)
  <1>1. /\ F \in Seq(NzbIds) /\ Range(F) = {f} \ {NoNzb} /\ IsInjective(F)
        /\ P \in Seq(NzbIds) /\ Range(P) = {p} \ {NoNzb} /\ IsInjective(P)
    BY OneNotice
  <1>2. N = ((c \o F) \o q) \o P
    BY DEF Sent
  <1> HIDE DEF F, P, N
  <1>3. /\ c \o F \in Seq(NzbIds) /\ Range(c \o F) = Range(c) \union Range(F)
        /\ IsInjective(c \o F) <=>
              IsInjective(c) /\ IsInjective(F) /\ Range(c) \intersect Range(F) = {}
    BY <1>1, ConcatRange
  <1>4. /\ (c \o F) \o q \in Seq(NzbIds)
        /\ Range((c \o F) \o q) = Range(c \o F) \union Range(q)
        /\ IsInjective((c \o F) \o q) <=>
              /\ IsInjective(c \o F) /\ IsInjective(q)
              /\ Range(c \o F) \intersect Range(q) = {}
    BY <1>3, ConcatRange
  <1>5. /\ Range(N) = Range((c \o F) \o q) \union Range(P)
        /\ IsInjective(N) <=>
              /\ IsInjective((c \o F) \o q) /\ IsInjective(P)
              /\ Range((c \o F) \o q) \intersect Range(P) = {}
    <2> DEFINE M == (c \o F) \o q
    <2>1. M \in Seq(NzbIds)
      BY <1>4
    <2> HIDE DEF M
    <2>2. /\ Range(M \o P) = Range(M) \union Range(P)
          /\ IsInjective(M \o P) <=>
                IsInjective(M) /\ IsInjective(P) /\ Range(M) \intersect Range(P) = {}
      BY <1>1, <2>1, ConcatRange
    <2>3. N = M \o P
      BY <1>2 DEF M
    <2> QED BY <2>2, <2>3 DEF M
  <1>6. Range(N) = Named(c, f, q, p)
    BY <1>1, <1>3, <1>4, <1>5 DEF Named
  <1>7. IsInjective(N) <=>
           /\ IsInjective(c) /\ IsInjective(q)
           /\ Range(c) \intersect ({f} \ {NoNzb}) = {}
           /\ (Range(c) \union ({f} \ {NoNzb})) \intersect Range(q) = {}
           /\ (Range(c) \union ({f} \ {NoNzb}) \union Range(q)) \intersect ({p} \ {NoNzb}) = {}
    BY <1>1, <1>3, <1>4, <1>5
  <1>8. IsInjective(N) <=> Distinct(c, f, q, p)
    BY <1>7 DEF Distinct
  <1> QED BY <1>6, <1>8 DEF N

LEMMA NoticesNow ==
    ASSUME TypeOK
    PROVE  /\ Range(Notices) = Named(completions, forwarding, post_requests, post_current)
           /\ PostProcessedOnce <=>
                 Distinct(completions, forwarding, post_requests, post_current)
  <1>1. /\ completions \in Seq(NzbIds) /\ post_requests \in Seq(NzbIds)
        /\ forwarding \in NzbIds \union {NoNzb} /\ post_current \in NzbIds \union {NoNzb}
    BY DEF TypeOK
  <1>2. Notices = Sent(completions, forwarding, post_requests, post_current)
    BY DEF Notices, Sent
  <1>3. PostProcessedOnce <=> IsInjective(Notices)
    BY DEF PostProcessedOnce
  <1> QED BY <1>1, <1>2, <1>3, NoticeParts

LEMMA NoticesNext ==
    ASSUME TypeOK'
    PROVE  /\ Range(Notices') = Named(completions', forwarding', post_requests', post_current')
           /\ PostProcessedOnce' <=>
                 Distinct(completions', forwarding', post_requests', post_current')
  <1>1. /\ completions' \in Seq(NzbIds) /\ post_requests' \in Seq(NzbIds)
        /\ forwarding' \in NzbIds \union {NoNzb} /\ post_current' \in NzbIds \union {NoNzb}
    BY DEF TypeOK
  <1>2. Notices' = Sent(completions', forwarding', post_requests', post_current')
    BY DEF Notices, Sent
  <1>3. PostProcessedOnce' <=> IsInjective(Notices')
    BY DEF PostProcessedOnce
  <1> QED BY <1>1, <1>2, <1>3, NoticeParts

(* The pipeline only hands on what it was given.                           *)
LEMMA NoticesMove ==
    ASSUME StayInv, TypeOK',
           ForwardTake \/ ForwardSend \/ PostTake \/ FinishPostProcessing \/ FinishUnreported
    PROVE  /\ PostProcessedOnce' /\ Range(Notices') \subseteq Range(Notices)
           /\ FinishUnreported \/ Range(Notices) \subseteq Range(Notices') \union {post_current}
           /\ ForwardTake \/ ForwardSend \/ PostTake => Range(Notices') = Range(Notices)
  <1>1. TypeOK /\ PostProcessedOnce
    BY DEF StayInv, IInv, NoticesInv
  <1>2. Distinct(completions, forwarding, post_requests, post_current)
    BY <1>1, NoticesNow
  <1>3. /\ completions \in Seq(NzbIds) /\ post_requests \in Seq(NzbIds)
        /\ forwarding \in NzbIds \union {NoNzb} /\ post_current \in NzbIds \union {NoNzb}
    BY <1>1 DEF TypeOK
  <1>9. NoNzb \notin NzbIds
    BY DEF NzbIds, NoNzb
  <1> DEFINE Goal ==
        /\ Distinct(completions', forwarding', post_requests', post_current')
        /\ Named(completions', forwarding', post_requests', post_current')
              \subseteq Named(completions, forwarding, post_requests, post_current)
        /\ \/ FinishUnreported
           \/ Named(completions, forwarding, post_requests, post_current)
                 \subseteq Named(completions', forwarding', post_requests', post_current')
                           \union {post_current}
        /\ ForwardTake \/ ForwardSend \/ PostTake
              => Named(completions, forwarding, post_requests, post_current)
                    \subseteq Named(completions', forwarding', post_requests', post_current')
  <1>4. ASSUME ForwardTake PROVE Goal
    <2>1. /\ completions # <<>> /\ forwarding = NoNzb /\ forwarding' = Head(completions)
          /\ completions' = Tail(completions) /\ UNCHANGED <<post_requests, post_current>>
      BY <1>4 DEF ForwardTake
    <2>2. /\ Head(completions) \in Range(completions) /\ IsInjective(completions')
          /\ Range(completions') = Range(completions) \ {Head(completions)}
      BY <1>2, <1>3, <2>1, TailRange DEF Distinct
    <2>3. Range(completions) \subseteq NzbIds
      BY <1>3 DEF Range
    <2> QED BY <1>2, <1>9, <2>1, <2>2, <2>3 DEF Distinct, Named
  <1>5. ASSUME ForwardSend PROVE Goal
    <2>1. /\ forwarding # NoNzb /\ forwarding' = NoNzb
          /\ post_requests' = Append(post_requests, forwarding)
          /\ UNCHANGED <<completions, post_current>>
      BY <1>5 DEF ForwardSend
    <2>2. forwarding \in NzbIds /\ forwarding \notin Range(post_requests)
      BY <1>2, <1>3, <2>1 DEF Distinct
    <2>3. /\ Range(post_requests') = Range(post_requests) \union {forwarding}
          /\ IsInjective(post_requests')
      BY <1>2, <1>3, <2>1, <2>2, AppendRange DEF Distinct
    <2> QED BY <1>2, <2>1, <2>3 DEF Distinct, Named
  <1>6. ASSUME PostTake PROVE Goal
    <2>1. /\ post_requests # <<>> /\ post_current = NoNzb /\ post_current' = Head(post_requests)
          /\ post_requests' = Tail(post_requests) /\ UNCHANGED <<completions, forwarding>>
      BY <1>6 DEF PostTake
    <2>2. /\ Head(post_requests) \in Range(post_requests) /\ IsInjective(post_requests')
          /\ Range(post_requests') = Range(post_requests) \ {Head(post_requests)}
      BY <1>2, <1>3, <2>1, TailRange DEF Distinct
    <2>3. Range(post_requests) \subseteq NzbIds
      BY <1>3 DEF Range
    <2> QED BY <1>2, <1>9, <2>1, <2>2, <2>3 DEF Distinct, Named
  <1>7. ASSUME FinishPostProcessing \/ FinishUnreported PROVE Goal
    <2>1. /\ UNCHANGED <<completions, forwarding, post_requests>>
          /\ post_current' = NoNzb /\ post_current # NoNzb
      BY <1>7 DEF FinishPostProcessing, FinishUnreported
    <2>2. ~(ForwardTake \/ ForwardSend \/ PostTake)
      BY <1>3, <1>9, <2>1 DEF ForwardTake, ForwardSend, PostTake
    <2> QED BY <1>2, <2>1, <2>2 DEF Distinct, Named
  <1>8. Goal
    BY <1>4, <1>5, <1>6, <1>7
  <1> QED BY <1>1, <1>8, NoticesNow, NoticesNext

(* A notice for an NZB the pipeline does not know.                         *)
LEMMA NoticeAdded ==
    ASSUME StayInv, TypeOK', NEW n \in NzbIds, n \notin Range(Notices),
           completions' \in {completions, Append(completions, n)},
           UNCHANGED <<forwarding, post_requests, post_current>>
    PROVE  /\ PostProcessedOnce' /\ Range(Notices') \subseteq Range(Notices) \union {n}
           /\ Range(Notices) \subseteq Range(Notices')
           /\ completions' = Append(completions, n) => n \in Range(Notices')
  <1>1. TypeOK /\ PostProcessedOnce /\ completions \in Seq(NzbIds)
    BY DEF StayInv, IInv, NoticesInv, TypeOK
  <1>2. /\ Distinct(completions, forwarding, post_requests, post_current)
        /\ Range(Notices) = Named(completions, forwarding, post_requests, post_current)
    BY <1>1, NoticesNow
  <1>3. n # NoNzb
    BY DEF NzbIds, NoNzb
  <1>4. CASE completions' = completions
    <2>1. completions' # Append(completions, n)
      BY <1>1, <1>4, AppendProperties
    <2> QED BY <1>1, <1>2, <1>4, <2>1, NoticesNext
  <1>5. CASE completions' = Append(completions, n)
    <2>1. n \notin Range(completions)
      BY <1>2 DEF Named
    <2>2. Range(completions') = Range(completions) \union {n} /\ IsInjective(completions')
      BY <1>1, <1>2, <1>5, <2>1, AppendRange DEF Distinct
    <2> QED BY <1>2, <1>3, <2>2, NoticesNext DEF Distinct, Named
  <1> QED BY <1>4, <1>5

-----------------------------------------------------------------------------
(* A step keeps the invariant, and is a step of the life cycle or none.    *)

Goes == Stays' /\ Keeps /\ (Lifecycle!Next \/ UNCHANGED Abstract)

LEMMA NoticesJoined ==
    ASSUME StayInv, next_nzb_id \in NzbIds, next_nzb_id' = next_nzb_id + 1,
           Range(queue') = Range(queue) \union {next_nzb_id},
           \A m \in Range(queue) : nzb'[m] = nzb[m], UNCHANGED pipeline
    PROVE  NoticesInv'
  <1>1. Notices' = Notices
    BY DEF Notices, pipeline
  <1>2. ASSUME NEW n \in Range(Notices)
        PROVE  n < next_nzb_id' /\ (InQueue(n)' => nzb'[n].post)
    <2>1. n \in NzbIds
      <3>1. /\ Range(completions) \subseteq NzbIds /\ Range(post_requests) \subseteq NzbIds
            /\ forwarding \in NzbIds \union {NoNzb}
            /\ post_current \in NzbIds \union {NoNzb}
        BY DEF StayInv, IInv, TypeOK, Range
      <3>2. Range(Notices) = Named(completions, forwarding, post_requests, post_current)
        BY NoticesNow DEF StayInv, IInv
      <3> QED BY <3>1, <3>2 DEF Named
    <2>2. n < next_nzb_id /\ (InQueue(n) => nzb[n].post)
      BY DEF StayInv, NoticesInv
    <2>3. n \in Int /\ next_nzb_id \in Int
      BY <2>1 DEF NzbIds
    <2>4. n # next_nzb_id /\ n < next_nzb_id'
      BY <2>2, <2>3
    <2> QED BY <2>2, <2>4 DEF InQueue
  <1>3. PostProcessedOnce'
    BY <1>1 DEF StayInv, NoticesInv, PostProcessedOnce
  <1> QED BY <1>1, <1>2, <1>3 DEF NoticesInv

LEMMA OthersArePipeline ==
    ASSUME OthersUnchanged
    PROVE  /\ UNCHANGED <<active, worker, pipeline>>
           /\ Transit' = Transit /\ Notices' = Notices
           /\ PostProcessedOnce' <=> PostProcessedOnce
  <1>1. UNCHANGED <<active, worker, pipeline>>
    BY DEF OthersUnchanged, slots
  <1>2. Transit' = Transit /\ Notices' = Notices
    BY <1>1 DEF worker, pipeline, Transit, Notices, Reported
  <1> QED BY <1>1, <1>2 DEF PostProcessedOnce

LEMMA NewNzbFields ==
    ASSUME NEW p \in Priorities, NEW b \in BOOLEAN, NEW z, z = NewNzb(p, b)
    PROVE  /\ z \in NzbRecord /\ ~z.post /\ QueuedOk(z) /\ ~HealthFailed(z)
           /\ \A x \in Files \X Segments : z.segs[x] = "Undefined"
  <1>1. z \in NzbRecord /\ ~z.post
    BY NewNzbType DEF NewNzb
  <1>2. \A x \in Files \X Segments : z.segs[x] = "Undefined"
    BY DEF NewNzb
  <1>3. \A f \in Files : ~z.completed[f]
    BY DEF NewNzb
  <1>4. 1 \in Segments
    BY CoordinatorAssumption DEF Segments
  <1>5. \A f \in Files : z.segs[<<f, 1>>] = "Undefined"
    BY <1>2, <1>4
  <1>6. \A f \in Files : ~AllTerminal(z, f)
    BY <1>4, <1>5 DEF AllTerminal, Terminal
  <1>7. z.failed = 0
    BY DEF NewNzb
  <1>8. ~HealthFailed(z)
    BY <1>1, <1>7, NothingLost
  <1> QED BY <1>1, <1>2, <1>3, <1>6, <1>8 DEF QueuedOk, Consistent

LEMMA AddNzbGoes ==
    ASSUME StayInv, AddNzb PROVE Goes
  <1> DEFINE i == next_nzb_id
  <1>1. /\ i \in NzbIds /\ next_nzb_id' = i + 1 /\ UNCHANGED <<history, shutdown>>
        /\ OthersUnchanged
    BY DEF AddNzb, StayInv, IInv, TypeOK, NzbIds, controls
  <1>2. /\ Lifecycle!NextId(i) /\ i \notin Range(queue) \union history
        /\ \A m \in NzbIds : m < i \/ m = i \/ m > i
    BY <1>1, NextIdIsNext
  <1>3. \A m \in Range(queue) \union history : m \in NzbIds /\ m \in Int /\ m < i
    BY ListedIds
  <1>4. /\ UNCHANGED <<active, worker, pipeline>> /\ Transit' = Transit /\ Notices' = Notices
        /\ PostProcessedOnce' <=> PostProcessedOnce
    BY <1>1, OthersArePipeline
  <1>5. i \in Int /\ \A m \in NzbIds : m \in Int
    BY <1>1 DEF NzbIds
  <1>6. CASE UNCHANGED <<nzb, queue>>
    <2>1. \A m : InQueue(m)' <=> InQueue(m)
      BY <1>6 DEF InQueue
    <2>2. RecordsInv' /\ TrackedInv'
      BY <1>1, <1>4, <1>6 DEF StayInv, RecordsInv, TrackedInv
    <2>3. TransitInv'
      <3>1. ASSUME NEW a \in Transit PROVE a[1] < i + 1
        <4>1. a \in ArticleIds
          BY ReportedArtsType DEF Transit, StayInv, IInv, TypeOK, Range
        <4>2. a[1] \in Int
          BY <4>1 DEF ArticleIds, NzbIds
        <4>3. a[1] < i
          BY DEF StayInv, TransitInv
        <4> QED BY <1>5, <4>2, <4>3
      <3> QED BY <1>1, <1>4, <1>6, <2>1, <3>1 DEF StayInv, TransitInv
    <2>4. NoticesInv'
      <3>1. ASSUME NEW n \in Range(Notices) PROVE n < i + 1
        <4>1. n \in NzbIds
          <5>1. /\ Range(completions) \subseteq NzbIds /\ Range(post_requests) \subseteq NzbIds
                /\ forwarding \in NzbIds \union {NoNzb}
                /\ post_current \in NzbIds \union {NoNzb}
            BY DEF StayInv, IInv, TypeOK, Range
          <5>2. Range(Notices) = Named(completions, forwarding, post_requests, post_current)
            BY NoticesNow DEF StayInv, IInv
          <5> QED BY <5>1, <5>2 DEF Named
        <4>2. n \in Int /\ n < i
          BY <4>1 DEF NzbIds, StayInv, NoticesInv
        <4> QED BY <1>5, <4>2
      <3> QED BY <1>1, <1>4, <1>6, <2>1, <3>1 DEF StayInv, NoticesInv
    <2>5. ASSUME NEW m \in NzbIds
          PROVE  PhaseOf(m)' = IF m = i THEN "gone" ELSE PhaseOf(m)
      <3>1. m \in Int /\ (m < i + 1 <=> m < i \/ m = i)
        BY <1>5
      <3>2. InQueue(m) \/ m \in history => m # i
        BY <1>2 DEF InQueue
      <3> QED BY <1>1, <1>6, <2>1, <3>1, <3>2 DEF PhaseOf
    <2>6. Phase' = [Phase EXCEPT ![i] = "gone"]
      BY <1>1, <2>5 DEF Phase
    <2>7. InFlight' = InFlight /\ HasOutcome' = HasOutcome
      BY <1>1, <1>4, <1>6 DEF InFlight, Active, HasOutcome
    <2>8. Lifecycle!Add(i)
      BY <1>1, <1>2, <2>6, <2>7 DEF Lifecycle!Add
    <2>9. Keeps
      BY <1>1, <1>4, <1>6
      DEF Keeps, OutcomesKept, NzbsKept, VerdictsKept, NoticesKept, Untold
    <2> QED BY <1>1, <2>2, <2>3, <2>4, <2>8, <2>9 DEF Goes, Stays, Lifecycle!Next
  <1>7. CASE \E p \in Priorities, b \in BOOLEAN :
               /\ nzb' = [nzb EXCEPT ![i] = NewNzb(p, b)]
               /\ queue' \in {Append(queue, i), <<i>> \o queue}
    <2>1. PICK p \in Priorities, b \in BOOLEAN :
               /\ nzb' = [nzb EXCEPT ![i] = NewNzb(p, b)]
               /\ queue' \in {Append(queue, i), <<i>> \o queue}
      BY <1>7
    <2>2. queue \in Seq(NzbIds) /\ IsInjective(queue) /\ nzb \in [NzbIds -> NzbRecord]
      BY DEF StayInv, IInv, TypeOK, ListsInv, IdsAreUnique
    <2>3. Range(queue') = Range(queue) \union {i}
      <3>1. CASE queue' = Append(queue, i)
        BY <1>1, <2>2, <3>1, AppendRange
      <3>2. CASE queue' = <<i>> \o queue
        BY <1>1, <1>2, <2>2, <3>2, PrependRange
      <3> QED BY <2>1, <3>1, <3>2
    <2>4. nzb'[i] = NewNzb(p, b) /\ \A m \in Range(queue) \union history' : nzb'[m] = nzb[m]
      BY <1>1, <1>2, <1>3, <2>1, <2>2
    <2>5. /\ ~nzb'[i].post /\ QueuedOk(nzb'[i])
          /\ \A x \in Files \X Segments : nzb'[i].segs[x] = "Undefined"
      BY <2>4, NewNzbFields
    <2>6. NoticesInv'
      BY <1>1, <1>4, <2>3, <2>4, NoticesJoined
    <2>7. Stays' /\ Keeps
      <3>1. ~Hopelessly(nzb'[i])
        BY <2>4, NewNzbFields DEF Hopelessly
      <3> QED BY <1>1, <1>4, <2>3, <2>4, <2>5, <2>6, <3>1, StayJoined
    <2>8. /\ InFlight' = InFlight
          /\ \A m \in NzbIds : Phase'[m] =
                IF m = i THEN IF nzb'[i].post THEN "post" ELSE "queued"
                ELSE IF m \in history \ history' THEN "gone" ELSE Phase[m]
          /\ HasOutcome' =
                {o \in HasOutcome : o[1] \notin history \ history'}
                \union {o \in {i} \X (Files \X Segments) : nzb'[i].segs[o[2]] \in Terminal}
      BY <1>1, <1>4, <2>3, <2>4, JoinedLifecycle
    <2>9. Phase' = [Phase EXCEPT ![i] = "queued"]
      BY <1>1, <2>5, <2>8 DEF Phase
    <2>10. HasOutcome' = HasOutcome
      BY <1>1, <2>5, <2>8 DEF Terminal
    <2>11. Lifecycle!Add(i)
      BY <1>1, <1>2, <2>8, <2>9, <2>10 DEF Lifecycle!Add
    <2> QED BY <1>1, <2>7, <2>11 DEF Goes, Lifecycle!Next
  <1> QED BY <1>6, <1>7 DEF AddNzb

(* An NZB comes back from the history.                                     *)
LEMMA RequeuedGoes ==
    ASSUME StayInv, NEW h \in NzbIds, NEW z, Requeued(h, z),
           UNCHANGED <<active, shutdown, worker>>,
           QueuedOk(z),
           \/ z.post \/ HealthFailed(z) \/ \A x \in Files \X Segments : z.segs[x] # "Running",
           \/ z.segs = nzb[h].segs
           \/ \A x \in Files \X Segments : z.segs[x] \notin Terminal,
           NoticesInv', Hopelessly(z) => Revived, Range(Notices) \subseteq Range(Notices'),
           z.post => next_nzb_id \in Range(Notices') \/ Len(completions) >= CompletionCap
    PROVE  Goes
  <1> DEFINE i == next_nzb_id
             old == {o \in HasOutcome : o[1] = h}
             new == {o \in {i} \X (Files \X Segments) : z.segs[o[2]] \in Terminal}
  <1>1. /\ i \in NzbIds /\ next_nzb_id' = i + 1 /\ h \in history /\ history' = history \ {h}
        /\ queue' = Append(queue, i) /\ nzb' = [nzb EXCEPT ![h] = Blank, ![i] = z]
    BY DEF Requeued, StayInv, IInv, TypeOK, NzbIds
  <1>2. /\ Lifecycle!NextId(i) /\ i \notin Range(queue) \union history
        /\ \A m \in NzbIds : m < i \/ m = i \/ m > i
    BY <1>1, NextIdIsNext
  <1>3. /\ queue \in Seq(NzbIds) /\ nzb \in [NzbIds -> NzbRecord]
        /\ Range(queue) \intersect history = {}
    BY DEF StayInv, IInv, TypeOK, ListsInv, IdsAreUnique
  <1>4. \A m \in Range(queue) \union history : m \in NzbIds
    BY ListedIds
  <1>5. Range(queue') = Range(queue) \union {i}
    BY <1>1, <1>3, AppendRange
  <1>6. nzb'[i] = z
    BY <1>1, <1>3
  <1>7. \A m \in Range(queue) \union history' : nzb'[m] = nzb[m]
    BY <1>1, <1>2, <1>3, <1>4
  <1>8. Stays' /\ Keeps
    BY <1>1, <1>5, <1>6, <1>7, StayJoined
  <1>9. /\ InFlight' = InFlight
        /\ \A m \in NzbIds : Phase'[m] =
              IF m = i THEN IF nzb'[i].post THEN "post" ELSE "queued"
              ELSE IF m \in history \ history' THEN "gone" ELSE Phase[m]
        /\ HasOutcome' =
              {o \in HasOutcome : o[1] \notin history \ history'}
              \union {o \in {i} \X (Files \X Segments) : nzb'[i].segs[o[2]] \in Terminal}
    BY <1>1, <1>5, <1>7, JoinedLifecycle
  <1>10. history \ history' = {h} /\ h # i
    BY <1>1, <1>2
  <1>11. Phase' = [Phase EXCEPT ![h] = "gone", ![i] = IF z.post THEN "post" ELSE "queued"]
    BY <1>1, <1>6, <1>9, <1>10 DEF Phase
  <1>12. HasOutcome' = (HasOutcome \ old) \union new
    BY <1>6, <1>9, <1>10
  <1>13. new \in {{}, {<<i, o[2]>> : o \in old}}
    <2>1. CASE \A x \in Files \X Segments : z.segs[x] \notin Terminal
      BY <2>1
    <2>2. CASE z.segs = nzb[h].segs
      <3>1. old = {o \in {h} \X (Files \X Segments) : nzb[h].segs[o[2]] \in Terminal}
        BY <1>1 DEF HasOutcome
      <3>2. ASSUME NEW o \in new PROVE o \in {<<i, b[2]>> : b \in old}
        <4>1. <<h, o[2]>> \in old /\ o = <<i, o[2]>>
          BY <2>2, <3>1
        <4>2. <<h, o[2]>>[2] = o[2]
          OBVIOUS
        <4> HIDE DEF old, new
        <4> QED BY <4>1, <4>2
      <3>3. ASSUME NEW b \in old PROVE <<i, b[2]>> \in new
        BY <2>2, <3>1
      <3>4. new = {<<i, b[2]>> : b \in old}
        BY <3>2, <3>3
      <3> QED BY <3>4
    <2> QED BY <2>1, <2>2
  <1>14. Phase[h] = "history"
    BY <1>1, <1>3 DEF Phase, PhaseOf, InQueue
  <1> HIDE DEF new
  <1>15. Lifecycle!Return(h, i)
    BY <1>2, <1>9, <1>11, <1>12, <1>13, <1>14 DEF Lifecycle!Return, Lifecycle!Of
  <1> QED BY <1>1, <1>8, <1>15 DEF Goes, Lifecycle!Next

LEMMA RequeuedNotices ==
    ASSUME StayInv, NEW h \in NzbIds, NEW z, Requeued(h, z), UNCHANGED pipeline
    PROVE  NoticesInv' /\ Notices' = Notices
  <1>0. Notices' = Notices
    BY DEF Notices, pipeline
  <1>1. /\ next_nzb_id \in NzbIds /\ next_nzb_id' = next_nzb_id + 1
        /\ queue' = Append(queue, next_nzb_id) /\ h \in history
        /\ nzb' = [nzb EXCEPT ![h] = Blank, ![next_nzb_id] = z]
    BY DEF Requeued, StayInv, IInv, TypeOK, NzbIds
  <1>2. /\ queue \in Seq(NzbIds) /\ nzb \in [NzbIds -> NzbRecord]
        /\ Range(queue) \intersect history = {}
    BY DEF StayInv, IInv, TypeOK, ListsInv, IdsAreUnique
  <1>3. Range(queue') = Range(queue) \union {next_nzb_id}
    BY <1>1, <1>2, AppendRange
  <1>4. next_nzb_id \notin Range(queue) /\ \A m \in Range(queue) : m \in NzbIds
    BY <1>1, NextIdIsNext, ListedIds
  <1>5. \A m \in Range(queue) : nzb'[m] = nzb[m]
    BY <1>1, <1>2, <1>4
  <1> QED BY <1>0, <1>1, <1>3, <1>5, NoticesJoined

LEMMA NoticesAreIds ==
    ASSUME StayInv
    PROVE  \A n \in Range(Notices) :
              /\ n \in NzbIds /\ n \in Int /\ n < next_nzb_id
              /\ InQueue(n) => nzb[n].post
  <1>1. /\ Range(completions) \subseteq NzbIds /\ Range(post_requests) \subseteq NzbIds
        /\ forwarding \in NzbIds \union {NoNzb}
        /\ post_current \in NzbIds \union {NoNzb}
    BY DEF StayInv, IInv, TypeOK, Range
  <1>2. Range(Notices) = Named(completions, forwarding, post_requests, post_current)
    BY NoticesNow DEF StayInv, IInv
  <1>3. Range(Notices) \subseteq NzbIds
    BY <1>1, <1>2 DEF Named
  <1>4. \A n \in NzbIds : n \in Int
    BY DEF NzbIds
  <1>5. \A n \in Range(Notices) : n < next_nzb_id /\ (InQueue(n) => nzb[n].post)
    BY DEF StayInv, NoticesInv
  <1> QED BY <1>3, <1>4, <1>5

LEMMA DoneIsTerminal ==
    ASSUME NEW z, Done(z)
    PROVE  /\ Consistent(z)
           /\ \A x \in Files \X Segments : z.segs[x] \in Terminal /\ z.segs[x] # "Running"
  <1>1. ASSUME NEW x \in Files \X Segments PROVE z.segs[x] \in Terminal
    <2>1. x[1] \in Files /\ x[2] \in Segments /\ x = <<x[1], x[2]>>
      OBVIOUS
    <2>2. z.segs[<<x[1], x[2]>>] \in Terminal
      BY <2>1 DEF Done, AllTerminal
    <2> QED BY <2>1, <2>2
  <1> QED BY <1>1 DEF Done, Consistent, Terminal

LEMMA HistoryReturnGoes ==
    ASSUME StayInv, NEW h \in NzbIds, HistoryReturn(h) PROVE Goes
  <1> DEFINE z == [nzb[h] EXCEPT !.paused = FALSE]
  <1>1. nzb[h] \in NzbRecord /\ h \in history
    BY DEF StayInv, IInv, TypeOK, HistoryReturn, Requeued
  <1>2. SameDownload(nzb[h], z)
    BY <1>1 DEF SameDownload, NzbRecord
  <1>3. Requeued(h, z) /\ UNCHANGED controls /\ OthersUnchanged
    BY DEF HistoryReturn
  <1> HIDE DEF z
  <1>4. UNCHANGED <<active, shutdown, worker, pipeline>>
    BY <1>3, OthersArePipeline DEF controls
  <1>5. HistoryOk(z)
    BY <1>1, <1>2, SameIsOk DEF StayInv, RecordsInv
  <1>6. /\ QueuedOk(z)
        /\ HealthFailed(z) \/ \A x \in Files \X Segments : z.segs[x] # "Running"
    <2>1. CASE HealthFailed(z)
      BY <2>1 DEF QueuedOk
    <2>2. CASE Done(z)
      BY <1>5, <2>2, DoneIsTerminal DEF QueuedOk, HistoryOk
    <2> QED BY <1>5, <2>1, <2>2 DEF HistoryOk
  <1>7. NoticesInv' /\ Notices' = Notices
    BY <1>3, <1>4, RequeuedNotices
  <1>8. z.segs = nzb[h].segs /\ Revived /\ ~z.post
    BY <1>2, <1>5 DEF SameDownload, Revived, HistoryOk
  <1> QED BY <1>3, <1>4, <1>6, <1>7, <1>8, RequeuedGoes

LEMMA HistoryProcessGoes ==
    ASSUME StayInv, TypeOK', NEW h \in NzbIds, HistoryProcess(h) PROVE Goes
  <1> DEFINE c == [f \in Files |-> TRUE]
             z == [nzb[h] EXCEPT !.paused = FALSE, !.delete_status = "None",
                                 !.completed = c, !.remaining_files = 0, !.post = TRUE]
             i == next_nzb_id
  <1>1. nzb[h] \in NzbRecord /\ h \in history
    BY DEF StayInv, IInv, TypeOK, HistoryProcess, Requeued
  <1>2. \A f \in Files : c[f]
    OBVIOUS
  <1>3. Requeued(h, z)
    BY DEF HistoryProcess
  <1> HIDE DEF c
  <1>4. /\ z.segs = nzb[h].segs /\ z.completed = c /\ z.post = TRUE
        /\ z.failed = nzb[h].failed /\ z.par_failed = nzb[h].par_failed
    BY <1>1 DEF NzbRecord
  <1> HIDE DEF z
  <1>5. /\ completions' \in {completions, Append(completions, i)}
        /\ UNCHANGED <<active, shutdown, worker, forwarding, post_requests, post_current>>
    BY DEF HistoryProcess, controls, slots
  <1>6. QueuedOk(z)
    <2>1. HistoryOk(nzb[h])
      BY <1>1 DEF StayInv, RecordsInv
    <2>2. HealthFailed(z) <=> HealthFailed(nzb[h])
      BY <1>4, SameVerdict
    <2>3. \A f : AllTerminal(z, f) <=> AllTerminal(nzb[h], f)
      BY <1>4, SegsSame
    <2>4. Done(nzb[h]) => Done(z)
      BY <1>2, <1>4, <2>3 DEF Done
    <2> QED BY <1>4, <2>1, <2>2, <2>4 DEF QueuedOk, HistoryOk
  <1>7. /\ i \in NzbIds /\ next_nzb_id' = i + 1 /\ queue' = Append(queue, i)
        /\ nzb' = [nzb EXCEPT ![h] = Blank, ![i] = z]
    BY <1>3 DEF Requeued, StayInv, IInv, TypeOK, NzbIds
  <1>8. /\ queue \in Seq(NzbIds) /\ nzb \in [NzbIds -> NzbRecord]
        /\ Range(queue) \intersect history = {}
    BY DEF StayInv, IInv, TypeOK, ListsInv, IdsAreUnique
  <1>9. /\ NoticesInv' /\ Range(Notices) \subseteq Range(Notices')
        /\ i \in Range(Notices') \/ Len(completions) >= CompletionCap
    <2>1. i \in Int /\ i \notin Range(Notices)
      BY <1>7, NoticesAreIds DEF NzbIds
    <2>2. /\ PostProcessedOnce' /\ Range(Notices') \subseteq Range(Notices) \union {i}
          /\ Range(Notices) \subseteq Range(Notices')
          /\ completions' = Append(completions, i) => i \in Range(Notices')
      BY <1>5, <1>7, <2>1, NoticeAdded
    <2>3. Range(queue') = Range(queue) \union {i}
      BY <1>7, <1>8, AppendRange
    <2>4. nzb'[i].post
      BY <1>4, <1>7, <1>8
    <2>5. \A n \in Range(queue) : n \in NzbIds /\ n # h /\ n # i
      BY <1>1, <1>7, <1>8, ListedIds, NextIdIsNext
    <2>6. \A n \in Range(queue) : nzb'[n] = nzb[n]
      BY <1>7, <1>8, <2>5
    <2>7. ASSUME NEW n \in Range(Notices')
          PROVE  n < next_nzb_id' /\ (InQueue(n)' => nzb'[n].post)
      <3>1. CASE n = i
        BY <1>7, <2>1, <2>4, <3>1
      <3>2. CASE n \in Range(Notices)
        <4>1. n \in Int /\ n < i /\ (InQueue(n) => nzb[n].post)
          BY <3>2, NoticesAreIds
        <4>2. n < next_nzb_id' /\ n # i
          BY <1>7, <2>1, <4>1
        <4> QED BY <2>3, <2>6, <4>1, <4>2 DEF InQueue
      <3> QED BY <2>2, <3>1, <3>2
    <2>8. completions' = Append(completions, i) \/ Len(completions) >= CompletionCap
      <3>1. Len(completions) \in Nat /\ CompletionCap \in Nat
        BY CoordinatorAssumption DEF StayInv, IInv, TypeOK
      <3> QED BY <3>1 DEF HistoryProcess
    <2> QED BY <2>2, <2>7, <2>8 DEF NoticesInv
  <1>10. ~Hopelessly(z)
    BY <1>4 DEF Hopelessly
  <1> QED BY <1>3, <1>4, <1>5, <1>6, <1>9, <1>10, RequeuedGoes

LEMMA HistoryRedownloadGoes ==
    ASSUME StayInv, NEW h \in NzbIds, HistoryRedownload(h) PROVE Goes
  <1> DEFINE z == Redownloaded(nzb[h])
             t == [x \in Files \X Segments |-> "Undefined"]
             c == [f \in Files |-> FALSE]
  <1>1. nzb[h] \in NzbRecord /\ h \in history
    BY DEF StayInv, IInv, TypeOK, HistoryRedownload, Requeued
  <1>2. (\A x \in Files \X Segments : t[x] = "Undefined") /\ (\A f \in Files : ~c[f])
    OBVIOUS
  <1>3. Requeued(h, z) /\ UNCHANGED controls /\ OthersUnchanged
    BY DEF HistoryRedownload
  <1> HIDE DEF t, c
  <1>4. z.segs = t /\ z.completed = c /\ z.failed = 0 /\ z.post = nzb[h].post
    BY <1>1 DEF Redownloaded, NzbRecord, t, c
  <1>5. z \in NzbRecord
    BY <1>1, RedownloadedType
  <1> HIDE DEF z
  <1>6. UNCHANGED <<active, shutdown, worker, pipeline>>
    BY <1>3, OthersArePipeline DEF controls
  <1>7. ~z.post /\ ~HealthFailed(z)
    BY <1>1, <1>4, <1>5, NothingLost DEF StayInv, RecordsInv, HistoryOk
  <1>8. QueuedOk(z)
    <2>1. 1 \in Segments
      BY CoordinatorAssumption DEF Segments
    <2>2. \A f \in Files : z.segs[<<f, 1>>] = "Undefined"
      BY <1>2, <1>4, <2>1
    <2>3. \A f \in Files : ~AllTerminal(z, f)
      BY <2>1, <2>2 DEF AllTerminal, Terminal
    <2> QED BY <1>2, <1>4, <1>7, <2>3 DEF QueuedOk, Consistent
  <1>9. \A x \in Files \X Segments : z.segs[x] # "Running" /\ z.segs[x] \notin Terminal
    BY <1>2, <1>4 DEF Terminal
  <1>10. NoticesInv' /\ Notices' = Notices
    BY <1>3, <1>6, RequeuedNotices
  <1>11. ~Hopelessly(z)
    BY <1>7 DEF Hopelessly
  <1> QED BY <1>3, <1>6, <1>7, <1>8, <1>9, <1>10, <1>11, RequeuedGoes

(* An NZB leaves at the user's word.                                       *)
LEMMA RemovalGoes ==
    ASSUME StayInv, NEW n \in NzbIds,
           RemoveNzb(n) \/ MoveToMissing(n) \/ HistoryDelete(n)
    PROVE  Goes
  <1>1. /\ TypeOK /\ IdsAreUnique /\ nzb \in [NzbIds -> NzbRecord]
        /\ Range(queue) \intersect history = {}
    BY DEF StayInv, IInv, TypeOK, ListsInv, IdsAreUnique
  <1>2. UNCHANGED <<next_nzb_id, controls>> /\ OthersUnchanged
        /\ nzb' = [nzb EXCEPT ![n] = Blank]
    BY DEF RemoveNzb, MoveToMissing, HistoryDelete
  <1>3. UNCHANGED <<next_nzb_id, active, shutdown, worker, pipeline>>
    BY <1>2, OthersArePipeline DEF controls
  <1>4. \A m \in NzbIds \ {n} : nzb'[m] = nzb[m]
    BY <1>1, <1>2
  <1>5. CASE HistoryDelete(n)
    <2>1. n \in history /\ history' = history \ {n} /\ queue' = queue
      BY <1>5 DEF HistoryDelete
    <2>2. Range(queue') = Range(queue) \ {n}
      BY <1>1, <2>1
    <2>3. Stays' /\ Keeps /\ Lifecycle!Remove(n)
      BY <1>3, <1>4, <2>1, <2>2, StayRemoved
    <2> QED BY <2>3 DEF Goes, Lifecycle!Next
  <1>6. CASE RemoveNzb(n) \/ MoveToMissing(n)
    <2>1. InQueue(n) /\ queue' = Without(n) /\ history' = history
      BY <1>6 DEF RemoveNzb, MoveToMissing
    <2>2. Range(queue') = Range(queue) \ {n} /\ n \in Range(queue)
      BY <1>1, <2>1, WithoutRange DEF InQueue
    <2>3. history' = history \ {n}
      BY <1>1, <2>1, <2>2
    <2>4. Stays' /\ Keeps /\ Lifecycle!Remove(n)
      <3>1. Taken
        BY <1>6 DEF Taken
      <3> QED BY <1>3, <1>4, <2>2, <2>3, <3>1, StayRemoved
    <2> QED BY <2>4 DEF Goes, Lifecycle!Next
  <1> QED BY <1>5, <1>6

-----------------------------------------------------------------------------
(* Steps that are none of the life cycle.                                  *)

LEMMA SameRecord == \A z : SameDownload(z, z)
  BY DEF SameDownload

LEMMA RecordGoes ==
    ASSUME StayInv, UNCHANGED <<queue, history, next_nzb_id, shutdown>>,
           NEW n \in NzbIds, NEW z, nzb' = [nzb EXCEPT ![n] = z],
           SameDownload(nzb[n], z), OthersUnchanged
    PROVE  Goes
  <1>1. UNCHANGED active /\ Transit' = Transit /\ Notices' = Notices
        /\ (PostProcessedOnce' <=> PostProcessedOnce)
    BY OthersArePipeline
  <1>2. nzb \in [NzbIds -> NzbRecord]
    BY DEF StayInv, IInv, TypeOK
  <1>3. \A m \in NzbIds : SameDownload(nzb[m], nzb'[m])
    BY <1>2, SameRecord
  <1>4. \A m \in Range(queue) \union history : SameDownload(nzb[m], nzb'[m])
    BY <1>3, ListedIds
  <1>5. PostProcessedOnce
    BY DEF StayInv, NoticesInv
  <1>6. Range(queue') = Range(queue)
    OBVIOUS
  <1> QED BY <1>1, <1>4, <1>5, <1>6, StayKept DEF Goes

LEMMA RecordCommandGoes ==
    ASSUME StayInv, NEW n \in NzbIds,
           \/ SetNzbPaused(n) \/ ParUnpause(n)
           \/ \E f \in Files : SetFilePaused(n, f)
           \/ \E p \in Priorities : SetPriority(n, p)
    PROVE  Goes
  <1>1. nzb[n] \in NzbRecord /\ nzb \in [NzbIds -> NzbRecord]
    BY DEF StayInv, IInv, TypeOK
  <1>2. UNCHANGED <<queue, history, next_nzb_id, shutdown>> /\ OthersUnchanged
    BY DEF SetNzbPaused, ParUnpause, SetFilePaused, SetPriority, controls
  <1>3. CASE SetNzbPaused(n)
    <2> DEFINE z == [nzb[n] EXCEPT !.paused = ~nzb[n].paused]
    <2>1. nzb' = [nzb EXCEPT ![n] = z]
      BY <1>1, <1>3 DEF SetNzbPaused
    <2>2. SameDownload(nzb[n], z)
      BY <1>1 DEF NzbRecord, SameDownload
    <2> QED BY <1>2, <2>1, <2>2, RecordGoes
  <1>4. CASE ParUnpause(n)
    <2> DEFINE g == [f \in Files |-> f \notin ParNamed /\ nzb[n].file_paused[f]]
               z == [nzb[n] EXCEPT !.file_paused = g]
    <2>1. nzb' = [nzb EXCEPT ![n] = z]
      BY <1>1, <1>4 DEF ParUnpause
    <2> HIDE DEF g
    <2>2. SameDownload(nzb[n], z)
      BY <1>1 DEF NzbRecord, SameDownload
    <2> QED BY <1>2, <2>1, <2>2, RecordGoes
  <1>5. ASSUME NEW f \in Files, SetFilePaused(n, f) PROVE Goes
    <2> DEFINE g == [nzb[n].file_paused EXCEPT ![f] = ~nzb[n].file_paused[f]]
               z == [nzb[n] EXCEPT !.file_paused = g]
    <2>1. nzb' = [nzb EXCEPT ![n] = z]
      BY <1>1, <1>5 DEF SetFilePaused
    <2> HIDE DEF g
    <2>2. SameDownload(nzb[n], z)
      BY <1>1 DEF NzbRecord, SameDownload
    <2> QED BY <1>2, <2>1, <2>2, RecordGoes
  <1>6. ASSUME NEW p \in Priorities, SetPriority(n, p) PROVE Goes
    <2> DEFINE z == [nzb[n] EXCEPT !.priority = p]
    <2>1. nzb' = [nzb EXCEPT ![n] = z]
      BY <1>1, <1>6 DEF SetPriority
    <2>2. SameDownload(nzb[n], z)
      BY <1>1 DEF NzbRecord, SameDownload
    <2> QED BY <1>2, <2>1, <2>2, RecordGoes
  <1> QED BY <1>3, <1>4, <1>5, <1>6

LEMMA MoveKeepsQueue ==
    ASSUME StayInv, NEW n \in NzbIds, MoveNzb(n)
    PROVE  Range(queue') = Range(queue)
  <1>1. /\ TypeOK /\ IdsAreUnique /\ InQueue(n)
    BY DEF StayInv, IInv, ListsInv, MoveNzb
  <1>2. PICK i \in DOMAIN queue : queue' = InsertAt(Without(n), i, n)
    BY DEF MoveNzb
  <1>3. /\ Without(n) \in Seq(NzbIds) /\ IsInjective(Without(n))
        /\ Range(Without(n)) = Range(queue) \ {n}
    BY <1>1, WithoutRange
  <1>4. Range(queue') = Range(Without(n)) \union {n}
    <2>1. i \in 1..(Len(Without(n)) + 1)
      <3> DEFINE j == CHOOSE k \in DOMAIN queue : queue[k] = n
      <3>1. j \in DOMAIN queue /\ queue \in Seq(NzbIds)
        BY <1>1 DEF InQueue, Range, TypeOK
      <3> HIDE DEF j
      <3>2. Len(RemoveAt(queue, j)) = Len(queue) - 1
        BY <3>1, RemoveAtElements
      <3>3. Without(n) = RemoveAt(queue, j)
        BY DEF Without, j
      <3> QED BY <1>2, <3>1, <3>2, <3>3
    <2>2. n \notin Range(Without(n))
      BY <1>3
    <2> QED BY <1>2, <1>3, <2>1, <2>2, InsertAtRange
  <1> QED BY <1>1, <1>3, <1>4 DEF InQueue

LEMMA ListCommandGoes ==
    ASSUME StayInv, PauseAll \/ ResumeAll \/ SetStrategy \/ \E n \in NzbIds : MoveNzb(n)
    PROVE  Goes
  <1>1. UNCHANGED <<history, next_nzb_id, shutdown>> /\ OthersUnchanged
    BY DEF PauseAll, ResumeAll, SetStrategy, MoveNzb, lists, controls
  <1>2. UNCHANGED active /\ Transit' = Transit /\ Notices' = Notices
        /\ (PostProcessedOnce' <=> PostProcessedOnce)
    BY <1>1, OthersArePipeline
  <1>3. PostProcessedOnce
    BY DEF StayInv, NoticesInv
  <1>4. Range(queue') = Range(queue)
    <2>1. CASE PauseAll \/ ResumeAll \/ SetStrategy
      BY <2>1 DEF PauseAll, ResumeAll, SetStrategy, lists
    <2>2. ASSUME NEW n \in NzbIds, MoveNzb(n) PROVE Range(queue') = Range(queue)
      BY <2>2, MoveKeepsQueue
    <2> QED BY <2>1, <2>2
  <1>5. \A m \in Range(queue) \union history : SameDownload(nzb[m], nzb'[m])
    <2>1. CASE nzb' = nzb
      BY <2>1, SameRecord
    <2>2. CASE ResumeAll
      <3>1. ASSUME NEW m \in NzbIds PROVE SameDownload(nzb[m], nzb'[m])
        <4>1. nzb[m] \in NzbRecord
          BY DEF StayInv, IInv, TypeOK
        <4>2. SameDownload(nzb[m], [nzb[m] EXCEPT !.paused = FALSE])
          BY <4>1 DEF SameDownload, NzbRecord
        <4>3. nzb'[m] \in {nzb[m], [nzb[m] EXCEPT !.paused = FALSE]}
          BY <2>2 DEF ResumeAll
        <4> QED BY <4>2, <4>3, SameRecord
      <3> QED BY <3>1, ListedIds
    <2> QED BY <2>1, <2>2 DEF PauseAll, SetStrategy, MoveNzb, lists
  <1> QED BY <1>1, <1>2, <1>3, <1>4, <1>5, StayKept DEF Goes

(* Nothing of the lists changes.                                           *)
LEMMA ListsGo ==
    ASSUME StayInv, UNCHANGED <<lists, active, shutdown>>, Transit' \subseteq Transit,
           PostProcessedOnce', Range(Notices') \subseteq Range(Notices),
           FinishUnreported \/ Range(queue) \intersect Range(Notices) \subseteq Range(Notices')
    PROVE  Goes
  <1>1. \A m \in Range(queue) \union history : SameDownload(nzb[m], nzb'[m])
    BY SameRecord DEF lists
  <1>2. Range(queue') = Range(queue) /\ UNCHANGED <<history, next_nzb_id, active, shutdown>>
    BY DEF lists
  <1> QED BY <1>1, <1>2, StayKept DEF Goes

LEMMA PipelineKept ==
    ASSUME StayInv, UNCHANGED pipeline
    PROVE  PostProcessedOnce' /\ Range(Notices') = Range(Notices)
  <1>1. Notices' = Notices
    BY DEF pipeline, Notices
  <1> QED BY <1>1 DEF PostProcessedOnce, StayInv, NoticesInv

LEMMA WorkerGoes ==
    ASSUME StayInv, FillDone \/ RefillTick \/ StartFetch \/ \E a \in ArticleIds : FetchDone(a)
    PROVE  Goes
  <1>1. UNCHANGED <<lists, active, shutdown, pipeline>>
    BY DEF FillDone, RefillTick, StartFetch, FetchDone, controls, slots
  <1>2. Transit' \subseteq Transit
    <2>1. CASE FillDone \/ RefillTick
      <3>1. UNCHANGED <<assignments, fetching>> /\ results' \in {results, <<>>}
        BY <2>1 DEF FillDone, RefillTick, worker
      <3>2. Reported' \subseteq Reported
        BY <3>1 DEF Reported
      <3> QED BY <3>1, <3>2 DEF Transit
    <2>2. CASE StartFetch
      <3>1. /\ assignments \in Seq(ArticleIds) /\ assignments # <<>>
            /\ fetching' = fetching \union {Head(assignments)}
            /\ assignments' = Tail(assignments) /\ Reported' = Reported
        BY <2>2 DEF StayInv, IInv, TypeOK, StartFetch, Reported
      <3>2. Head(assignments) \in Range(assignments)
            /\ Range(assignments') \subseteq Range(assignments)
        <4>1. /\ Tail(assignments) \in Seq(ArticleIds)
              /\ Len(Tail(assignments)) = Len(assignments) - 1
              /\ \A i \in 1..Len(Tail(assignments)) : Tail(assignments)[i] = assignments[i + 1]
          BY <3>1, HeadTailProperties
        <4>2. Len(assignments) \in Nat /\ Len(assignments) # 0
              /\ DOMAIN assignments = 1..Len(assignments)
          BY <3>1
        <4>3. Head(assignments) = assignments[1]
          BY <3>1
        <4>4. \A i \in DOMAIN Tail(assignments) :
                 i + 1 \in DOMAIN assignments /\ Tail(assignments)[i] = assignments[i + 1]
          BY <4>1, <4>2
        <4> QED BY <3>1, <4>2, <4>3, <4>4 DEF Range
      <3> QED BY <3>1, <3>2 DEF Transit
    <2>3. ASSUME NEW a \in ArticleIds, FetchDone(a) PROVE Transit' \subseteq Transit
      <3>1. a \in fetching /\ fetching' = fetching \ {a} /\ assignments' = assignments
        BY <2>3 DEF FetchDone
      <3>2. Reported' \subseteq Reported \union {a}
        <4>1. CASE results' = results
          BY <4>1 DEF Reported
        <4>2. CASE results' # results
          <5>1. PICK o \in Outcomes : results' = Append(results, [art |-> a, outcome |-> o])
            BY <2>3, <4>2 DEF FetchDone
          <5> DEFINE r == [art |-> a, outcome |-> o]
          <5>2. results \in Seq(DownloadResult) /\ r \in DownloadResult /\ r.art = a
            BY DEF StayInv, IInv, TypeOK, DownloadResult
          <5> HIDE DEF r
          <5>3. /\ results' \in Seq(DownloadResult) /\ Len(results') = Len(results) + 1
                /\ \A i \in 1..Len(results) : results'[i] = results[i]
                /\ results'[Len(results) + 1] = r
            BY <5>1, <5>2, AppendProperties DEF r
          <5>4. /\ Len(results) \in Nat /\ DOMAIN results = 1..Len(results)
                /\ DOMAIN results' = 1..(Len(results) + 1)
            BY <5>2, <5>3
          <5>5. \A i \in DOMAIN results' : i \in DOMAIN results \/ i = Len(results) + 1
            BY <5>4
          <5>6. \A i \in DOMAIN results' :
                   results'[i].art = a \/ (i \in DOMAIN results /\ results'[i] = results[i])
            BY <5>2, <5>3, <5>4, <5>5
          <5> QED BY <5>6 DEF Reported
        <4> QED BY <4>1, <4>2
      <3> QED BY <3>1, <3>2 DEF Transit
    <2> QED BY <2>1, <2>2, <2>3
  <1> QED BY <1>1, <1>2, PipelineKept, ListsGo

(* report_stage finds post_info where check_nzb_completion put it.         *)
LEMMA PipelineGoes ==
    ASSUME StayInv, TypeOK',
           ForwardTake \/ ForwardSend \/ PostTake \/ FinishUnreported \/ UpdatePostStage
    PROVE  Goes
  <1>1. CASE ForwardTake \/ ForwardSend \/ PostTake \/ FinishUnreported
    <2>1. UNCHANGED <<lists, active, shutdown, worker>>
      BY <1>1 DEF ForwardTake, ForwardSend, PostTake, FinishUnreported, controls, slots
    <2>2. Transit' = Transit
      BY <2>1 DEF Transit, worker, Reported
    <2> QED BY <1>1, <2>1, <2>2, NoticesMove, ListsGo
  <1>2. CASE UpdatePostStage
    <2>1. /\ UNCHANGED <<queue, history, next_nzb_id, shutdown>> /\ OthersUnchanged
          /\ post_current # NoNzb
          /\ nzb' = IF InQueue(post_current)
                    THEN [nzb EXCEPT ![post_current].post = TRUE] ELSE nzb
      BY <1>2 DEF UpdatePostStage, controls
    <2>2. nzb' = nzb
      <3>1. CASE InQueue(post_current)
        <4>1. post_current \in Range(Notices)
          <5>1. Range(Notices) = Named(completions, forwarding, post_requests, post_current)
            BY NoticesNow DEF StayInv, IInv
          <5> QED BY <2>1, <5>1 DEF Named
        <4>2. post_current \in NzbIds /\ nzb[post_current].post
          BY <3>1, <4>1, NoticesAreIds
        <4>3. nzb \in [NzbIds -> NzbRecord] /\ nzb[post_current] \in NzbRecord
          BY <4>2 DEF StayInv, IInv, TypeOK
        <4> DEFINE z == [nzb[post_current] EXCEPT !.post = TRUE]
        <4>4. nzb[post_current].post = TRUE
          BY <4>2, <4>3 DEF NzbRecord
        <4>5. z = nzb[post_current]
          BY <4>3, <4>4 DEF NzbRecord
        <4>6. nzb' = [nzb EXCEPT ![post_current] = z]
          BY <2>1, <3>1, <4>2, <4>3
        <4> QED BY <4>3, <4>5, <4>6
      <3>2. CASE ~InQueue(post_current)
        BY <2>1, <3>2
      <3> QED BY <3>1, <3>2
    <2>3. UNCHANGED <<active, pipeline>> /\ Transit' = Transit
      BY <2>1, OthersArePipeline
    <2> QED BY <2>1, <2>2, <2>3, PipelineKept, ListsGo DEF lists
  <1> QED BY <1>1, <1>2

-----------------------------------------------------------------------------
(* Steps of the life cycle of one NZB.                                     *)

(* One NZB changes its place or what is known of it.                       *)
LEMMA PhaseBecomes ==
    ASSUME StayInv, NEW n \in NzbIds, NEW p, UNCHANGED next_nzb_id,
           \A m \in NzbIds \ {n} :
              /\ m \in Range(queue') <=> m \in Range(queue)
              /\ m \in history' <=> m \in history
              /\ nzb'[m] = nzb[m],
           PhaseOf(n)' = p
    PROVE  Phase' = [Phase EXCEPT ![n] = p]
  <1>1. ASSUME NEW m \in NzbIds, m # n PROVE PhaseOf(m)' = PhaseOf(m)
    BY <1>1 DEF PhaseOf, InQueue
  <1> QED BY <1>1 DEF Phase

LEMMA OutcomeAdded ==
    ASSUME StayInv, NEW n \in Range(queue), NEW x \in Files \X Segments,
           Range(queue') \union history' = Range(queue) \union history,
           \A m \in NzbIds \ {n} : nzb'[m] = nzb[m],
           nzb'[n].segs[x] \in Terminal,
           \A y \in Files \X Segments : y # x => nzb'[n].segs[y] = nzb[n].segs[y]
    PROVE  HasOutcome' = HasOutcome \union {<<n, x>>}
  <1>1. ASSUME NEW o \in (Range(queue) \union history) \X (Files \X Segments)
        PROVE  nzb'[o[1]].segs[o[2]] \in Terminal
                  <=> nzb[o[1]].segs[o[2]] \in Terminal \/ o = <<n, x>>
    <2>1. o[1] \in NzbIds /\ o[2] \in Files \X Segments /\ o = <<o[1], o[2]>>
      BY ListedIds
    <2>2. CASE o[1] # n
      BY <2>1, <2>2
    <2>3. CASE o[1] = n /\ o[2] # x
      BY <2>1, <2>3
    <2>4. CASE o[1] = n /\ o[2] = x
      BY <2>1, <2>4
    <2> QED BY <2>2, <2>3, <2>4
  <1>2. <<n, x>> \in (Range(queue) \union history) \X (Files \X Segments)
    OBVIOUS
  <1> QED BY <1>1, <1>2 DEF HasOutcome

(* An article of an NZB that downloads starts, or goes back to wait.       *)
LEMMA SegChanged ==
    ASSUME StayInv, UNCHANGED <<queue, history, next_nzb_id>>,
           NEW n \in Range(queue), NEW x \in Files \X Segments,
           NEW st \in {"Undefined", "Running"},
           nzb[n].segs[x] \notin Terminal, ~nzb[n].post,
           nzb' = [nzb EXCEPT ![n].segs[x] = st]
    PROVE  /\ RecordsInv' /\ Phase' = Phase /\ HasOutcome' = HasOutcome
           /\ \A m \in NzbIds \ {n} : nzb'[m] = nzb[m]
           /\ ~nzb'[n].post
           /\ nzb'[n].segs[x] = st
           /\ \A y \in Files \X Segments : y # x => nzb'[n].segs[y] = nzb[n].segs[y]
           /\ HealthFailed(nzb'[n]) <=> HealthFailed(nzb[n])
  <1> DEFINE t == [nzb[n].segs EXCEPT ![x] = st]
             z == [nzb[n] EXCEPT !.segs = t]
  <1>1. /\ n \in NzbIds /\ nzb[n] \in NzbRecord
        /\ nzb[n].segs \in [Files \X Segments -> SegmentStatus]
        /\ nzb \in [NzbIds -> NzbRecord]
    BY ListedIds DEF StayInv, IInv, TypeOK, NzbRecord
  <1>2. t[x] = st /\ \A y \in Files \X Segments : y # x => t[y] = nzb[n].segs[y]
    BY <1>1
  <1>3. nzb' = [nzb EXCEPT ![n] = z]
    BY <1>1
  <1> HIDE DEF t
  <1>4. /\ z.segs = t /\ z.completed = nzb[n].completed /\ z.post = nzb[n].post
        /\ z.failed = nzb[n].failed /\ z.par_failed = nzb[n].par_failed
    BY <1>1 DEF NzbRecord
  <1>5. nzb'[n] = z /\ \A m \in NzbIds \ {n} : nzb'[m] = nzb[m]
    BY <1>1, <1>3
  <1> HIDE DEF z
  <1>6. st \notin Terminal
    BY DEF Terminal
  <1>7. ASSUME NEW y \in Files \X Segments
        PROVE  z.segs[y] \in Terminal <=> nzb[n].segs[y] \in Terminal
    <2>1. CASE y = x
      BY <1>2, <1>4, <1>6, <2>1
    <2>2. CASE y # x
      BY <1>2, <1>4, <2>2
    <2> QED BY <2>1, <2>2
  <1>8. \A f \in Files : AllTerminal(z, f) <=> AllTerminal(nzb[n], f)
    BY <1>7 DEF AllTerminal
  <1>9. HealthFailed(z) <=> HealthFailed(nzb[n])
    BY <1>4, SameVerdict
  <1>10. Consistent(z) <=> Consistent(nzb[n])
    BY <1>4, <1>8 DEF Consistent
  <1>11. QueuedOk(z)
    <2>1. QueuedOk(nzb[n])
      BY DEF StayInv, RecordsInv
    <2> QED BY <1>4, <1>9, <1>10, <2>1 DEF QueuedOk
  <1>12. n \notin history /\ \A m \in Range(queue) \union history : m \in NzbIds
    BY ListedIds DEF StayInv, IInv, ListsInv, IdsAreUnique
  <1>13. RecordsInv'
    BY <1>5, <1>11, <1>12 DEF StayInv, RecordsInv
  <1>14. ASSUME NEW m \in NzbIds PROVE PhaseOf(m)' = PhaseOf(m)
    <2>1. CASE m = n
      BY <1>4, <1>5, <2>1 DEF PhaseOf, InQueue
    <2>2. CASE m # n
      BY <1>5, <2>2 DEF PhaseOf, InQueue
    <2> QED BY <2>1, <2>2
  <1>15. Phase' = Phase
    BY <1>14 DEF Phase
  <1>16. ASSUME NEW o \in (Range(queue) \union history) \X (Files \X Segments)
         PROVE  nzb'[o[1]].segs[o[2]] \in Terminal <=> nzb[o[1]].segs[o[2]] \in Terminal
    <2>1. o[1] \in NzbIds /\ o[2] \in Files \X Segments
      BY <1>12
    <2>2. CASE o[1] = n
      BY <1>5, <1>7, <2>1, <2>2
    <2>3. CASE o[1] # n
      BY <1>5, <2>1, <2>3
    <2> QED BY <2>2, <2>3
  <1>17. HasOutcome' = HasOutcome
    BY <1>16 DEF HasOutcome
  <1>18. /\ ~nzb'[n].post /\ nzb'[n].segs[x] = st
         /\ \A y \in Files \X Segments : y # x => nzb'[n].segs[y] = nzb[n].segs[y]
         /\ HealthFailed(nzb'[n]) <=> HealthFailed(nzb[n])
    BY <1>2, <1>4, <1>5, <1>9
  <1> QED BY <1>5, <1>13, <1>15, <1>17, <1>18

LEMMA PartIsInjective ==
    ASSUME NEW a \in ArticleIds, NEW b \in ArticleIds
    PROVE  /\ Part(a) = Part(b) => a = b
           /\ Part(a) \in NzbIds \X (Files \X Segments)
           /\ Part(a)[1] = a[1] /\ Part(a)[2] = <<a[2], a[3]>>
  BY DEF ArticleIds, Part

LEMMA FinishGoes ==
    ASSUME StayInv, TypeOK', FinishPostProcessing PROVE Goes
  <1>0. PICK n : n = post_current
    OBVIOUS
  <1>1. /\ n # NoNzb /\ UNCHANGED <<next_nzb_id, active, shutdown, worker>>
    BY <1>0 DEF FinishPostProcessing, controls, slots
  <1>2. Transit' = Transit
    BY <1>1 DEF Transit, worker, Reported
  <1>3. /\ PostProcessedOnce' /\ Range(Notices') \subseteq Range(Notices)
        /\ FinishUnreported \/ Range(Notices) \subseteq Range(Notices') \union {n}
    BY <1>0, NoticesMove
  <1>4. CASE ~InQueue(n)
    <2>1. UNCHANGED lists
      BY <1>0, <1>1, <1>4 DEF FinishPostProcessing, lists
    <2>2. Range(queue) \intersect Range(Notices) \subseteq Range(Notices') \/ FinishUnreported
      BY <1>0, <1>3, <1>4 DEF InQueue
    <2> QED BY <1>1, <1>2, <1>3, <2>1, <2>2, ListsGo
  <1>5. CASE InQueue(n)
    <2>1. /\ queue' = Without(n) /\ history' = history \union {n}
          /\ nzb' = [nzb EXCEPT ![n].post = FALSE]
      BY <1>0, <1>5 DEF FinishPostProcessing
    <2>2. n \in Range(Notices)
      <3>1. Range(Notices) = Named(completions, forwarding, post_requests, post_current)
        BY NoticesNow DEF StayInv, IInv
      <3> QED BY <1>0, <1>1, <3>1 DEF Named
    <2>3. n \in NzbIds /\ nzb[n].post
      BY <1>5, <2>2, NoticesAreIds
    <2> DEFINE z == [nzb[n] EXCEPT !.post = FALSE]
    <2>4. nzb \in [NzbIds -> NzbRecord] /\ nzb[n] \in NzbRecord /\ TypeOK /\ IdsAreUnique
      BY <2>3 DEF StayInv, IInv, TypeOK, ListsInv
    <2>5. nzb'[n] = z /\ \A m \in NzbIds \ {n} : nzb'[m] = nzb[m]
      BY <2>1, <2>3, <2>4
    <2>6. /\ z.segs = nzb[n].segs /\ z.completed = nzb[n].completed /\ ~z.post
          /\ z.failed = nzb[n].failed /\ z.par_failed = nzb[n].par_failed
      BY <2>4 DEF NzbRecord
    <2> HIDE DEF z
    <2>7. HistoryOk(z)
      <3>1. HealthFailed(nzb[n]) \/ Done(nzb[n])
        BY <1>5, <2>3 DEF StayInv, RecordsInv, QueuedOk, InQueue
      <3>2. HealthFailed(z) <=> HealthFailed(nzb[n])
        BY <2>6, SameVerdict
      <3>3. \A f : AllTerminal(z, f) <=> AllTerminal(nzb[n], f)
        BY <2>6, SegsSame
      <3>4. Done(nzb[n]) => Done(z)
        BY <2>6, <3>3 DEF Done
      <3> QED BY <2>6, <3>1, <3>2, <3>4 DEF HistoryOk
    <2>8. Range(queue') = Range(queue) \ {n} /\ n \in Range(queue)
      BY <1>5, <2>1, <2>4, WithoutRange DEF InQueue
    <2>9. \A m \in Range(queue) \union history : m \in NzbIds
      BY ListedIds
    <2>10. n \notin history
      BY <2>4, <2>8 DEF IdsAreUnique
    <2>11. \A m \in Range(queue') \union history : nzb'[m] = nzb[m]
      BY <2>5, <2>8, <2>9, <2>10
    <2>12. RecordsInv'
      BY <2>1, <2>5, <2>7, <2>8, <2>11 DEF StayInv, RecordsInv
    <2>13. TransitInv'
      BY <1>1, <1>2, <2>8, <2>11 DEF StayInv, TransitInv, InQueue
    <2>14. NoticesInv'
      BY <1>1, <1>3, <2>8, <2>11 DEF StayInv, NoticesInv, InQueue
    <2>15. TrackedInv'
      BY <1>1, <2>8, <2>11 DEF StayInv, TrackedInv
    <2>16. PhaseOf(n)' = "history"
      BY <2>1, <2>8 DEF PhaseOf, InQueue
    <2>17. Phase' = [Phase EXCEPT ![n] = "history"]
      BY <1>1, <2>1, <2>3, <2>5, <2>8, <2>16, PhaseBecomes
    <2>18. InFlight' = InFlight
      BY <1>1 DEF InFlight, Active
    <2>19. HasOutcome' = HasOutcome
      <3>1. Range(queue') \union history' = Range(queue) \union history
        BY <2>1, <2>8
      <3>2. \A m \in Range(queue) \union history : nzb'[m].segs = nzb[m].segs
        BY <2>5, <2>6, <2>9
      <3> QED BY <3>1, <3>2 DEF HasOutcome
    <2>20. Phase[n] = "post"
      BY <1>5, <2>3 DEF Phase, PhaseOf
    <2>21. Lifecycle!Finish(n)
      BY <1>1, <2>17, <2>18, <2>19, <2>20 DEF Lifecycle!Finish
    <2>22. OutcomesKept
      BY <2>5, <2>6, <2>9 DEF OutcomesKept
    <2>23. NzbsKept
      BY <2>1, <2>8 DEF NzbsKept
    <2>24. VerdictsKept
      BY <2>8, <2>11 DEF VerdictsKept
    <2>25. NoticesKept
      BY <1>3, <2>8, <2>11 DEF NoticesKept, Untold
    <2> QED BY <2>3, <2>12, <2>13, <2>14, <2>15, <2>21, <2>22, <2>23, <2>24, <2>25
            DEF Goes, Stays, Keeps, Lifecycle!Next
  <1> QED BY <1>4, <1>5

LEMMA DispatchGoes ==
    ASSUME StayInv, DispatchArticle PROVE Goes
  <1>1. /\ TypeOK /\ ListsInv /\ ~shutdown
        /\ UNCHANGED <<queue, history, next_nzb_id, shutdown, fetching, results, pipeline>>
    BY DEF StayInv, IInv, DispatchArticle, CanDispatch, controls
  <1>2. PICK a \in ArticleIds, s \in Servers :
          /\ NextArticle(a)
          /\ assignments' = Append(assignments, a)
          /\ nzb' = [nzb EXCEPT ![a[1]].segs[<<a[2], a[3]>>] = "Running"]
          /\ active' = [active EXCEPT ![a] = s]
    BY DEF DispatchArticle
  <1> DEFINE n == a[1]
             x == <<a[2], a[3]>>
  <1>3. /\ n \in Range(queue) /\ nzb[n].segs[x] = "Undefined"
        /\ n \in NzbIds /\ x \in Files \X Segments /\ a = <<n, x[1], x[2]>>
    BY <1>1, <1>2, NextArticleIsNew DEF InQueue, ArticleIds
  <1>4. ~nzb[n].post
    <2>1. PICK i \in DOMAIN Passes(strategy) : FirstOf(Passes(strategy)[i], <<a[1], a[2]>>)
      BY <1>2 DEF NextArticle
    <2>2. <<a[1], a[2]>> \in Runnable(Passes(strategy)[i])
      BY <2>1 DEF FirstOf, Dispatchable
    <2> QED BY <2>2 DEF Runnable
  <1>5. nzb[n].segs[x] \notin Terminal
    BY <1>3 DEF Terminal
  <1>6. nzb' = [nzb EXCEPT ![n].segs[x] = "Running"]
    BY <1>2
  <1> HIDE DEF x
  <1>7. /\ RecordsInv' /\ Phase' = Phase /\ HasOutcome' = HasOutcome
        /\ \A m \in NzbIds \ {n} : nzb'[m] = nzb[m]
        /\ ~nzb'[n].post
        /\ nzb'[n].segs[x] = "Running"
        /\ \A y \in Files \X Segments : y # x => nzb'[n].segs[y] = nzb[n].segs[y]
        /\ HealthFailed(nzb'[n]) <=> HealthFailed(nzb[n])
    BY <1>1, <1>3, <1>4, <1>5, <1>6, SegChanged
  <1>8. a \notin Active /\ a \in ArticleIds /\ s # NoServer
    BY <1>1, <1>3, CoordinatorAssumption DEF ListsInv, ActiveIsRunning, Active, InQueue, x
  <1>9. /\ active'[a] = s
        /\ \A b \in ArticleIds : active[b] # NoServer => active'[b] # NoServer
        /\ Active' = Active \union {a}
    BY <1>1, <1>2, <1>8 DEF TypeOK, Active
  <1>10. Transit' \subseteq Transit \union {a}
    <2>1. assignments \in Seq(ArticleIds)
      BY <1>1 DEF TypeOK
    <2>2. Range(assignments') = Range(assignments) \union {a}
      <3>1. /\ assignments' \in Seq(ArticleIds) /\ Len(assignments') = Len(assignments) + 1
            /\ \A i \in 1..Len(assignments) : assignments'[i] = assignments[i]
            /\ assignments'[Len(assignments) + 1] = a
        BY <1>2, <2>1, AppendProperties
      <3>2. /\ Len(assignments) \in Nat /\ DOMAIN assignments = 1..Len(assignments)
            /\ DOMAIN assignments' = 1..(Len(assignments) + 1)
        BY <2>1, <3>1
      <3>3. \A i \in DOMAIN assignments' : i \in DOMAIN assignments \/ i = Len(assignments) + 1
        BY <3>2
      <3> QED BY <3>1, <3>2, <3>3 DEF Range
    <2> QED BY <1>1, <2>2 DEF Transit, Reported
  <1>11. \A m \in Range(queue) : m \in NzbIds /\ m < next_nzb_id
    BY ListedIds
  <1>12. TransitInv'
    <2>1. ASSUME NEW b \in Transit'
          PROVE  b[1] < next_nzb_id /\ (InQueue(b[1]) /\
                    nzb'[b[1]].segs[<<b[2], b[3]>>] \notin Terminal => ~nzb'[b[1]].post)
      <3>1. CASE b[1] = n
        BY <1>3, <1>7, <1>11, <3>1
      <3>2. CASE b[1] # n
        <4>1. b \in Transit
          BY <1>10, <3>2
        <4>2. InQueue(b[1]) => nzb'[b[1]] = nzb[b[1]]
          BY <1>7, <1>11, <3>2 DEF InQueue
        <4> QED BY <4>1, <4>2 DEF StayInv, TransitInv
      <3> QED BY <3>1, <3>2
    <2> QED BY <1>1, <2>1 DEF TransitInv, InQueue
  <1>13. Notices' = Notices
    BY <1>1 DEF Notices, pipeline
  <1>14. NoticesInv'
    <2>1. ASSUME NEW m \in Range(Notices)
          PROVE  m < next_nzb_id /\ (InQueue(m) => nzb'[m].post)
      <3>1. m \in NzbIds /\ m < next_nzb_id /\ (InQueue(m) => nzb[m].post)
        BY NoticesAreIds
      <3>2. InQueue(m) => m # n
        BY <1>4, <3>1
      <3> QED BY <1>7, <3>1, <3>2
    <2>2. PostProcessedOnce'
      BY <1>13 DEF StayInv, NoticesInv, PostProcessedOnce
    <2> QED BY <1>1, <1>13, <2>1, <2>2 DEF NoticesInv, InQueue
  <1>15. TrackedInv'
    <2>1. ASSUME NEW m \in Range(queue), ~nzb'[m].post, ~HealthFailed(nzb'[m]),
                 NEW y \in Files \X Segments, nzb'[m].segs[y] = "Running"
          PROVE  active'[<<m, y[1], y[2]>>] # NoServer
      <3>1. m \in NzbIds /\ <<m, y[1], y[2]>> \in ArticleIds
        BY <1>11 DEF ArticleIds
      <3>2. CASE m = n /\ y = x
        BY <1>3, <1>8, <1>9, <3>2
      <3>3. CASE m = n /\ y # x
        <4>1. active[<<m, y[1], y[2]>>] # NoServer
          BY <1>1, <1>4, <1>7, <2>1, <3>3 DEF StayInv, TrackedInv
        <4> QED BY <1>9, <3>1, <4>1
      <3>4. CASE m # n
        <4>1. nzb'[m] = nzb[m]
          BY <1>7, <3>1, <3>4
        <4>2. active[<<m, y[1], y[2]>>] # NoServer
          BY <1>1, <2>1, <4>1 DEF StayInv, TrackedInv
        <4> QED BY <1>9, <3>1, <4>2
      <3> QED BY <3>2, <3>3, <3>4
    <2> QED BY <1>1, <2>1 DEF TrackedInv
  <1>16. Part(a) \notin InFlight /\ InFlight' = InFlight \union {Part(a)}
    <2>1. \A b \in Active : Part(b) # Part(a)
      BY <1>8, PartIsInjective DEF Active
    <2> QED BY <1>9, <2>1 DEF InFlight
  <1>17. /\ Part(a)[1] = n /\ Part(a)[2] = x /\ Part(a) \in NzbIds \X (Files \X Segments)
    BY PartIsInjective DEF x
  <1>18. Part(a) \notin HasOutcome
    BY <1>5, <1>17 DEF HasOutcome
  <1>19. Phase[n] = "queued"
    BY <1>3, <1>4 DEF Phase, PhaseOf, InQueue
  <1>20. Lifecycle!Start(Part(a))
    BY <1>1, <1>7, <1>16, <1>17, <1>18, <1>19 DEF Lifecycle!Start
  <1>21. Lifecycle!Next
    BY <1>17, <1>20 DEF Lifecycle!Next, Lifecycle!Articles
  <1>22. OutcomesKept
    <2>1. ASSUME NEW m \in Range(queue), NEW y \in Files \X Segments,
                 nzb[m].segs[y] \in Terminal
          PROVE  nzb'[m].segs[y] = nzb[m].segs[y]
      <3>1. CASE m = n
        BY <1>5, <1>7, <2>1, <3>1
      <3>2. CASE m # n
        BY <1>7, <1>11, <3>2
      <3> QED BY <3>1, <3>2
    <2> QED BY <2>1 DEF OutcomesKept
  <1>23. NzbsKept
    BY <1>1 DEF NzbsKept
  <1>24. VerdictsKept
    BY <1>1, <1>4, <1>7, <1>11 DEF VerdictsKept, Hopelessly
  <1>25. NoticesKept
    BY <1>1, <1>7, <1>11, <1>13 DEF NoticesKept, Untold
  <1> QED BY <1>7, <1>12, <1>14, <1>15, <1>21, <1>22, <1>23, <1>24, <1>25
          DEF Goes, Stays, Keeps

LEMMA ShutdownGoes ==
    ASSUME StayInv, Shutdown PROVE Goes
  <1>1. /\ UNCHANGED <<lists, worker, pipeline>> /\ shutdown' = TRUE /\ Active' = {}
    BY DEF Shutdown, Active
  <1>2. Transit' = Transit /\ Notices' = Notices
    BY <1>1 DEF worker, pipeline, Transit, Notices, Reported
  <1>3. RecordsInv'
    BY <1>1 DEF StayInv, RecordsInv, lists
  <1>4. TransitInv'
    BY <1>1, <1>2 DEF StayInv, TransitInv, InQueue, lists
  <1>5. NoticesInv'
    BY <1>1, <1>2 DEF StayInv, NoticesInv, InQueue, PostProcessedOnce, lists
  <1>6. TrackedInv'
    BY <1>1 DEF TrackedInv
  <1>7. Phase' = Phase /\ HasOutcome' = HasOutcome
    BY <1>1 DEF Phase, PhaseOf, InQueue, HasOutcome, lists
  <1>8. InFlight' = {}
    BY <1>1 DEF InFlight
  <1>9. Lifecycle!Halt
    BY <1>1, <1>7, <1>8 DEF Lifecycle!Halt
  <1>10. Keeps
    BY <1>1, <1>2
    DEF Keeps, OutcomesKept, NzbsKept, VerdictsKept, NoticesKept, Untold, lists
  <1> QED BY <1>3, <1>4, <1>5, <1>6, <1>9, <1>10 DEF Goes, Stays, Lifecycle!Next

-----------------------------------------------------------------------------
(* A result arrives, for an article that was on its way unless a shutdown  *)
(* made the coordinator forget it.                                         *)

(* The common part of all results for the article a, and what is known     *)
(* before.                                                                 *)
Arrives(a) ==
    /\ a \in ArticleIds /\ a \in Transit /\ Transit' \subseteq Transit
    /\ active' = [active EXCEPT ![a] = NoServer]
    /\ a \in Active \/ shutdown
    /\ UNCHANGED <<next_nzb_id, shutdown, forwarding, post_requests, post_current>>

LEMMA ResultArrives ==
    ASSUME StayInv, HandleDownloadComplete, NEW a, a = Head(results).art,
           NEW x, x = <<a[2], a[3]>>, NEW o, o = Head(results).outcome
    PROVE  /\ Arrives(a) /\ x \in Files \X Segments
           /\ IgnoreResult(a[1], x) \/ ApplyOutcome(a[1], x, o)
  <1>1. /\ TypeOK /\ SlotsInv
        /\ results \in Seq(DownloadResult) /\ results # <<>> /\ results' = Tail(results)
    BY DEF StayInv, IInv, TypeOK, HandleDownloadComplete
  <1>2. Head(results) \in DownloadResult /\ 1 \in DOMAIN results /\ Head(results) = results[1]
    BY <1>1
  <1>3. a \in ArticleIds
    BY <1>2 DEF DownloadResult
  <1>4. x \in Files \X Segments
    BY <1>3 DEF ArticleIds
  <1>5. a \in Reported
    BY <1>2 DEF Reported
  <1>6. Reported' \subseteq Reported
    <2>1. /\ Tail(results) \in Seq(DownloadResult)
          /\ Len(Tail(results)) = Len(results) - 1
          /\ \A i \in 1..Len(Tail(results)) : Tail(results)[i] = results[i + 1]
      BY <1>1, HeadTailProperties
    <2>2. Len(results) \in Nat /\ DOMAIN results = 1..Len(results)
      BY <1>1
    <2>3. \A i \in DOMAIN Tail(results) :
             i + 1 \in DOMAIN results /\ Tail(results)[i] = results[i + 1]
      BY <2>1, <2>2
    <2> QED BY <1>1, <2>3 DEF Reported
  <1>7. Transit' \subseteq Transit
    BY <1>6 DEF Transit, HandleDownloadComplete
  <1>8. a \in Active \/ shutdown
    BY <1>1, <1>5 DEF SlotsInv, FlowIsExact
  <1>9. ReleaseSlot(a) /\ (IgnoreResult(a[1], x) \/ ApplyOutcome(a[1], x, o))
    BY DEF HandleDownloadComplete
  <1>10. UNCHANGED <<next_nzb_id, shutdown, forwarding, post_requests, post_current>>
    BY DEF HandleDownloadComplete
  <1> QED BY <1>3, <1>4, <1>5, <1>7, <1>8, <1>9, <1>10
          DEF Arrives, ReleaseSlot, Transit

LEMMA ArrivesInFlight ==
    ASSUME StayInv, NEW a, Arrives(a)
    PROVE  /\ InFlight' = InFlight \ {Part(a)}
           /\ Part(a) \in InFlight \/ shutdown
           /\ \A b \in ArticleIds : b # a => active'[b] = active[b]
           /\ a[1] \in NzbIds /\ Part(a)[1] = a[1] /\ Part(a)[2] = <<a[2], a[3]>>
           /\ Part(a) \in NzbIds \X (Files \X Segments)
  <1>1. active \in [ArticleIds -> Servers \union {NoServer}] /\ a \in ArticleIds
    BY DEF StayInv, IInv, TypeOK, Arrives
  <1>2. Active' = Active \ {a} /\ \A b \in ArticleIds : b # a => active'[b] = active[b]
    BY <1>1 DEF Arrives, Active
  <1>3. \A b \in Active : Part(b) = Part(a) => b = a
    BY <1>1, PartIsInjective DEF Active
  <1>4. InFlight' = InFlight \ {Part(a)}
    BY <1>2, <1>3 DEF InFlight
  <1>5. Part(a) \in InFlight \/ shutdown
    BY DEF Arrives, InFlight
  <1>6. a[1] \in NzbIds
    BY <1>1 DEF ArticleIds
  <1> QED BY <1>1, <1>2, <1>4, <1>5, <1>6, PartIsInjective

(* Ignored, or the article goes back to wait.                              *)
LEMMA DroppedGoes ==
    ASSUME StayInv, NEW a, Arrives(a), Stays', Keeps,
           Phase' = Phase, HasOutcome' = HasOutcome
    PROVE  Goes
  <1>1. /\ InFlight' = InFlight \ {Part(a)} /\ Part(a) \in NzbIds \X (Files \X Segments)
        /\ shutdown' = shutdown
    BY ArrivesInFlight DEF Arrives
  <1>2. CASE Part(a) \in InFlight
    <2>1. Lifecycle!Drop(Part(a))
      BY <1>1, <1>2 DEF Lifecycle!Drop
    <2> QED BY <1>1, <2>1 DEF Goes, Lifecycle!Next, Lifecycle!Articles
  <1>3. CASE Part(a) \notin InFlight
    BY <1>1, <1>3 DEF Goes, Abstract
  <1> QED BY <1>2, <1>3

LEMMA IgnoredGoes ==
    ASSUME StayInv, NEW a, Arrives(a), NEW x, x = <<a[2], a[3]>>,
           IgnoreResult(a[1], x)
    PROVE  Goes
  <1>1. /\ UNCHANGED <<queue, history, nzb, completions, next_nzb_id, shutdown>>
        /\ Transit' \subseteq Transit
    BY DEF IgnoreResult, Arrives
  <1>2. Notices' = Notices
    BY <1>1 DEF Arrives, Notices
  <1>3. RecordsInv' /\ TransitInv' /\ NoticesInv'
    <2>1. RecordsInv'
      BY <1>1 DEF StayInv, RecordsInv
    <2>2. TransitInv'
      BY <1>1 DEF StayInv, TransitInv, InQueue
    <2>3. NoticesInv'
      BY <1>1, <1>2 DEF StayInv, NoticesInv, InQueue, PostProcessedOnce
    <2> QED BY <2>1, <2>2, <2>3
  <1>4. TrackedInv'
    <2>1. ASSUME ~shutdown, NEW m \in Range(queue), ~nzb[m].post, ~HealthFailed(nzb[m]),
                 NEW y \in Files \X Segments, nzb[m].segs[y] = "Running"
          PROVE  active'[<<m, y[1], y[2]>>] # NoServer
      <3>1. active[<<m, y[1], y[2]>>] # NoServer
        BY <2>1 DEF StayInv, TrackedInv
      <3>2. <<m, y[1], y[2]>> \in ArticleIds
        BY ListedIds DEF ArticleIds
      <3>3. <<m, y[1], y[2]>> # a
        <4>1. SUFFICES ASSUME <<m, y[1], y[2]>> = a PROVE FALSE
          OBVIOUS
        <4>2. a[1] = m /\ x = y
          BY <4>1
        <4>3. nzb[m].segs[y] \in Terminal
          BY <2>1, <4>2 DEF IgnoreResult, InQueue
        <4> QED BY <2>1, <4>3 DEF Terminal
      <3> QED BY <3>1, <3>2, <3>3, ArrivesInFlight
    <2> QED BY <1>1, <2>1 DEF TrackedInv
  <1>5. Phase' = Phase /\ HasOutcome' = HasOutcome
    BY <1>1 DEF Phase, PhaseOf, InQueue, HasOutcome
  <1>6. Keeps
    BY <1>1, <1>2
    DEF Keeps, OutcomesKept, NzbsKept, VerdictsKept, NoticesKept, Untold
  <1> QED BY <1>3, <1>4, <1>5, <1>6, DroppedGoes DEF Stays

LEMMA BlockedSeg ==
    ASSUME StayInv, UNCHANGED next_nzb_id,
           NEW n \in Range(queue), NEW x \in Files \X Segments,
           nzb[n].segs[x] \notin Terminal, ~nzb[n].post, BlockDownloads(n, x)
    PROVE  /\ RecordsInv' /\ Phase' = Phase /\ HasOutcome' = HasOutcome
           /\ \A m \in NzbIds \ {n} : nzb'[m] = nzb[m]
           /\ ~nzb'[n].post
           /\ nzb'[n].segs[x] = "Undefined"
           /\ \A y \in Files \X Segments : y # x => nzb'[n].segs[y] = nzb[n].segs[y]
           /\ HealthFailed(nzb'[n]) <=> HealthFailed(nzb[n])
  <1>1. /\ UNCHANGED <<queue, history, next_nzb_id>>
        /\ nzb' = [nzb EXCEPT ![n].segs[x] = "Undefined"]
    BY DEF BlockDownloads
  <1> QED BY <1>1, SegChanged

LEMMA BlockedGoes ==
    ASSUME StayInv, NEW a, Arrives(a), NEW x \in Files \X Segments, x = <<a[2], a[3]>>,
           InQueue(a[1]), nzb[a[1]].segs[x] \notin Terminal, BlockDownloads(a[1], x)
    PROVE  Goes
  <1> DEFINE n == a[1]
  <1>1. /\ UNCHANGED <<queue, history, completions, next_nzb_id, shutdown>>
        /\ Transit' \subseteq Transit
        /\ nzb' = [nzb EXCEPT ![n].segs[x] = "Undefined"]
    BY DEF BlockDownloads, Arrives
  <1>2. n \in Range(queue) /\ ~nzb[n].post
    BY DEF StayInv, TransitInv, Arrives, InQueue
  <1>3. /\ RecordsInv' /\ Phase' = Phase /\ HasOutcome' = HasOutcome
        /\ \A m \in NzbIds \ {n} : nzb'[m] = nzb[m]
        /\ ~nzb'[n].post
        /\ nzb'[n].segs[x] = "Undefined"
        /\ \A y \in Files \X Segments : y # x => nzb'[n].segs[y] = nzb[n].segs[y]
        /\ HealthFailed(nzb'[n]) <=> HealthFailed(nzb[n])
    BY <1>1, <1>2, BlockedSeg
  <1>4. \A m \in Range(queue) : m \in NzbIds /\ m < next_nzb_id
    BY ListedIds
  <1>5. TransitInv'
    <2>1. ASSUME NEW b \in Transit
          PROVE  b[1] < next_nzb_id /\ (InQueue(b[1]) /\
                    nzb'[b[1]].segs[<<b[2], b[3]>>] \notin Terminal => ~nzb'[b[1]].post)
      <3>1. CASE b[1] = n
        BY <1>2, <1>3, <1>4, <3>1
      <3>2. CASE b[1] # n
        <4>1. InQueue(b[1]) => nzb'[b[1]] = nzb[b[1]]
          BY <1>3, <1>4, <3>2 DEF InQueue
        <4> QED BY <4>1 DEF StayInv, TransitInv
      <3> QED BY <3>1, <3>2
    <2> QED BY <1>1, <2>1 DEF TransitInv, InQueue
  <1>6. NoticesInv'
    <2>1. Notices' = Notices
      BY <1>1 DEF Arrives, Notices
    <2>2. ASSUME NEW m \in Range(Notices)
          PROVE  m < next_nzb_id /\ (InQueue(m) => nzb'[m].post)
      <3>1. m \in NzbIds /\ m < next_nzb_id /\ (InQueue(m) => nzb[m].post)
        BY NoticesAreIds
      <3>2. InQueue(m) => m # n
        BY <1>2, <3>1
      <3> QED BY <1>3, <3>1, <3>2
    <2>3. PostProcessedOnce'
      BY <2>1 DEF StayInv, NoticesInv, PostProcessedOnce
    <2> QED BY <1>1, <2>1, <2>2, <2>3 DEF NoticesInv, InQueue
  <1>7. TrackedInv'
    <2>1. ASSUME ~shutdown, NEW m \in Range(queue), ~nzb'[m].post, ~HealthFailed(nzb'[m]),
                 NEW y \in Files \X Segments, nzb'[m].segs[y] = "Running"
          PROVE  active'[<<m, y[1], y[2]>>] # NoServer
      <3>1. m \in NzbIds /\ <<m, y[1], y[2]>> \in ArticleIds
        BY <1>4 DEF ArticleIds
      <3>2. CASE m = n
        <4>1. y # x
          BY <1>3, <2>1, <3>2
        <4>2. active[<<m, y[1], y[2]>>] # NoServer
          BY <1>2, <1>3, <2>1, <3>2, <4>1 DEF StayInv, TrackedInv
        <4>3. <<m, y[1], y[2]>> # a
          BY <4>1
        <4> QED BY <3>1, <4>2, <4>3, ArrivesInFlight
      <3>3. CASE m # n
        <4>1. nzb'[m] = nzb[m]
          BY <1>3, <3>1, <3>3
        <4>2. active[<<m, y[1], y[2]>>] # NoServer
          BY <2>1, <4>1 DEF StayInv, TrackedInv
        <4>3. <<m, y[1], y[2]>> # a
          BY <3>3
        <4> QED BY <3>1, <4>2, <4>3, ArrivesInFlight
      <3> QED BY <3>2, <3>3
    <2> QED BY <1>1, <2>1 DEF TrackedInv
  <1>8. OutcomesKept
    <2>1. ASSUME NEW m \in Range(queue), NEW y \in Files \X Segments,
                 nzb[m].segs[y] \in Terminal
          PROVE  nzb'[m].segs[y] = nzb[m].segs[y]
      <3>1. CASE m = n
        BY <1>3, <2>1, <3>1
      <3>2. CASE m # n
        BY <1>3, <1>4, <3>2
      <3> QED BY <3>1, <3>2
    <2> QED BY <2>1 DEF OutcomesKept
  <1>9. NzbsKept
    BY <1>1 DEF NzbsKept
  <1>10. VerdictsKept
    BY <1>1, <1>2, <1>3, <1>4 DEF VerdictsKept, Hopelessly
  <1>11. NoticesKept
    <2>1. Notices' = Notices
      BY <1>1 DEF Arrives, Notices
    <2> QED BY <1>1, <1>3, <1>4, <2>1 DEF NoticesKept, Untold
  <1> QED BY <1>3, <1>5, <1>6, <1>7, <1>8, <1>9, <1>10, <1>11, DroppedGoes DEF Stays, Keeps

(* The article gets its outcome: what holds of its NZB's record whatever   *)
(* comes of it.                                                            *)
LEMMA SettledRecord ==
    ASSUME StayInv, NEW a, Arrives(a), NEW x \in Files \X Segments, x = <<a[2], a[3]>>,
           NEW n, n = a[1], NEW o, InQueue(n), nzb[n].segs[x] \notin Terminal,
           NEW z, z = Settled(nzb[n], x, o)
    PROVE  /\ n \in NzbIds /\ n \in Range(queue) /\ n \notin history
           /\ nzb[n] \in NzbRecord /\ ~nzb[n].post /\ QueuedOk(nzb[n])
           /\ z \in NzbRecord /\ ~z.post /\ z.segs[x] \in Terminal
           /\ \A y \in Files \X Segments : y # x => z.segs[y] = nzb[n].segs[y]
           /\ Phase[n] = "queued" /\ <<n, x>> \notin HasOutcome
           /\ Part(a) = <<n, x>>
           /\ \A y \in Files \X Segments : y # x => <<n, y[1], y[2]>> # a
           /\ n \notin Range(Notices)
  <1>1. /\ n \in NzbIds /\ n \in Range(queue) /\ nzb[n] \in NzbRecord
    BY ListedIds DEF InQueue
  <1>2. n \notin history
    BY <1>1 DEF StayInv, IInv, ListsInv, IdsAreUnique
  <1>3. ~nzb[n].post
    BY DEF StayInv, TransitInv, Arrives
  <1>4. QueuedOk(nzb[n])
    BY <1>1 DEF StayInv, RecordsInv
  <1>5. z \in NzbRecord /\ ~z.post /\ z.segs[x] \in Terminal
    BY <1>1, <1>3, SettledFields
  <1>6. \A y \in Files \X Segments : y # x => z.segs[y] = nzb[n].segs[y]
    BY <1>1, SettledSegs
  <1>7. Phase[n] = "queued"
    BY <1>1, <1>3 DEF Phase, PhaseOf
  <1>8. <<n, x>> \notin HasOutcome
    BY DEF HasOutcome
  <1>9. Part(a) = <<n, x>>
    BY DEF Part
  <1>10. \A y \in Files \X Segments : y # x => <<n, y[1], y[2]>> # a
    OBVIOUS
  <1>11. n \notin Range(Notices)
    BY <1>3, NoticesAreIds
  <1> QED BY <1>1, <1>2, <1>3, <1>4, <1>5, <1>6, <1>7, <1>8, <1>9, <1>10, <1>11

(* The life cycle takes the step Settle.                                   *)
LEMMA SettleIsStep ==
    ASSUME StayInv, NEW a, Arrives(a), Phase[a[1]] = "queued", Part(a) \notin HasOutcome,
           HasOutcome' = HasOutcome \union {Part(a)},
           NEW p \in {"queued", "post", "history"}, Phase' = [Phase EXCEPT ![a[1]] = p],
           p = "queued" => ~Lifecycle!Complete(a[1], HasOutcome'),
           p = "post" => Lifecycle!Complete(a[1], HasOutcome')
    PROVE  Lifecycle!Next
  <1>1. /\ InFlight' = InFlight \ {Part(a)} /\ (Part(a) \in InFlight \/ shutdown)
        /\ Part(a)[1] = a[1] /\ Part(a) \in NzbIds \X (Files \X Segments)
        /\ shutdown' = shutdown
    BY ArrivesInFlight DEF Arrives
  <1>2. Lifecycle!Settle(Part(a))
    BY <1>1 DEF Lifecycle!Settle
  <1> QED BY <1>1, <1>2 DEF Lifecycle!Next, Lifecycle!Articles

(* The NZB goes to the history, beyond repair.                             *)
LEMMA GivenUpGoes ==
    ASSUME StayInv, NEW a, Arrives(a), NEW x \in Files \X Segments, x = <<a[2], a[3]>>,
           NEW n, n = a[1], NEW o, InQueue(n), nzb[n].segs[x] \notin Terminal,
           SettleArticle(n, x, o), HealthFailed(Settled(nzb[n], x, o))
    PROVE  Goes
  <1> DEFINE z == Settled(nzb[n], x, o)
             y == [z EXCEPT !.delete_status = "Health"]
  <1>1. /\ n \in NzbIds /\ n \in Range(queue) /\ n \notin history
        /\ z \in NzbRecord /\ ~z.post /\ z.segs[x] \in Terminal
        /\ \A k \in Files \X Segments : k # x => z.segs[k] = nzb[n].segs[k]
        /\ Phase[n] = "queued" /\ <<n, x>> \notin HasOutcome
        /\ Part(a) = <<n, x>>
    BY SMTT(30), SettledRecord
  <1>2. /\ queue' = Without(n) /\ history' = history \union {n}
        /\ nzb' = [nzb EXCEPT ![n] = y] /\ completions' = completions
    BY DEF SettleArticle
  <1>3. HealthFailed(z)
    OBVIOUS
  <1> HIDE DEF z
  <1>4. /\ y.segs = z.segs /\ y.post = z.post
        /\ y.failed = z.failed /\ y.par_failed = z.par_failed
    BY <1>1 DEF NzbRecord
  <1> HIDE DEF y
  <1>5. HistoryOk(y)
    BY <1>1, <1>3, <1>4, SameVerdict DEF HistoryOk
  <1>6. nzb \in [NzbIds -> NzbRecord] /\ TypeOK /\ IdsAreUnique
    BY DEF StayInv, IInv, TypeOK, ListsInv
  <1>7. nzb'[n] = y /\ \A m \in NzbIds \ {n} : nzb'[m] = nzb[m]
    BY <1>1, <1>2, <1>6
  <1>8. Range(queue') = Range(queue) \ {n}
    BY <1>2, <1>6, WithoutRange
  <1>9. \A m \in Range(queue) \union history : m \in NzbIds
    BY ListedIds
  <1>10. \A m \in Range(queue') \union history : nzb'[m] = nzb[m]
    BY <1>1, <1>7, <1>8, <1>9
  <1>11. /\ UNCHANGED <<next_nzb_id, shutdown>> /\ Transit' \subseteq Transit
         /\ Notices' = Notices
    BY <1>2 DEF Arrives, Notices
  <1>12. RecordsInv'
    BY <1>2, <1>5, <1>7, <1>8, <1>10 DEF StayInv, RecordsInv
  <1>13. TransitInv'
    BY <1>8, <1>10, <1>11 DEF StayInv, TransitInv, InQueue
  <1>14. NoticesInv'
    BY <1>8, <1>10, <1>11 DEF StayInv, NoticesInv, InQueue, PostProcessedOnce
  <1>15. TrackedInv'
    <2>1. ASSUME ~shutdown, NEW m \in Range(queue'), ~nzb[m].post, ~HealthFailed(nzb[m]),
                 NEW k \in Files \X Segments, nzb[m].segs[k] = "Running"
          PROVE  active'[<<m, k[1], k[2]>>] # NoServer
      <3>1. active[<<m, k[1], k[2]>>] # NoServer
        BY <1>8, <2>1 DEF StayInv, TrackedInv
      <3>2. <<m, k[1], k[2]>> \in ArticleIds /\ <<m, k[1], k[2]>> # a
        BY <1>8, <1>9 DEF ArticleIds
      <3> QED BY <3>1, <3>2, ArrivesInFlight
    <2> QED BY <1>10, <1>11, <2>1 DEF TrackedInv
  <1>16. PhaseOf(n)' = "history"
    BY <1>2, <1>8 DEF PhaseOf, InQueue
  <1>17. Phase' = [Phase EXCEPT ![n] = "history"]
    BY <1>1, <1>2, <1>7, <1>8, <1>11, <1>16, PhaseBecomes
  <1>18. HasOutcome' = HasOutcome \union {<<n, x>>}
    <2>1. Range(queue') \union history' = Range(queue) \union history
      BY <1>1, <1>2, <1>8
    <2> QED BY <1>1, <1>4, <1>7, <2>1, OutcomeAdded
  <1>19. Lifecycle!Next
    <2>1. /\ Phase[a[1]] = "queued" /\ Part(a) \notin HasOutcome
          /\ HasOutcome' = HasOutcome \union {Part(a)}
          /\ Phase' = [Phase EXCEPT ![a[1]] = "history"]
      BY <1>1, <1>17, <1>18
    <2> QED BY <2>1, SettleIsStep
  <1>20. OutcomesKept
    <2>1. ASSUME NEW m \in Range(queue), NEW k \in Files \X Segments,
                 nzb[m].segs[k] \in Terminal
          PROVE  nzb'[m].segs[k] = nzb[m].segs[k]
      <3>1. CASE m = n
        <4>1. k # x
          BY <2>1, <3>1
        <4> QED BY <1>1, <1>4, <1>7, <3>1, <4>1
      <3>2. CASE m # n
        BY <1>7, <1>9, <3>2
      <3> QED BY <3>1, <3>2
    <2> QED BY <2>1 DEF OutcomesKept
  <1>21. NzbsKept
    BY <1>2, <1>8 DEF NzbsKept
  <1>22. VerdictsKept
    BY <1>8, <1>10 DEF VerdictsKept
  <1>23. NoticesKept
    BY <1>8, <1>10, <1>11 DEF NoticesKept, Untold
  <1> QED BY <1>12, <1>13, <1>14, <1>15, <1>19, <1>20, <1>21, <1>22, <1>23
          DEF Goes, Stays, Keeps

(* The NZB still downloads, or goes to post-processing.                    *)
LEMMA SettledGoes ==
    ASSUME StayInv, TypeOK', NEW a, Arrives(a),
           NEW x \in Files \X Segments, x = <<a[2], a[3]>>,
           NEW n, n = a[1], NEW o, InQueue(n), nzb[n].segs[x] \notin Terminal,
           SettleArticle(n, x, o), ~HealthFailed(Settled(nzb[n], x, o))
    PROVE  Goes
  <1> DEFINE z == Settled(nzb[n], x, o)
             c == CheckFileCompletion(z, x[1])
             y == IF AllCompleted(c) THEN [c EXCEPT !.post = TRUE] ELSE c
  <1>1. /\ n \in NzbIds /\ n \in Range(queue) /\ n \notin history
        /\ nzb[n] \in NzbRecord /\ ~nzb[n].post /\ QueuedOk(nzb[n])
        /\ z \in NzbRecord /\ z.segs[x] \in Terminal
        /\ \A k \in Files \X Segments : k # x => z.segs[k] = nzb[n].segs[k]
        /\ Phase[n] = "queued" /\ <<n, x>> \notin HasOutcome
        /\ Part(a) = <<n, x>>
        /\ \A k \in Files \X Segments : k # x => <<n, k[1], k[2]>> # a
        /\ n \notin Range(Notices)
    BY SMTT(30), SettledRecord
  <1>2. /\ ~HealthFailed(nzb[n]) /\ ~HealthFailed(c)
        /\ ~c.post /\ Consistent(c) /\ c.segs = z.segs
    BY <1>1, SettledStays
  <1>3. c \in NzbRecord
    BY <1>1, CheckFileCompletionType
  <1>4. /\ UNCHANGED <<queue, history>> /\ nzb' = [nzb EXCEPT ![n] = y]
        /\ completions' \in {completions, Append(completions, n)}
        /\ ~AllCompleted(c) => completions' = completions
    BY DEF SettleArticle, CheckNzbCompletion
  <1> HIDE DEF z, c
  <1>5. /\ y.segs = c.segs /\ y.completed = c.completed
        /\ y.post <=> AllCompleted(c)
        /\ y.failed = c.failed /\ y.par_failed = c.par_failed
    BY <1>2, <1>3 DEF NzbRecord
  <1> HIDE DEF y
  <1>6. ~HealthFailed(y)
    BY <1>2, <1>5, SameVerdict
  <1>7. \A f : AllTerminal(y, f) <=> AllTerminal(c, f)
    BY <1>5, SegsSame
  <1>8. IF AllCompleted(c) THEN Done(y) ELSE Consistent(y)
    BY <1>2, <1>5, <1>7 DEF Consistent, Done, AllCompleted
  <1>9. QueuedOk(y)
    BY <1>5, <1>8 DEF QueuedOk
  <1>10. nzb \in [NzbIds -> NzbRecord]
    BY DEF StayInv, IInv, TypeOK
  <1>11. nzb'[n] = y /\ \A m \in NzbIds \ {n} : nzb'[m] = nzb[m]
    BY <1>1, <1>4, <1>10
  <1>12. \A m \in Range(queue) \union history : m \in NzbIds /\ m < next_nzb_id
    BY ListedIds
  <1>13. /\ UNCHANGED <<next_nzb_id, shutdown, forwarding, post_requests, post_current>>
         /\ Transit' \subseteq Transit
    BY DEF Arrives
  <1>14. y.post => \A k \in Files \X Segments : y.segs[k] \in Terminal
    BY <1>5, <1>8, DoneIsTerminal
  <1>15. RecordsInv'
    BY <1>1, <1>4, <1>9, <1>11, <1>12 DEF StayInv, RecordsInv
  <1>16. TransitInv'
    <2>1. ASSUME NEW b \in Transit
          PROVE  b[1] < next_nzb_id /\ (InQueue(b[1]) /\
                    nzb'[b[1]].segs[<<b[2], b[3]>>] \notin Terminal => ~nzb'[b[1]].post)
      <3>1. b \in ArticleIds
        BY SMTT(30), ReportedArtsType DEF Transit, StayInv, IInv, TypeOK, Range
      <3>2. b[1] < next_nzb_id
        BY DEF StayInv, TransitInv
      <3>3. CASE b[1] = n
        <4>1. <<b[2], b[3]>> \in Files \X Segments
          BY <3>1 DEF ArticleIds
        <4> QED BY <1>11, <1>14, <3>2, <3>3, <4>1
      <3>4. CASE b[1] # n
        <4>1. InQueue(b[1]) => nzb'[b[1]] = nzb[b[1]]
          BY <1>11, <1>12, <3>4 DEF InQueue
        <4> QED BY <3>2, <4>1 DEF StayInv, TransitInv
      <3> QED BY <3>3, <3>4
    <2> QED BY <1>4, <1>13, <2>1 DEF TransitInv, InQueue
  <1>17. NoticesInv'
    <2>1. CASE ~AllCompleted(c)
      <3>1. Notices' = Notices
        BY <1>4, <1>13, <2>1 DEF Notices
      <3>2. ASSUME NEW m \in Range(Notices)
            PROVE  m < next_nzb_id /\ (InQueue(m) => nzb'[m].post)
        <4>1. m \in NzbIds /\ m # n /\ m < next_nzb_id /\ (InQueue(m) => nzb[m].post)
          BY <1>1, NoticesAreIds
        <4> QED BY <1>11, <4>1
      <3>3. PostProcessedOnce'
        BY <3>1 DEF StayInv, NoticesInv, PostProcessedOnce
      <3> QED BY <1>4, <1>13, <3>1, <3>2, <3>3 DEF NoticesInv, InQueue
    <2>2. CASE AllCompleted(c)
      <3>1. PostProcessedOnce' /\ Range(Notices') \subseteq Range(Notices) \union {n}
        BY <1>1, <1>4, <1>13, NoticeAdded
      <3>2. ASSUME NEW m \in Range(Notices')
            PROVE  m < next_nzb_id /\ (InQueue(m) => nzb'[m].post)
        <4>1. CASE m = n
          BY <1>1, <1>5, <1>11, <1>12, <2>2, <4>1
        <4>2. CASE m # n
          <5>1. m \in NzbIds /\ m < next_nzb_id /\ (InQueue(m) => nzb[m].post)
            BY <3>1, <4>2, NoticesAreIds
          <5> QED BY <1>11, <4>2, <5>1
        <4> QED BY <4>1, <4>2
      <3> QED BY <1>4, <1>13, <3>1, <3>2 DEF NoticesInv, InQueue
    <2> QED BY <2>1, <2>2
  <1>18. TrackedInv'
    <2>1. ASSUME ~shutdown, NEW m \in Range(queue), ~nzb'[m].post, ~HealthFailed(nzb'[m]),
                 NEW k \in Files \X Segments, nzb'[m].segs[k] = "Running"
          PROVE  active'[<<m, k[1], k[2]>>] # NoServer
      <3>1. m \in NzbIds /\ <<m, k[1], k[2]>> \in ArticleIds
        BY <1>12 DEF ArticleIds
      <3>2. CASE m = n
        <4>1. k # x
          BY <1>1, <1>2, <1>5, <1>11, <2>1, <3>2 DEF Terminal
        <4>2. nzb[n].segs[k] = "Running"
          BY <1>1, <1>2, <1>5, <1>11, <2>1, <3>2, <4>1
        <4>3. active[<<m, k[1], k[2]>>] # NoServer
          BY <1>1, <1>2, <2>1, <3>2, <4>2 DEF StayInv, TrackedInv
        <4>4. <<m, k[1], k[2]>> # a
          BY <1>1, <3>2, <4>1
        <4> QED BY <3>1, <4>3, <4>4, ArrivesInFlight
      <3>3. CASE m # n
        <4>1. nzb'[m] = nzb[m]
          BY <1>11, <3>1, <3>3
        <4>2. active[<<m, k[1], k[2]>>] # NoServer
          BY <2>1, <4>1 DEF StayInv, TrackedInv
        <4>3. <<m, k[1], k[2]>> # a
          BY <3>3
        <4> QED BY <3>1, <4>2, <4>3, ArrivesInFlight
      <3> QED BY <3>2, <3>3
    <2> QED BY <1>4, <1>13, <2>1 DEF TrackedInv
  <1> DEFINE p == IF AllCompleted(c) THEN "post" ELSE "queued"
  <1>19. Phase' = [Phase EXCEPT ![n] = p]
    <2>1. PhaseOf(n)' = p
      BY <1>1, <1>4, <1>5, <1>11 DEF PhaseOf, InQueue
    <2> HIDE DEF p
    <2> QED BY <1>1, <1>4, <1>11, <1>13, <2>1, PhaseBecomes
  <1>20. HasOutcome' = HasOutcome \union {<<n, x>>}
    BY <1>1, <1>2, <1>4, <1>5, <1>11, OutcomeAdded
  <1>21. \A k \in Files \X Segments : <<n, k>> \in HasOutcome' <=> y.segs[k] \in Terminal
    BY <1>1, <1>4, <1>11 DEF HasOutcome
  <1>22. p = "queued" => ~Lifecycle!Complete(a[1], HasOutcome')
    <2> SUFFICES ASSUME ~AllCompleted(c)
                 PROVE  \E k \in Files \X Segments : <<n, k>> \notin HasOutcome'
      BY DEF Lifecycle!Complete
    <2>1. PICK f \in Files : ~y.completed[f]
      BY <1>5 DEF AllCompleted
    <2>2. ~AllTerminal(y, f)
      BY <1>8, <2>1 DEF Consistent
    <2>3. PICK s \in Segments : y.segs[<<f, s>>] \notin Terminal
      BY <2>2 DEF AllTerminal
    <2> QED BY <1>21, <2>3
  <1>23. p = "post" => Lifecycle!Complete(a[1], HasOutcome')
    BY <1>5, <1>14, <1>21 DEF Lifecycle!Complete
  <1>24. p \in {"queued", "post", "history"}
    OBVIOUS
  <1> HIDE DEF p
  <1>25. Lifecycle!Next
    <2>1. /\ Phase[a[1]] = "queued" /\ Part(a) \notin HasOutcome
          /\ HasOutcome' = HasOutcome \union {Part(a)}
          /\ Phase' = [Phase EXCEPT ![a[1]] = p]
      BY <1>1, <1>19, <1>20
    <2> QED BY <1>22, <1>23, <1>24, <2>1, SettleIsStep
  <1>26. OutcomesKept
    <2>1. ASSUME NEW m \in Range(queue), NEW k \in Files \X Segments,
                 nzb[m].segs[k] \in Terminal
          PROVE  nzb'[m].segs[k] = nzb[m].segs[k]
      <3>1. CASE m = n
        <4>1. k # x
          BY <2>1, <3>1
        <4> QED BY <1>1, <1>2, <1>5, <1>11, <3>1, <4>1
      <3>2. CASE m # n
        BY <1>11, <1>12, <3>2
      <3> QED BY <3>1, <3>2
    <2> QED BY <2>1 DEF OutcomesKept
  <1>27. NzbsKept
    BY <1>4 DEF NzbsKept
  <1>28. VerdictsKept
    BY <1>4, <1>6, <1>11, <1>12 DEF VerdictsKept, Hopelessly
  <1>29. NoticesKept
    <2>1. CASE ~AllCompleted(c)
      <3>1. Notices' = Notices
        BY <1>4, <1>13, <2>1 DEF Notices
      <3> QED BY <1>4, <1>5, <1>11, <1>12, <2>1, <3>1 DEF NoticesKept, Untold
    <2>2. CASE AllCompleted(c)
      <3>1. /\ Range(Notices) \subseteq Range(Notices')
            /\ completions' = Append(completions, n) => n \in Range(Notices')
        BY <1>1, <1>4, <1>13, NoticeAdded
      <3>2. completions' = Append(completions, n) \/ Len(completions) >= CompletionCap
        <4>1. Len(completions) \in Nat /\ CompletionCap \in Nat
          BY CoordinatorAssumption DEF StayInv, IInv, TypeOK
        <4> QED BY <2>2, <4>1 DEF SettleArticle, CheckNzbCompletion, z, c
      <3> QED BY <1>1, <1>4, <1>11, <1>12, <3>1, <3>2 DEF NoticesKept, Untold
    <2> QED BY <2>1, <2>2
  <1> QED BY <1>15, <1>16, <1>17, <1>18, <1>25, <1>26, <1>27, <1>28, <1>29
          DEF Goes, Stays, Keeps

LEMMA ResultGoes ==
    ASSUME StayInv, TypeOK', HandleDownloadComplete PROVE Goes
  <1>1. PICK a : a = Head(results).art
    OBVIOUS
  <1>2. PICK x : x = <<a[2], a[3]>>
    OBVIOUS
  <1>3. PICK o : o = Head(results).outcome
    OBVIOUS
  <1>4. PICK n : n = a[1]
    OBVIOUS
  <1>5. /\ Arrives(a) /\ x \in Files \X Segments
        /\ IgnoreResult(n, x) \/ ApplyOutcome(n, x, o)
    BY <1>1, <1>2, <1>3, <1>4, ResultArrives
  <1>6. CASE IgnoreResult(n, x)
    BY <1>2, <1>4, <1>5, <1>6, IgnoredGoes
  <1>7. CASE ApplyOutcome(n, x, o) /\ o = "Blocked"
    <2>1. InQueue(n) /\ nzb[n].segs[x] \notin Terminal /\ BlockDownloads(n, x)
      BY <1>7 DEF ApplyOutcome
    <2> QED BY <1>2, <1>4, <1>5, <2>1, BlockedGoes
  <1>8. CASE ApplyOutcome(n, x, o) /\ o # "Blocked"
    <2>1. InQueue(n) /\ nzb[n].segs[x] \notin Terminal /\ SettleArticle(n, x, o)
      BY <1>8 DEF ApplyOutcome
    <2> QED BY <1>2, <1>4, <1>5, <2>1, GivenUpGoes, SettledGoes
  <1> QED BY <1>5, <1>6, <1>7, <1>8

-----------------------------------------------------------------------------
(* The invariant, and the implementation.                                  *)

LEMMA NextGoes ==
    ASSUME StayInv, TypeOK', [Next]_vars PROVE Goes
  <1>1. CASE FillDownloadSlots
    BY <1>1, DispatchGoes, WorkerGoes DEF FillDownloadSlots
  <1>2. CASE RefillTick
    BY <1>2, WorkerGoes
  <1>3. CASE Worker
    BY <1>3, WorkerGoes DEF Worker
  <1>4. CASE HandleDownloadComplete
    BY <1>4, ResultGoes
  <1>5. CASE QueueCommand
    <2>1. CASE AddNzb
      BY <2>1, AddNzbGoes
    <2>2. CASE PauseAll \/ ResumeAll \/ SetStrategy
      BY <2>2, ListCommandGoes
    <2>3. ASSUME NEW n \in NzbIds,
                 \/ RemoveNzb(n) \/ SetNzbPaused(n) \/ ParUnpause(n)
                 \/ MoveNzb(n) \/ MoveToMissing(n)
                 \/ \E f \in Files : SetFilePaused(n, f)
                 \/ \E p \in Priorities : SetPriority(n, p)
          PROVE  Goes
      BY <2>3, RemovalGoes, ListCommandGoes, RecordCommandGoes
    <2> QED BY <1>5, <2>1, <2>2, <2>3 DEF QueueCommand
  <1>6. CASE HistoryCommand
    <2>1. PICK h \in NzbIds : \/ HistoryReturn(h) \/ HistoryProcess(h)
                              \/ HistoryRedownload(h) \/ HistoryDelete(h)
      BY <1>6 DEF HistoryCommand
    <2> QED
      BY <2>1, HistoryReturnGoes, HistoryProcessGoes, HistoryRedownloadGoes, RemovalGoes
  <1>7. CASE Shutdown
    BY <1>7, ShutdownGoes
  <1>8. CASE PostProcessing
    BY <1>8, PipelineGoes, FinishGoes DEF PostProcessing
  <1>9. CASE UNCHANGED vars
    <2>1. UNCHANGED <<lists, active, shutdown, worker, pipeline>>
      BY <1>9 DEF vars, slots, controls
    <2>2. Transit' = Transit
      BY <2>1 DEF worker, Transit, Reported
    <2> QED BY <2>1, <2>2, PipelineKept, ListsGo
  <1> QED BY <1>1, <1>2, <1>3, <1>4, <1>5, <1>6, <1>7, <1>8, <1>9 DEF Next

LEMMA NextStay ==
    ASSUME StayInv, [Next]_vars
    PROVE  StayInv' /\ Keeps /\ [Lifecycle!Next]_(Lifecycle!vars)
  <1>1. IInv'
    BY NextInv DEF StayInv
  <1>2. Goes
    BY <1>1, NextGoes DEF IInv
  <1>3. Stays' /\ Keeps /\ (Lifecycle!Next \/ UNCHANGED Abstract)
    BY <1>2 DEF Goes
  <1>4. StayInv'
    BY <1>1, <1>3 DEF StayInv, Stays
  <1>5. UNCHANGED Abstract => UNCHANGED Lifecycle!vars
    BY DEF Abstract, Lifecycle!vars
  <1> QED BY <1>3, <1>4, <1>5

LEMMA InitStay == Init => StayInv /\ Lifecycle!Init
  <1> SUFFICES ASSUME Init PROVE StayInv /\ Lifecycle!Init
    OBVIOUS
  <1>1. IInv
    BY InitInv
  <1>2. /\ Range(queue) = {} /\ history = {} /\ Range(assignments) = {}
        /\ Reported = {} /\ Active = {}
    BY DEF Init, Range, Reported, Active
  <1>3. Notices = <<>>
    BY DEF Init, Notices
  <1>4. Range(Notices) = {} /\ IsInjective(Notices)
    BY <1>3 DEF Range, IsInjective
  <1>5. Transit = {}
    BY <1>2 DEF Transit, Init
  <1>6. StayInv
    BY <1>1, <1>2, <1>4, <1>5
    DEF StayInv, RecordsInv, TransitInv, NoticesInv, PostProcessedOnce, TrackedInv
  <1>7. \A n \in NzbIds : PhaseOf(n) = "unborn"
    BY <1>2 DEF Init, PhaseOf, InQueue, NzbIds
  <1>8. Phase = [n \in NzbIds |-> "unborn"]
    BY <1>7 DEF Phase
  <1>9. InFlight = {} /\ HasOutcome = {} /\ shutdown = FALSE
    BY <1>2 DEF InFlight, HasOutcome, Init
  <1> QED BY <1>6, <1>8, <1>9 DEF Lifecycle!Init

(* Besides the bookkeeping of IInv: the records of the queued and the      *)
(* finished NZBs say what became of their articles, no result that counts  *)
(* meets post-processing, and the pipeline knows of each NZB once.         *)
THEOREM StayInvCorrect == Spec => []StayInv
  <1>1. Init => StayInv
    BY InitStay
  <1>2. StayInv /\ [Next]_vars => StayInv'
    BY NextStay
  <1> QED BY <1>1, <1>2, PTL DEF Spec

(* Commands, results, removals, post-processing and returns in any order   *)
(* amount to steps of the life cycle.                                      *)
THEOREM LifecycleIsImplemented == Spec => ImplementsLifecycle
  <1>1. Init => StayInv /\ Lifecycle!Init
    BY InitStay
  <1>2. StayInv /\ [Next]_vars => StayInv' /\ [Lifecycle!Next]_(Lifecycle!vars)
    BY NextStay
  <1> QED BY <1>1, <1>2, PTL DEF Spec, ImplementsLifecycle, Lifecycle!Spec

(* No NZB is in the pipeline twice, from the completion channel to the     *)
(* post-processor: check_nzb_completion and process_history_item never     *)
(* announce an id that is on its way.                                      *)
THEOREM AnnouncedOnce == Spec => []PostProcessedOnce
  <1>1. StayInv => PostProcessedOnce
    BY DEF StayInv, NoticesInv
  <1> QED BY <1>1, StayInvCorrect, PTL

(* Once an NZB is handed to post-processing none of its articles is on its *)
(* way, so process_completion finds the writers of its files at rest.      *)
THEOREM NothingIsWrittenLate == Spec => []Lifecycle!NothingArrivesLate
  <1>1. ASSUME StayInv PROVE Lifecycle!NothingArrivesLate
    <2>1. SUFFICES ASSUME NEW a \in Active, Phase[Part(a)[1]] = "post" PROVE FALSE
      BY DEF Lifecycle!NothingArrivesLate, InFlight
    <2>2. a \in ArticleIds /\ a[1] \in NzbIds /\ active[a] # NoServer
      BY DEF Active, ArticleIds
    <2>3. InQueue(a[1]) /\ nzb[a[1]].post
      BY <2>1, <2>2 DEF Phase, PhaseOf, Part
    <2>4. nzb[a[1]].segs[<<a[2], a[3]>>] = "Running"
      BY <1>1, <2>2, <2>3 DEF StayInv, IInv, ListsInv, ActiveIsRunning
    <2>5. a \in Transit
      <3>1. ~shutdown
        BY <1>1, <2>2 DEF StayInv, IInv, SlotsInv, StopInv
      <3> QED BY <1>1, <3>1 DEF StayInv, IInv, SlotsInv, FlowIsExact, Transit
    <2> QED BY <1>1, <2>3, <2>4, <2>5 DEF StayInv, TransitInv, Terminal
  <1> QED BY <1>1, StayInvCorrect, PTL

(* What handle_download_complete recorded of an article stands: a late or  *)
(* repeated result, a move to the history, or any command but the removal  *)
(* of the NZB leaves it as it is.                                          *)
THEOREM OutcomesStayFinal == Spec => OutcomesAreFinal
  <1>1. StayInv /\ [Next]_vars => OutcomesKept
    BY NextStay DEF Keeps
  <1> QED BY <1>1, StayInvCorrect, PTL DEF Spec, OutcomesAreFinal, OutcomesKept

(* An NZB leaves the queue for the history or because the user removes it, *)
(* unless the user moves it next to an NZB that is not there.              *)
THEOREM NzbsLeaveKnowingly == Spec => [][NzbsKept]_vars
  <1>1. StayInv /\ [Next]_vars => NzbsKept
    BY NextStay DEF Keeps
  <1> QED BY <1>1, StayInvCorrect, PTL DEF Spec

(* So where no move names such a neighbour (the code loses the NZB then),  *)
(* no NZB is lost.                                                         *)
THEOREM NoNzbLeavesUnseen ==
    ASSUME "MoveToMissing" \notin UserCommands
    PROVE  Spec => NoNzbIsLost
  <1>1. ASSUME NEW m \in NzbIds PROVE ~MoveToMissing(m)
    BY DEF MoveToMissing, Command
  <1>2. StayInv /\ [Next]_vars
           => \A n \in Range(queue) \ Range(queue') :
                 n \in history' \/ \E m \in NzbIds : RemoveNzb(m)
    BY <1>1, NextStay DEF Keeps, NzbsKept, Taken
  <1> QED BY <1>2, StayInvCorrect, PTL DEF Spec, NoNzbIsLost

(* A running article of an NZB that still downloads is on its way, so its  *)
(* result will come; only an NZB that was given up, and came back from the *)
(* history as it was, may wait for an article that nobody fetches.         *)
THEOREM RunningIsUnderWay ==
    ASSUME "HistoryReturn" \notin UserCommands
    PROVE  Spec => []RunningIsTracked
  <1> DEFINE NoneHopeless == \A n \in Range(queue) : ~Hopelessly(nzb[n])
  <1>1. Init => NoneHopeless
    BY DEF Init, Range
  <1>2. StayInv /\ NoneHopeless /\ [Next]_vars => NoneHopeless'
    <2>1. ~Revived
      BY DEF Revived, HistoryReturn, Command
    <2> QED BY <2>1, NextStay DEF Keeps, VerdictsKept, Hopelessly
  <1>3. StayInv /\ NoneHopeless => RunningIsTracked
    BY DEF StayInv, TrackedInv, Hopelessly, RunningIsTracked
  <1> QED BY <1>1, <1>2, <1>3, StayInvCorrect, PTL DEF Spec

-----------------------------------------------------------------------------
(* The completion channel.                                                 *)

(* The pipeline loses no notice while the coordinator runs: only the       *)
(* try_send of complete_nzb or process_history_item that finds the channel *)
(* full leaves an NZB in post-processing that nobody was told of.          *)
THEOREM NoticesArrive == Spec => NoticesAreKept
  <1>1. ASSUME StayInv, [Next]_vars, NEW n \in NzbIds,
               Unnoticed(n)', ~Unnoticed(n), pc # "stopped"
        PROVE  n \notin Range(Notices) /\ Len(completions) >= CompletionCap
    <2>1. n \in Range(queue') /\ Untold(n)'
      BY <1>1 DEF Unnoticed, Untold, InQueue
    <2>2. ~(n \in Range(queue) /\ Untold(n))
      BY <1>1 DEF Unnoticed, Untold, InQueue
    <2>3. ~FinishUnreported
      BY <1>1 DEF FinishUnreported
    <2>4. NoticesKept
      BY <1>1, NextStay DEF Keeps
    <2> QED BY <2>1, <2>2, <2>3, <2>4 DEF NoticesKept
  <1>2. StayInv /\ [Next]_vars
           => \A n \in NzbIds :
                 Unnoticed(n)' /\ ~Unnoticed(n) /\ pc # "stopped"
                 => n \notin Range(Notices) /\ Len(completions) >= CompletionCap
    BY <1>1
  <1> QED BY <1>2, StayInvCorrect, PTL DEF Spec, NoticesAreKept

-----------------------------------------------------------------------------
(* Force first.                                                            *)

LEMMA OnlyDispatchStarts ==
    ASSUME StayInv, [Next]_vars, ~DispatchArticle, NEW a \in ArticleIds,
           active[a] = NoServer
    PROVE  active'[a] = NoServer
  <1>1. CASE FillDone \/ RefillTick \/ Worker \/ PostProcessing \/ UNCHANGED vars
    BY <1>1 DEF FillDone, RefillTick, Worker, StartFetch, FetchDone, PostProcessing,
                ForwardTake, ForwardSend, PostTake, UpdatePostStage,
                FinishPostProcessing, FinishUnreported, OthersUnchanged, slots, vars
  <1>2. CASE QueueCommand
    BY <1>2 DEF QueueCommand, AddNzb, PauseAll, ResumeAll, SetStrategy, RemoveNzb,
                SetNzbPaused, ParUnpause, MoveNzb, MoveToMissing, SetFilePaused,
                SetPriority, OthersUnchanged, slots
  <1>3. CASE HistoryCommand
    BY <1>3 DEF HistoryCommand, HistoryReturn, HistoryProcess, HistoryRedownload,
                HistoryDelete, OthersUnchanged, slots
  <1>4. CASE Shutdown
    BY <1>4 DEF Shutdown
  <1>5. CASE HandleDownloadComplete
    <2>1. PICK b : b = Head(results).art
      OBVIOUS
    <2>2. PICK x : x = <<b[2], b[3]>>
      OBVIOUS
    <2>3. PICK o : o = Head(results).outcome
      OBVIOUS
    <2>4. Arrives(b)
      BY <1>5, <2>1, <2>2, <2>3, ResultArrives
    <2>5. active' = [active EXCEPT ![b] = NoServer] /\ b \in ArticleIds
      BY <2>4 DEF Arrives
    <2>6. active \in [ArticleIds -> Servers \union {NoServer}]
      BY DEF StayInv, IInv, TypeOK
    <2> QED BY <2>5, <2>6
  <1> QED BY <1>1, <1>2, <1>3, <1>4, <1>5 DEF Next, FillDownloadSlots

LEMMA OnlyCommandsSetStrategy ==
    ASSUME [Next]_vars
    PROVE  strategy' = strategy \/ strategy' \in Strategies
  <1>1. CASE FillDownloadSlots \/ RefillTick \/ Worker \/ HandleDownloadComplete \/ Shutdown
             \/ PostProcessing \/ UNCHANGED vars
    BY <1>1 DEF FillDownloadSlots, DispatchArticle, FillDone, RefillTick, Worker, StartFetch,
                FetchDone, HandleDownloadComplete, Shutdown, PostProcessing, ForwardTake,
                ForwardSend, PostTake, UpdatePostStage, FinishPostProcessing,
                FinishUnreported, controls, vars
  <1>2. CASE QueueCommand
    BY <1>2 DEF QueueCommand, AddNzb, PauseAll, ResumeAll, SetStrategy, RemoveNzb,
                SetNzbPaused, ParUnpause, MoveNzb, MoveToMissing, SetFilePaused,
                SetPriority, controls
  <1>3. CASE HistoryCommand
    BY <1>3 DEF HistoryCommand, HistoryReturn, HistoryProcess, HistoryRedownload,
                HistoryDelete, controls
  <1> QED BY <1>1, <1>2, <1>3 DEF Next

(* With the default strategy, and Force the highest of the priorities as   *)
(* in the code's enumeration, next_article passes over no file of a Force  *)
(* NZB that it could take.                                                 *)
THEOREM ForceGoesFirst ==
    ASSUME Strategies \subseteq {"Sequential"},
           \A p \in Priorities : p <= ForcePriority
    PROVE  Spec => ForceIsFirst
  <1> DEFINE Default == strategy = "Sequential"
             Fair == \A a \in ArticleIds :
                        active[a] = NoServer /\ active'[a] # NoServer
                           /\ nzb[a[1]].priority # ForcePriority
                        => \A k \in Dispatchable(Files) : nzb[k[1]].priority # ForcePriority
  <1>1. Init => Default
    BY DEF Init
  <1>2. Default /\ [Next]_vars => Default'
    BY OnlyCommandsSetStrategy
  <1>3. StayInv /\ Default /\ [Next]_vars => Fair
    <2> SUFFICES ASSUME StayInv, Default, [Next]_vars, NEW a \in ArticleIds,
                        active[a] = NoServer, active'[a] # NoServer,
                        nzb[a[1]].priority # ForcePriority,
                        NEW k \in Dispatchable(Files)
                 PROVE  nzb[k[1]].priority # ForcePriority
      OBVIOUS
    <2>1. DispatchArticle
      BY OnlyDispatchStarts
    <2>2. PICK b \in ArticleIds, s \in Servers :
             NextArticle(b) /\ active' = [active EXCEPT ![b] = s]
      BY <2>1 DEF DispatchArticle
    <2>3. active \in [ArticleIds -> Servers \union {NoServer}]
          /\ nzb \in [NzbIds -> NzbRecord]
      BY DEF StayInv, IInv, TypeOK
    <2>4. b = a
      BY <2>2, <2>3
    <2>5. Passes(strategy) = <<Files>>
      BY DEF Passes
    <2>6. FirstOf(Files, <<a[1], a[2]>>)
      BY <2>2, <2>4, <2>5 DEF NextArticle
    <2>7. k[1] \in NzbIds /\ a[1] \in NzbIds
      BY DEF Dispatchable, Runnable, ArticleIds
    <2>8. /\ nzb[k[1]].priority \in Priorities /\ nzb[a[1]].priority \in Priorities
          /\ Priorities \subseteq Int
      BY <2>3, <2>7, CoordinatorAssumption DEF NzbRecord
    <2>9. CASE k = <<a[1], a[2]>>
      BY <2>9
    <2>10. CASE k # <<a[1], a[2]>>
      <3>1. Precedes(<<a[1], a[2]>>, k)
        BY <2>6, <2>10 DEF FirstOf
      <3>2. \/ nzb[a[1]].priority > nzb[k[1]].priority
            \/ nzb[a[1]].priority = nzb[k[1]].priority
            \/ a[1] = k[1]
        BY <3>1 DEF Precedes
      <3>3. PICK p \in Int : p = nzb[a[1]].priority
        BY <2>8
      <3>4. PICK q \in Int : q = nzb[k[1]].priority
        BY <2>8
      <3>5. p <= ForcePriority /\ ForcePriority \in Int /\ p # ForcePriority
        BY <2>8, <3>3, CoordinatorAssumption
      <3>6. p > q \/ p = q
        BY <3>2, <3>3, <3>4
      <3>7. q # ForcePriority
        BY <3>5, <3>6
      <3> QED BY <3>4, <3>7
    <2> QED BY <2>9, <2>10
  <1> QED BY <1>1, <1>2, <1>3, StayInvCorrect, PTL DEF Spec, ForceIsFirst
-----------------------------------------------------------------------------
(* The counters of an NZB are exact, and the health check that reads them  *)
(* gives up the NZBs it should and no other, where no NZB is downloaded    *)
(* again: HistoryRedownload keeps two counters of the first download.      *)

Listed == Range(queue) \union history

FilesAreCounted(z) == z.remaining_files = Cardinality({f \in Files : ~z.completed[f]})
VerdictHolds(z) == z.delete_status = "Health" => HealthFailed(z)
RecordOk(z) == ArticleCounters(z) /\ FilesAreCounted(z) /\ VerdictHolds(z)

(* The deleted status outlives a return to the queue, so that the verdict  *)
(* it stands for has to be known of every NZB, not only of a new one of    *)
(* the history.                                                            *)
Counters == \A n \in Listed : RecordOk(nzb[n])

(* What the counters count is the same.                                    *)
SameCounts(z, y) ==
    /\ y.success = z.success /\ y.failed = z.failed /\ y.par_failed = z.par_failed
    /\ y.completed = z.completed /\ y.remaining_files = z.remaining_files
    /\ y.delete_status = z.delete_status
    /\ \A x \in Files \X Segments :
          y.segs[x] = z.segs[x] \/ (y.segs[x] \notin Terminal /\ z.segs[x] \notin Terminal)

(* Where a step leads the records of the listed NZBs: they count what they *)
(* counted, or the count is right again, and what the health check would   *)
(* give up enters the queue from the history only.                         *)
Back == \E h \in NzbIds : HistoryReturn(h) \/ HistoryProcess(h)
CountsKept ==
    /\ \A n \in Range(queue') :
          \/ \E m \in Range(queue) : SameCounts(nzb[m], nzb'[n])
          \/ RecordOk(nzb'[n]) /\ (Back \/ ~HealthFailed(nzb'[n]))
    /\ \A n \in history' :
          (\E m \in Listed : SameCounts(nzb[m], nzb'[n])) \/ RecordOk(nzb'[n])
-----------------------------------------------------------------------------
(* Counting.                                                               *)

LEMMA SegsAreFinite ==
    /\ IsFiniteSet(Files) /\ Cardinality(Files) = NumFiles
    /\ \A z, S : IsFiniteSet(SegsWith(z, S))
  <1>1. /\ IsFiniteSet(Files) /\ Cardinality(Files) = NumFiles
        /\ IsFiniteSet(Segments)
    BY CoordinatorAssumption, FS_Interval DEF Files, Segments
  <1>2. IsFiniteSet(Files \X Segments)
    BY <1>1, FS_Product
  <1>3. \A z, S : SegsWith(z, S) \subseteq Files \X Segments
    BY DEF SegsWith
  <1> QED BY <1>1, <1>2, <1>3, FS_Subset

LEMMA CountsSame ==
    ASSUME NEW z, NEW y, SameCounts(z, y)
    PROVE  /\ RecordOk(z) <=> RecordOk(y)
           /\ HealthFailed(z) <=> HealthFailed(y)
  <1>1. HealthFailed(z) <=> HealthFailed(y)
    BY SameVerdict DEF SameCounts
  <1>2. \A x \in Files \X Segments :
           /\ z.segs[x] = "Finished" <=> y.segs[x] = "Finished"
           /\ z.segs[x] = "Failed" <=> y.segs[x] = "Failed"
    BY DEF SameCounts, Terminal
  <1>3. SegsWith(z, {"Finished"}) = SegsWith(y, {"Finished"})
    BY <1>2 DEF SegsWith
  <1>4. SegsWith(z, {"Failed"}) = SegsWith(y, {"Failed"})
    BY <1>2 DEF SegsWith
  <1>5. ArticleCounters(z) <=> ArticleCounters(y)
    BY <1>3, <1>4 DEF ArticleCounters, SameCounts
  <1>6. FilesAreCounted(z) <=> FilesAreCounted(y)
    BY DEF FilesAreCounted, SameCounts
  <1>7. VerdictHolds(z) <=> VerdictHolds(y)
    BY <1>1 DEF VerdictHolds, SameCounts
  <1> QED BY <1>1, <1>5, <1>6, <1>7 DEF RecordOk

LEMMA OneMore ==
    ASSUME NEW S, NEW T, NEW x, IsFiniteSet(S), x \notin S,
           \A k : k \in T <=> k \in S \/ k = x
    PROVE  Cardinality(T) = Cardinality(S) + 1
  <1>1. T = S \union {x}
    OBVIOUS
  <1> QED BY <1>1, FS_AddElement

(* A result adds its article to one count, or to two.                      *)
LEMMA SettledCounts ==
    ASSUME NEW z \in NzbRecord, NEW x \in Files \X Segments, NEW o,
           ArticleCounters(z), z.segs[x] \notin Terminal,
           NEW y, y = Settled(z, x, o)
    PROVE  /\ ArticleCounters(y)
           /\ y.delete_status = z.delete_status
           /\ y.remaining_files = z.remaining_files
  <1>1. /\ z.segs \in [Files \X Segments -> SegmentStatus]
        /\ z.success \in Nat /\ z.failed \in Nat /\ z.par_failed \in Nat
    BY DEF NzbRecord
  <1>2. /\ IsFiniteSet(SegsWith(z, {"Finished"})) /\ IsFiniteSet(SegsWith(z, {"Failed"}))
        /\ x \notin SegsWith(z, {"Finished"}) /\ x \notin SegsWith(z, {"Failed"})
    BY SegsAreFinite DEF SegsWith, Terminal
  <1> DEFINE P(S) == {k \in S : k[1] \in ParNamed}
  <1>3. CASE o = "Success"
    <2> DEFINE t == [z.segs EXCEPT ![x] = "Finished"]
               s == z.success + 1
               w == [z EXCEPT !.segs = t, !.success = s]
    <2>1. y = w
      BY <1>3 DEF Settled
    <2>2. t[x] = "Finished" /\ \A k \in Files \X Segments : k # x => t[k] = z.segs[k]
      BY <1>1
    <2> HIDE DEF t, s
    <2>3. /\ w.segs = t /\ w.success = s /\ w.failed = z.failed
          /\ w.par_failed = z.par_failed /\ w.delete_status = z.delete_status
          /\ w.remaining_files = z.remaining_files
      BY DEF NzbRecord
    <2> HIDE DEF w
    <2>4. \A k : k \in SegsWith(y, {"Finished"}) <=> k \in SegsWith(z, {"Finished"}) \/ k = x
      BY <2>1, <2>2, <2>3 DEF SegsWith
    <2>5. SegsWith(y, {"Failed"}) = SegsWith(z, {"Failed"})
      <3>1. \A k \in Files \X Segments : t[k] = "Failed" <=> z.segs[k] = "Failed"
        BY <2>2 DEF Terminal
      <3> QED BY <2>1, <2>3, <3>1 DEF SegsWith
    <2>6. Cardinality(SegsWith(y, {"Finished"})) = Cardinality(SegsWith(z, {"Finished"})) + 1
      BY <1>2, <2>4, OneMore
    <2> QED BY <2>1, <2>3, <2>5, <2>6 DEF ArticleCounters, s
  <1>4. CASE o # "Success"
    <2> DEFINE t == [z.segs EXCEPT ![x] = "Failed"]
               s == z.failed + 1
               p == IF x[1] \in ParNamed THEN z.par_failed + 1 ELSE z.par_failed
               w == [z EXCEPT !.segs = t, !.failed = s, !.par_failed = p]
    <2>1. y = w
      BY <1>4 DEF Settled
    <2>2. t[x] = "Failed" /\ \A k \in Files \X Segments : k # x => t[k] = z.segs[k]
      BY <1>1
    <2> HIDE DEF t, s, p
    <2>3. /\ w.segs = t /\ w.success = z.success /\ w.failed = s
          /\ w.par_failed = p /\ w.delete_status = z.delete_status
          /\ w.remaining_files = z.remaining_files
      BY DEF NzbRecord
    <2> HIDE DEF w
    <2>4. \A k : k \in SegsWith(y, {"Failed"}) <=> k \in SegsWith(z, {"Failed"}) \/ k = x
      BY <2>1, <2>2, <2>3 DEF SegsWith
    <2>5. SegsWith(y, {"Finished"}) = SegsWith(z, {"Finished"})
      <3>1. \A k \in Files \X Segments : t[k] = "Finished" <=> z.segs[k] = "Finished"
        BY <2>2 DEF Terminal
      <3> QED BY <2>1, <2>3, <3>1 DEF SegsWith
    <2>6. Cardinality(SegsWith(y, {"Failed"})) = Cardinality(SegsWith(z, {"Failed"})) + 1
      BY <1>2, <2>4, OneMore
    <2>7. Cardinality(P(SegsWith(y, {"Failed"})))
             = IF x[1] \in ParNamed THEN Cardinality(P(SegsWith(z, {"Failed"}))) + 1
                                    ELSE Cardinality(P(SegsWith(z, {"Failed"})))
      <3>1. IsFiniteSet(P(SegsWith(z, {"Failed"}))) /\ x \notin P(SegsWith(z, {"Failed"}))
        <4>1. P(SegsWith(z, {"Failed"})) \subseteq SegsWith(z, {"Failed"})
          OBVIOUS
        <4> QED BY <1>2, <4>1, FS_Subset
      <3>2. CASE x[1] \in ParNamed
        <4>1. \A k : k \in P(SegsWith(y, {"Failed"})) <=> k \in P(SegsWith(z, {"Failed"})) \/ k = x
          BY <2>4, <3>2
        <4> HIDE DEF P
        <4> QED BY <3>1, <3>2, <4>1, OneMore
      <3>3. CASE x[1] \notin ParNamed
        <4>1. P(SegsWith(y, {"Failed"})) = P(SegsWith(z, {"Failed"}))
          BY <2>4, <3>3
        <4> HIDE DEF P
        <4> QED BY <3>3, <4>1
      <3> QED BY <3>2, <3>3
    <2> QED BY <2>1, <2>3, <2>5, <2>6, <2>7 DEF ArticleCounters, s, p
  <1> QED BY <1>3, <1>4

LEMMA CompletionCounts ==
    ASSUME NEW z \in NzbRecord, NEW f \in Files, FilesAreCounted(z), ArticleCounters(z),
           NEW c, c = CheckFileCompletion(z, f)
    PROVE  /\ FilesAreCounted(c) /\ ArticleCounters(c)
           /\ c.delete_status = z.delete_status
           /\ c.failed = z.failed /\ c.par_failed = z.par_failed
  <1> DEFINE Open(y) == {g \in Files : ~y.completed[g]}
  <1>1. CASE ~z.completed[f] /\ AllTerminal(z, f)
    <2> DEFINE d == [z.completed EXCEPT ![f] = TRUE]
               r == Truncated(z.remaining_files - 1)
               y == [z EXCEPT !.completed = d, !.remaining_files = r]
    <2>1. c = y
      BY <1>1 DEF CheckFileCompletion
    <2>2. z.completed \in [Files -> BOOLEAN]
      BY DEF NzbRecord
    <2>3. d[f] /\ \A g \in Files : g # f => (d[g] <=> z.completed[g])
      BY <2>2
    <2> HIDE DEF d, r
    <2>4. /\ y.completed = d /\ y.remaining_files = r /\ y.segs = z.segs
          /\ y.success = z.success /\ y.failed = z.failed /\ y.par_failed = z.par_failed
          /\ y.delete_status = z.delete_status
      BY DEF NzbRecord
    <2> HIDE DEF y
    <2>5. \A g : g \in Open(z) <=> g \in Open(c) \/ g = f
      BY <1>1, <2>1, <2>3, <2>4
    <2>6. IsFiniteSet(Open(c)) /\ f \notin Open(c)
      <3>1. Open(c) \subseteq Files
        OBVIOUS
      <3>2. f \notin Open(c)
        BY <2>1, <2>3, <2>4
      <3> QED BY <3>1, <3>2, SegsAreFinite, FS_Subset
    <2>7. z.remaining_files = Cardinality(Open(z))
      BY DEF FilesAreCounted
    <2> HIDE DEF Open
    <2>8. Cardinality(Open(z)) = Cardinality(Open(c)) + 1
      BY <2>5, <2>6, OneMore
    <2>9. Cardinality(Open(c)) \in Nat
      BY <2>6, FS_CardinalityType
    <2>10. r = Cardinality(Open(c))
      BY <2>7, <2>8, <2>9 DEF r, Truncated
    <2>11. FilesAreCounted(c)
      BY <2>1, <2>4, <2>10 DEF FilesAreCounted, Open
    <2>12. ArticleCounters(c)
      BY <2>1, <2>4 DEF ArticleCounters, SegsWith
    <2> QED BY <2>1, <2>4, <2>11, <2>12
  <1>2. CASE ~(~z.completed[f] /\ AllTerminal(z, f))
    BY <1>2 DEF CheckFileCompletion
  <1> QED BY <1>1, <1>2

LEMMA NewNzbCounts ==
    ASSUME NEW p \in Priorities, NEW b \in BOOLEAN, NEW z, z = NewNzb(p, b)
    PROVE  RecordOk(z) /\ ~HealthFailed(z)
  <1>1. /\ z.success = 0 /\ z.failed = 0 /\ z.par_failed = 0
        /\ z.remaining_files = NumFiles /\ z.delete_status = "None"
        /\ \A f \in Files : ~z.completed[f]
        /\ \A x \in Files \X Segments : z.segs[x] = "Undefined"
    BY DEF NewNzb
  <1>2. {f \in Files : ~z.completed[f]} = Files
    BY <1>1
  <1>3. SegsWith(z, {"Finished"}) = {} /\ SegsWith(z, {"Failed"}) = {}
    BY <1>1 DEF SegsWith
  <1>4. {x \in SegsWith(z, {"Failed"}) : x[1] \in ParNamed} = {}
    BY <1>3
  <1>5. ArticleCounters(z)
    BY <1>1, <1>3, <1>4, FS_EmptySet DEF ArticleCounters
  <1>6. FilesAreCounted(z)
    BY <1>1, <1>2, SegsAreFinite DEF FilesAreCounted
  <1> QED BY <1>1, <1>5, <1>6, NewNzbFields DEF RecordOk, VerdictHolds

(* The health check's own account of what is lost agrees with the articles.*)
LEMMA VerdictIsOnTheArticles ==
    ASSUME ParFiles = ParNamed, NEW z \in NzbRecord, ArticleCounters(z)
    PROVE  HealthFailed(z) <=> Hopeless(z)
  <1> DEFINE F == SegsWith(z, {"Failed"})
             P == {x \in F : x[1] \in ParFiles}
             D == {x \in F : x[1] \notin ParFiles}
  <1>1. z.failed = Cardinality(F) /\ z.par_failed = Cardinality(P)
    BY DEF ArticleCounters
  <1>2. LostData(z) = Cardinality(D) /\ LostPar(z) = Cardinality(P)
    BY DEF LostData, LostPar
  <1>3. IsFiniteSet(F)
    BY SegsAreFinite
  <1>4. P \subseteq F /\ D \subseteq F /\ P \intersect D = {} /\ P \union D = F
    OBVIOUS
  <1> HIDE DEF F, P, D
  <1>5. IsFiniteSet(P) /\ IsFiniteSet(D)
    BY <1>3, <1>4, FS_Subset
  <1>6. Cardinality(F) = Cardinality(P) + Cardinality(D)
    BY <1>4, <1>5, DisjointUnion
  <1>7. Cardinality(P) \in Nat /\ Cardinality(D) \in Nat
    BY <1>5, FS_CardinalityType
  <1>8. Truncated(z.failed - z.par_failed) = LostData(z)
    BY <1>1, <1>2, <1>6, <1>7 DEF Truncated
  <1> QED BY <1>1, <1>2, <1>8 DEF HealthFailed, Hopeless

-----------------------------------------------------------------------------
(* Steps that count nothing.                                               *)

LEMMA CountsOf ==
    ASSUME StayInv, Counters
    PROVE  /\ nzb \in [NzbIds -> NzbRecord]
           /\ Range(queue) \intersect history = {}
           /\ \A n \in Listed : n \in NzbIds /\ nzb[n] \in NzbRecord /\ RecordOk(nzb[n])
  BY ListedIds DEF Counters, Listed, StayInv, IInv, TypeOK, ListsInv, IdsAreUnique

LEMMA SameIsCounted == \A z : SameCounts(z, z)
  BY DEF SameCounts

LEMMA ListsKeep ==
    ASSUME Range(queue') \subseteq Range(queue), history' \subseteq Listed,
           \A n \in Listed' : SameCounts(nzb[n], nzb'[n])
    PROVE  CountsKept
  BY DEF Listed, CountsKept

(* An NZB is taken out, and its record forgotten.                          *)
LEMMA OutKeeps ==
    ASSUME StayInv, Counters, NEW n, nzb' = [nzb EXCEPT ![n] = Blank],
           \/ queue' = Without(n) /\ history' = history /\ InQueue(n)
           \/ queue' = queue /\ history' = history \ {n} /\ n \in history
    PROVE  CountsKept
  <1>1. n \notin Range(queue') /\ n \notin history'
        /\ Range(queue') \subseteq Range(queue) /\ history' \subseteq history
    BY CountsOf, WithoutRange DEF StayInv, IInv, ListsInv, InQueue
  <1>2. \A m \in Listed' : m \in NzbIds /\ m # n
    BY <1>1, CountsOf DEF Listed
  <1>3. \A m \in Listed' : nzb'[m] = nzb[m]
    BY <1>2, CountsOf
  <1> QED BY <1>1, <1>3, SameIsCounted, ListsKeep DEF Listed

(* The record of one NZB changes; it may move from the queue to the        *)
(* history.                                                                *)
LEMMA RecordKeeps ==
    ASSUME StayInv, Counters, NEW n \in NzbIds, NEW z, nzb' = [nzb EXCEPT ![n] = z],
           Range(queue') \subseteq Range(queue), history' \subseteq Listed,
           n \in Listed => SameCounts(nzb[n], z)
    PROVE  CountsKept
  <1>1. \A m \in Listed' : m \in Listed /\ m \in NzbIds
    BY CountsOf DEF Listed
  <1>2. ASSUME NEW m \in Listed' PROVE SameCounts(nzb[m], nzb'[m])
    <2>1. CASE m = n
      BY <1>1, <2>1, CountsOf
    <2>2. CASE m # n
      <3>1. nzb'[m] = nzb[m]
        BY <1>1, <2>2, CountsOf
      <3> QED BY <3>1, SameIsCounted
    <2> QED BY <2>1, <2>2
  <1> QED BY <1>2, ListsKeep

LEMMA QuietKeeps ==
    ASSUME StayInv, Counters,
           \/ FillDone \/ RefillTick \/ Worker \/ Shutdown \/ UNCHANGED vars
           \/ PauseAll \/ SetStrategy \/ \E n \in NzbIds : MoveNzb(n)
           \/ ForwardTake \/ ForwardSend \/ PostTake \/ FinishUnreported
    PROVE  CountsKept
  <1>1. UNCHANGED <<history, nzb>> /\ Range(queue') = Range(queue)
    <2>1. CASE \E n \in NzbIds : MoveNzb(n)
      BY <2>1, MoveKeepsQueue DEF MoveNzb
    <2>2. CASE ~\E n \in NzbIds : MoveNzb(n)
      BY <2>2 DEF FillDone, RefillTick, Worker, StartFetch, FetchDone, Shutdown, PauseAll,
                  SetStrategy, ForwardTake, ForwardSend, PostTake, FinishUnreported,
                  lists, vars
    <2> QED BY <2>1, <2>2
  <1> QED BY <1>1, SameIsCounted, ListsKeep DEF Listed

LEMMA CommandKeeps ==
    ASSUME StayInv, Counters, QueueCommand PROVE CountsKept
  <1>1. CASE PauseAll \/ SetStrategy \/ \E n \in NzbIds : MoveNzb(n)
    BY <1>1, QuietKeeps
  <1>2. CASE ResumeAll
    <2>1. UNCHANGED <<queue, history>>
      BY <1>2 DEF ResumeAll
    <2>2. ASSUME NEW n \in Listed PROVE SameCounts(nzb[n], nzb'[n])
      <3>1. n \in NzbIds /\ nzb[n] \in NzbRecord
        BY CountsOf
      <3>2. nzb'[n] \in {nzb[n], [nzb[n] EXCEPT !.paused = FALSE]}
        BY <1>2, <3>1 DEF ResumeAll
      <3>3. SameCounts(nzb[n], [nzb[n] EXCEPT !.paused = FALSE])
        BY <3>1 DEF SameCounts, NzbRecord
      <3> QED BY <3>2, <3>3, SameIsCounted
    <2> QED BY <2>1, <2>2, ListsKeep DEF Listed
  <1>3. CASE AddNzb
    <2>1. CASE UNCHANGED <<nzb, queue>>
      BY <1>3, <2>1, SameIsCounted, ListsKeep DEF AddNzb, Listed
    <2>2. CASE ~UNCHANGED <<nzb, queue>>
      <3> DEFINE i == next_nzb_id
      <3>1. PICK p \in Priorities, b \in BOOLEAN :
               /\ nzb' = [nzb EXCEPT ![i] = NewNzb(p, b)]
               /\ queue' \in {Append(queue, i), <<i>> \o queue}
        BY <1>3, <2>2 DEF AddNzb
      <3>2. i \in NzbIds /\ history' = history
        BY <1>3 DEF AddNzb, StayInv, IInv, TypeOK, NzbIds
      <3>3. i \notin Listed
        BY <3>2, NextIdIsNext DEF Listed
      <3>4. queue \in Seq(NzbIds) /\ IsInjective(queue) /\ i \notin Range(queue)
        BY <3>3 DEF StayInv, IInv, TypeOK, ListsInv, IdsAreUnique, Listed
      <3>5. Range(queue') = Range(queue) \union {i}
        <4>1. CASE queue' = Append(queue, i)
          BY <3>2, <3>4, <4>1, AppendRange
        <4>2. CASE queue' = <<i>> \o queue
          BY <3>2, <3>4, <4>2, PrependRange
        <4> QED BY <3>1, <4>1, <4>2
      <3>6. PICK z : z = NewNzb(p, b)
        OBVIOUS
      <3>7. nzb'[i] = z /\ \A n \in Listed : nzb'[n] = nzb[n]
        BY <3>1, <3>2, <3>3, <3>6, CountsOf
      <3>8. RecordOk(z) /\ ~HealthFailed(z)
        BY <3>6, NewNzbCounts
      <3> HIDE DEF i
      <3> QED BY <3>2, <3>5, <3>7, <3>8, SameIsCounted DEF CountsKept, Listed
    <2> QED BY <2>1, <2>2
  <1>4. ASSUME NEW n \in NzbIds,
               \/ RemoveNzb(n) \/ SetNzbPaused(n) \/ ParUnpause(n) \/ MoveToMissing(n)
               \/ \E f \in Files : SetFilePaused(n, f)
               \/ \E p \in Priorities : SetPriority(n, p)
        PROVE  CountsKept
    <2>1. nzb[n] \in NzbRecord
      BY DEF StayInv, IInv, TypeOK
    <2>2. CASE RemoveNzb(n) \/ MoveToMissing(n)
      BY <2>2, OutKeeps DEF RemoveNzb, MoveToMissing
    <2>3. CASE SetNzbPaused(n)
      <3>1. SameCounts(nzb[n], [nzb[n] EXCEPT !.paused = ~nzb[n].paused])
        BY <2>1 DEF NzbRecord, SameCounts
      <3>2. UNCHANGED <<queue, history>>
            /\ nzb' = [nzb EXCEPT ![n] = [nzb[n] EXCEPT !.paused = ~nzb[n].paused]]
        BY <2>1, <2>3 DEF SetNzbPaused
      <3> QED BY <3>1, <3>2, RecordKeeps DEF Listed
    <2>4. CASE ParUnpause(n)
      <3> DEFINE g == [f \in Files |-> f \notin ParNamed /\ nzb[n].file_paused[f]]
                 z == [nzb[n] EXCEPT !.file_paused = g]
      <3>1. nzb' = [nzb EXCEPT ![n] = z] /\ UNCHANGED <<queue, history>>
        BY <2>1, <2>4 DEF ParUnpause
      <3> HIDE DEF g
      <3>2. SameCounts(nzb[n], z)
        BY <2>1 DEF NzbRecord, SameCounts
      <3> QED BY <3>1, <3>2, RecordKeeps DEF Listed
    <2>5. ASSUME NEW f \in Files, SetFilePaused(n, f) PROVE CountsKept
      <3> DEFINE g == [nzb[n].file_paused EXCEPT ![f] = ~nzb[n].file_paused[f]]
                 z == [nzb[n] EXCEPT !.file_paused = g]
      <3>1. nzb' = [nzb EXCEPT ![n] = z] /\ UNCHANGED <<queue, history>>
        BY <2>1, <2>5 DEF SetFilePaused
      <3> HIDE DEF g
      <3>2. SameCounts(nzb[n], z)
        BY <2>1 DEF NzbRecord, SameCounts
      <3> QED BY <3>1, <3>2, RecordKeeps DEF Listed
    <2>6. ASSUME NEW p \in Priorities, SetPriority(n, p) PROVE CountsKept
      <3>1. SameCounts(nzb[n], [nzb[n] EXCEPT !.priority = p])
        BY <2>1 DEF NzbRecord, SameCounts
      <3>2. nzb' = [nzb EXCEPT ![n] = [nzb[n] EXCEPT !.priority = p]]
            /\ UNCHANGED <<queue, history>>
        BY <2>1, <2>6 DEF SetPriority
      <3> QED BY <3>1, <3>2, RecordKeeps DEF Listed
    <2> QED BY <1>4, <2>2, <2>3, <2>4, <2>5, <2>6
  <1> QED BY <1>1, <1>2, <1>3, <1>4 DEF QueueCommand

(* An NZB comes back from the history.                                     *)
LEMMA RequeuedKeeps ==
    ASSUME StayInv, Counters, NEW h, NEW z, Requeued(h, z), Back, RecordOk(z)
    PROVE  CountsKept
  <1>1. PICK i : i = next_nzb_id
    OBVIOUS
  <1>2. /\ h \in history /\ history' = history \ {h} /\ queue' = Append(queue, i)
        /\ nzb' = [nzb EXCEPT ![h] = Blank, ![i] = z]
    BY <1>1 DEF Requeued
  <1>3. i \in NzbIds
    BY <1>1 DEF Requeued, StayInv, IInv, TypeOK, NzbIds
  <1>4. i \notin Listed
    BY <1>1, <1>3, NextIdIsNext DEF Listed
  <1>5. queue \in Seq(NzbIds)
    BY DEF StayInv, IInv, TypeOK
  <1>6. Range(queue') = Range(queue) \union {i}
    BY <1>2, <1>3, <1>5, AppendRange
  <1>7. nzb'[i] = z
    BY <1>2, <1>3, CountsOf
  <1>8. \A n \in Range(queue) \union history' : n \in Listed /\ n # h /\ n # i
    BY <1>2, <1>4, CountsOf DEF Listed
  <1>9. \A n \in Range(queue) \union history' : nzb'[n] = nzb[n]
    BY <1>2, <1>8, CountsOf
  <1> QED BY <1>2, <1>6, <1>7, <1>8, <1>9, SameIsCounted DEF CountsKept, Listed

LEMMA HistoryKeeps ==
    ASSUME "HistoryRedownload" \notin UserCommands, StayInv, Counters, HistoryCommand
    PROVE  CountsKept
  <1>1. PICK h \in NzbIds : HistoryReturn(h) \/ HistoryProcess(h) \/ HistoryDelete(h)
    BY DEF HistoryCommand, HistoryRedownload, Command
  <1>2. nzb[h] \in NzbRecord
    BY DEF StayInv, IInv, TypeOK
  <1>3. CASE HistoryDelete(h)
    BY <1>3, OutKeeps DEF HistoryDelete
  <1>4. CASE HistoryReturn(h)
    <2>1. PICK z : z = [nzb[h] EXCEPT !.paused = FALSE]
      OBVIOUS
    <2>2. Requeued(h, z) /\ h \in Listed
      BY <1>4, <2>1 DEF HistoryReturn, Requeued, Listed
    <2>3. SameCounts(nzb[h], z)
      BY <1>2, <2>1 DEF NzbRecord, SameCounts
    <2>4. RecordOk(z)
      BY <2>2, <2>3, CountsOf, CountsSame
    <2> QED BY <1>4, <2>2, <2>4, RequeuedKeeps DEF Back
  <1>5. CASE HistoryProcess(h)
    <2> DEFINE c == [f \in Files |-> TRUE]
               y == [nzb[h] EXCEPT !.paused = FALSE, !.delete_status = "None",
                                   !.completed = c, !.remaining_files = 0, !.post = TRUE]
    <2>1. PICK z : z = y
      OBVIOUS
    <2>2. Requeued(h, z) /\ h \in Listed
      BY <1>5, <2>1 DEF HistoryProcess, Requeued, Listed
    <2>3. \A f \in Files : c[f]
      OBVIOUS
    <2> HIDE DEF c
    <2>4. /\ z.segs = nzb[h].segs /\ z.success = nzb[h].success
          /\ z.failed = nzb[h].failed /\ z.par_failed = nzb[h].par_failed
          /\ z.completed = c /\ z.remaining_files = 0 /\ z.delete_status = "None"
      BY <1>2, <2>1 DEF NzbRecord
    <2> HIDE DEF y
    <2>5. ArticleCounters(z)
      <3>1. ArticleCounters(nzb[h])
        BY <2>2, CountsOf DEF RecordOk
      <3> QED BY <2>4, <3>1 DEF ArticleCounters, SegsWith
    <2>6. FilesAreCounted(z)
      <3>1. {f \in Files : ~z.completed[f]} = {}
        BY <2>3, <2>4
      <3> QED BY <2>4, <3>1, FS_EmptySet DEF FilesAreCounted
    <2>7. RecordOk(z)
      BY <2>4, <2>5, <2>6 DEF RecordOk, VerdictHolds
    <2> QED BY <1>5, <2>2, <2>7, RequeuedKeeps DEF Back
  <1> QED BY <1>1, <1>3, <1>4, <1>5

LEMMA PostKeeps ==
    ASSUME StayInv, Counters, UpdatePostStage \/ FinishPostProcessing
    PROVE  CountsKept
  <1>1. PICK n : n = post_current
    OBVIOUS
  <1>2. CASE ~InQueue(n)
    <2>1. UNCHANGED <<queue, history, nzb>>
      BY <1>1, <1>2 DEF UpdatePostStage, FinishPostProcessing
    <2> QED BY <2>1, SameIsCounted, ListsKeep DEF Listed
  <1>3. CASE InQueue(n)
    <2>1. n \in NzbIds /\ nzb[n] \in NzbRecord /\ n \in Listed
      BY <1>3, CountsOf DEF InQueue, Listed
    <2>2. PICK b \in BOOLEAN : nzb' = [nzb EXCEPT ![n].post = b]
      BY <1>1, <1>3 DEF UpdatePostStage, FinishPostProcessing
    <2>3. nzb' = [nzb EXCEPT ![n] = [nzb[n] EXCEPT !.post = b]]
      BY <2>1, <2>2, CountsOf
    <2>4. SameCounts(nzb[n], [nzb[n] EXCEPT !.post = b])
      BY <2>1 DEF NzbRecord, SameCounts
    <2>5. Range(queue') \subseteq Range(queue) /\ history' \subseteq Listed
      <3>1. Range(Without(n)) = Range(queue) \ {n}
        BY <1>3, WithoutRange DEF StayInv, IInv, ListsInv
      <3> QED BY <1>1, <1>3, <2>1, <3>1 DEF UpdatePostStage, FinishPostProcessing, Listed
    <2> QED BY <2>1, <2>3, <2>4, <2>5, RecordKeeps
  <1> QED BY <1>2, <1>3

(* An article starts, or goes back to wait.                                *)
LEMMA SegKeeps ==
    ASSUME StayInv, Counters, UNCHANGED <<queue, history>>,
           NEW n \in Range(queue), NEW x \in Files \X Segments,
           NEW st \in {"Undefined", "Running"}, nzb[n].segs[x] \notin Terminal,
           nzb' = [nzb EXCEPT ![n].segs[x] = st]
    PROVE  CountsKept
  <1>1. n \in NzbIds /\ nzb[n] \in NzbRecord /\ n \in Listed
    BY CountsOf DEF Listed
  <1> DEFINE t == [nzb[n].segs EXCEPT ![x] = st]
             z == [nzb[n] EXCEPT !.segs = t]
  <1>2. nzb' = [nzb EXCEPT ![n] = z]
    BY <1>1, CountsOf
  <1>3. nzb[n].segs \in [Files \X Segments -> SegmentStatus]
    BY <1>1 DEF NzbRecord
  <1>4. t[x] = st /\ \A k \in Files \X Segments : k # x => t[k] = nzb[n].segs[k]
    BY <1>3
  <1>5. st \notin Terminal
    BY DEF Terminal
  <1> HIDE DEF t
  <1>6. SameCounts(nzb[n], z)
    BY <1>1, <1>4, <1>5 DEF NzbRecord, SameCounts
  <1> HIDE DEF z
  <1> QED BY <1>1, <1>2, <1>6, RecordKeeps DEF Listed

LEMMA DispatchKeeps ==
    ASSUME StayInv, Counters, DispatchArticle PROVE CountsKept
  <1>1. PICK a \in ArticleIds : /\ NextArticle(a) /\ UNCHANGED <<queue, history>>
                                /\ nzb' = [nzb EXCEPT ![a[1]].segs[<<a[2], a[3]>>] = "Running"]
    BY DEF DispatchArticle
  <1>2. /\ a[1] \in Range(queue) /\ nzb[a[1]].segs[<<a[2], a[3]>>] = "Undefined"
        /\ <<a[2], a[3]>> \in Files \X Segments
    BY <1>1, NextArticleIsNew DEF InQueue, ArticleIds, StayInv, IInv
  <1>3. PICK n \in Range(queue), x \in Files \X Segments : n = a[1] /\ x = <<a[2], a[3]>>
    BY <1>2
  <1>4. nzb[n].segs[x] \notin Terminal /\ nzb' = [nzb EXCEPT ![n].segs[x] = "Running"]
    BY <1>1, <1>2, <1>3 DEF Terminal
  <1> QED BY <1>1, <1>4, SegKeeps

LEMMA SettleKeeps ==
    ASSUME StayInv, Counters, NEW n, NEW x \in Files \X Segments, NEW o,
           InQueue(n), nzb[n].segs[x] \notin Terminal, SettleArticle(n, x, o)
    PROVE  CountsKept
  <1>1. n \in NzbIds /\ nzb[n] \in NzbRecord /\ n \in Listed /\ RecordOk(nzb[n])
    BY CountsOf DEF InQueue, Listed
  <1>2. PICK z : z = Settled(nzb[n], x, o)
    OBVIOUS
  <1>3. /\ z \in NzbRecord /\ ArticleCounters(z)
        /\ z.delete_status = nzb[n].delete_status
        /\ z.remaining_files = nzb[n].remaining_files /\ z.completed = nzb[n].completed
        /\ nzb[n].failed - nzb[n].par_failed <= z.failed - z.par_failed
        /\ nzb[n].par_failed <= z.par_failed
    BY <1>1, <1>2, SettledFields, SettledCounts DEF RecordOk
  <1>4. FilesAreCounted(z)
    BY <1>1, <1>3 DEF RecordOk, FilesAreCounted
  <1>5. VerdictHolds(z)
    BY <1>1, <1>3, VerdictStands DEF RecordOk, VerdictHolds
  <1>6. CASE HealthFailed(z)
    <2>1. PICK y : y = [z EXCEPT !.delete_status = "Health"]
      OBVIOUS
    <2>2. /\ nzb' = [nzb EXCEPT ![n] = y] /\ queue' = Without(n)
          /\ history' = history \union {n}
      BY <1>2, <1>6, <2>1 DEF SettleArticle
    <2>3. /\ y.segs = z.segs /\ y.success = z.success /\ y.failed = z.failed
          /\ y.par_failed = z.par_failed /\ y.completed = z.completed
          /\ y.remaining_files = z.remaining_files
      BY <1>3, <2>1 DEF NzbRecord
    <2>4. HealthFailed(y)
      BY <1>6, <2>3, SameVerdict
    <2>5. ArticleCounters(y)
      BY <1>3, <2>3 DEF ArticleCounters, SegsWith
    <2>6. FilesAreCounted(y)
      BY <1>4, <2>3 DEF FilesAreCounted
    <2>7. RecordOk(y)
      BY <2>4, <2>5, <2>6 DEF RecordOk, VerdictHolds
    <2>8. Range(queue') = Range(queue) \ {n}
      BY <2>2, WithoutRange DEF StayInv, IInv, ListsInv
    <2>9. nzb'[n] = y /\ \A m \in Listed : m # n => nzb'[m] = nzb[m]
      BY <1>1, <2>2, CountsOf
    <2> QED BY <2>2, <2>7, <2>8, <2>9, SameIsCounted DEF CountsKept, Listed
  <1>7. CASE ~HealthFailed(z)
    <2>1. PICK c : c = CheckFileCompletion(z, x[1])
      OBVIOUS
    <2>2. PICK y : y = IF AllCompleted(c) THEN [c EXCEPT !.post = TRUE] ELSE c
      OBVIOUS
    <2>3. nzb' = [nzb EXCEPT ![n] = y] /\ UNCHANGED <<queue, history>>
      BY <1>2, <1>7, <2>1, <2>2 DEF SettleArticle, CheckNzbCompletion
    <2>4. /\ FilesAreCounted(c) /\ ArticleCounters(c)
          /\ c.delete_status = z.delete_status
          /\ c.failed = z.failed /\ c.par_failed = z.par_failed
          /\ c \in NzbRecord
      BY <1>3, <1>4, <2>1, CompletionCounts, CheckFileCompletionType
    <2>5. SameCounts(c, y)
      BY <2>2, <2>4 DEF NzbRecord, SameCounts
    <2>6. HealthFailed(c) <=> HealthFailed(z)
      BY <2>4, SameVerdict
    <2>7. RecordOk(c)
      BY <1>5, <2>4, <2>6 DEF RecordOk, VerdictHolds
    <2>8. RecordOk(y) /\ ~HealthFailed(y)
      BY <1>7, <2>5, <2>6, <2>7, CountsSame
    <2>9. nzb'[n] = y /\ \A m \in Listed : m # n => nzb'[m] = nzb[m]
      BY <1>1, <2>3, CountsOf
    <2> QED BY <2>3, <2>8, <2>9, SameIsCounted DEF CountsKept, Listed
  <1> QED BY <1>6, <1>7

LEMMA ResultKeeps ==
    ASSUME StayInv, Counters, HandleDownloadComplete PROVE CountsKept
  <1>1. PICK a : a = Head(results).art
    OBVIOUS
  <1>2. PICK x : x = <<a[2], a[3]>>
    OBVIOUS
  <1>3. PICK o : o = Head(results).outcome
    OBVIOUS
  <1>4. PICK n : n = a[1]
    OBVIOUS
  <1>5. x \in Files \X Segments /\ (IgnoreResult(n, x) \/ ApplyOutcome(n, x, o))
    BY <1>1, <1>2, <1>3, <1>4, ResultArrives
  <1>6. CASE IgnoreResult(n, x)
    BY <1>6, SameIsCounted, ListsKeep DEF IgnoreResult, Listed
  <1>7. CASE ApplyOutcome(n, x, o)
    <2>1. InQueue(n) /\ nzb[n].segs[x] \notin Terminal
          /\ (BlockDownloads(n, x) \/ SettleArticle(n, x, o))
      BY <1>7 DEF ApplyOutcome
    <2>2. CASE BlockDownloads(n, x)
      BY <1>5, <2>1, <2>2, SegKeeps DEF BlockDownloads, InQueue
    <2> QED BY <1>5, <2>1, <2>2, SettleKeeps
  <1> QED BY <1>5, <1>6, <1>7

-----------------------------------------------------------------------------

LEMMA InitCounters == Init => Counters
  BY DEF Init, Counters, Listed, Range

LEMMA NextCounts ==
    ASSUME "HistoryRedownload" \notin UserCommands, StayInv, Counters, [Next]_vars
    PROVE  CountsKept
  <1>1. CASE FillDownloadSlots
    BY <1>1, DispatchKeeps, QuietKeeps DEF FillDownloadSlots
  <1>2. CASE RefillTick \/ Worker \/ Shutdown \/ UNCHANGED vars
    BY <1>2, QuietKeeps
  <1>3. CASE HandleDownloadComplete
    BY <1>3, ResultKeeps
  <1>4. CASE QueueCommand
    BY <1>4, CommandKeeps
  <1>5. CASE HistoryCommand
    BY <1>5, HistoryKeeps
  <1>6. CASE PostProcessing
    BY <1>6, PostKeeps, QuietKeeps DEF PostProcessing
  <1> QED BY <1>1, <1>2, <1>3, <1>4, <1>5, <1>6 DEF Next

LEMMA NextCounters ==
    ASSUME "HistoryRedownload" \notin UserCommands, StayInv, Counters, [Next]_vars
    PROVE  Counters'
  <1>1. CountsKept
    BY NextCounts
  <1>2. ASSUME NEW n \in Listed' PROVE RecordOk(nzb'[n])
    <2>1. (\E m \in Listed : SameCounts(nzb[m], nzb'[n])) \/ RecordOk(nzb'[n])
      BY <1>1 DEF CountsKept, Listed
    <2>2. ASSUME NEW m \in Listed, SameCounts(nzb[m], nzb'[n]) PROVE RecordOk(nzb'[n])
      BY <2>2, CountsSame DEF Counters
    <2> QED BY <2>1, <2>2
  <1> QED BY <1>2 DEF Counters

(* The counters of a queued or finished NZB, kept by the handlers one      *)
(* result at a time, always equal the numbers of its articles and files    *)
(* they stand for.                                                         *)
THEOREM CountersStayExact ==
    ASSUME "HistoryRedownload" \notin UserCommands
    PROVE  Spec => []CountersMatch
  <1>1. Init => Counters
    BY InitCounters
  <1>2. StayInv /\ Counters /\ [Next]_vars => Counters'
    BY NextCounters
  <1>3. Counters => CountersMatch
    BY DEF Counters, RecordOk, FilesAreCounted, CountersMatch, Listed
  <1> QED BY <1>1, <1>2, <1>3, StayInvCorrect, PTL DEF Spec

(* check_health deletes an NZB only for articles that are lost, more than  *)
(* the PAR2 articles left can repair; with files told apart by their names *)
(* as their contents would have it.                                        *)
THEOREM VerdictsAreSound ==
    ASSUME "HistoryRedownload" \notin UserCommands, ParFiles = ParNamed
    PROVE  Spec => HealthVerdictIsSound
  <1> DEFINE Sound == \A n \in history' \ history :
                         nzb'[n].delete_status = "Health" => Hopeless(nzb'[n])
  <1>1. Init => Counters
    BY InitCounters
  <1>2. StayInv /\ Counters /\ [Next]_vars => Counters'
    BY NextCounters
  <1>3. StayInv /\ Counters /\ [Next]_vars => Sound
    <2> SUFFICES ASSUME StayInv, Counters, [Next]_vars, NEW n \in history',
                        nzb'[n].delete_status = "Health"
                 PROVE  Hopeless(nzb'[n])
      OBVIOUS
    <2>1. RecordOk(nzb'[n])
      BY <1>2 DEF Counters, Listed
    <2>2. nzb'[n] \in NzbRecord
      BY NextInv DEF StayInv, IInv, TypeOK
    <2> QED BY <2>1, <2>2, VerdictIsOnTheArticles DEF RecordOk, VerdictHolds
  <1> QED BY <1>1, <1>2, <1>3, StayInvCorrect, PTL DEF Spec, HealthVerdictIsSound

(* And it does delete them: an NZB that lost more than can be repaired is  *)
(* not in the queue, unless the user brought it back from the history.     *)
THEOREM HopelessLeave ==
    ASSUME UserCommands \intersect {"HistoryRedownload", "HistoryReturn", "HistoryProcess"} = {},
           ParFiles = ParNamed
    PROVE  Spec => []HopelessIsGivenUp
  <1> DEFINE Repairable == \A n \in Range(queue) : ~HealthFailed(nzb[n])
  <1>1. Init => Counters /\ Repairable
    BY InitCounters DEF Init, Range
  <1>2. StayInv /\ Counters /\ [Next]_vars => Counters'
    BY NextCounters
  <1>3. StayInv /\ Counters /\ Repairable /\ [Next]_vars => Repairable'
    <2> SUFFICES ASSUME StayInv, Counters, Repairable, [Next]_vars, NEW n \in Range(queue')
                 PROVE  ~HealthFailed(nzb'[n])
      OBVIOUS
    <2>1. ~Back
      BY DEF Back, HistoryReturn, HistoryProcess, Command
    <2>2. \/ \E m \in Range(queue) : SameCounts(nzb[m], nzb'[n])
          \/ ~HealthFailed(nzb'[n])
      BY <2>1, NextCounts DEF CountsKept
    <2> QED BY <2>2, CountsSame
  <1>4. StayInv /\ Counters /\ Repairable => HopelessIsGivenUp
    <2> SUFFICES ASSUME StayInv, Counters, Repairable, NEW n \in Range(queue)
                 PROVE  ~Hopeless(nzb[n])
      BY DEF HopelessIsGivenUp
    <2> QED BY CountsOf, VerdictIsOnTheArticles DEF RecordOk, Listed
  <1> QED BY <1>1, <1>2, <1>3, <1>4, StayInvCorrect, PTL DEF Spec
=============================================================================
