-------------------------- MODULE ServerPoolProofs --------------------------
(* Theorems about ServerPool: for any number of servers, connections and   *)
(* concurrent fetches the permits are conserved, and with them the limits. *)
EXTENDS ServerPool, SequenceLemmas

Holders(k) == {f \in Fetches : Holds(f, k)}
Counting(k) == {f \in Fetches : att[<<f, k>>] = "counted"}
Recording == {"counted", "stored", "reset"}

(* A permit of a server is free or held by one fetch.                      *)
PermitsConserved ==
    \A k \in Ids : permits[k] + Cardinality(Holders(k)) = Permits[k]

(* Who waits for a server is in its queue, once.                           *)
QueuesMatch ==
    \A k \in Ids :
       /\ IsInjective(waiters[k])
       /\ Range(waiters[k]) = {f \in Fetches : att[<<f, k>>] = "queued"}

AtRest == \A f \in Fetches : mode[f] \in {"off", "done"} => Pending(f) = {}
TodoIsUntried == \A f \in Fetches : \A s \in todo[f] : att[<<f, s>>] = "none"

RecordsOne ==
    \A f \in Fetches : \A s, t \in Ids :
       att[<<f, s>>] \in Recording /\ att[<<f, t>>] \in Recording => s = t

CountedIsCapped == \A f \in Fetches : counted[f] <= FailCap

SemaphoreInv == PermitsConserved /\ QueuesMatch
AttemptInv == AtRest /\ TodoIsUntried /\ RecordsOne /\ CountedIsCapped

(* That a new connection fits needs its fetch to hold a permit, and that   *)
(* the permits add up; a permit goes to the first waiter only if the queue *)
(* names who waits; and nothing is held twice or left behind because a     *)
(* server is tried once, by a fetch that has not ended.                    *)
IInv == TypeOK /\ SemaphoreInv /\ AttemptInv /\ ServerLimits
-----------------------------------------------------------------------------
LEMMA SetsAreFinite ==
    \A k : /\ IsFiniteSet(Holders(k)) /\ Cardinality(Holders(k)) \in Nat
           /\ IsFiniteSet(InUse(k)) /\ Cardinality(InUse(k)) \in Nat
           /\ IsFiniteSet(Counting(k)) /\ Cardinality(Counting(k)) \in Nat
  <1>1. ASSUME NEW T \in SUBSET Fetches
        PROVE  IsFiniteSet(T) /\ Cardinality(T) \in Nat
    BY PoolAssumption, FS_Subset, FS_CardinalityType
  <1>2. \A k : Holders(k) \in SUBSET Fetches
    BY DEF Holders
  <1>3. \A k : InUse(k) \in SUBSET Fetches
    BY DEF InUse
  <1>4. \A k : Counting(k) \in SUBSET Fetches
    BY DEF Counting
  <1> QED BY <1>1, <1>2, <1>3, <1>4

LEMMA SubsetCardinality ==
    ASSUME NEW S, NEW T, IsFiniteSet(T), S \subseteq T
    PROVE  Cardinality(S) <= Cardinality(T)
  BY FS_Subset

LEMMA IsNextType ==
    ASSUME TypeOK, NEW f \in Fetches, NEW s, IsNext(f, s)
    PROVE  s \in todo[f] /\ s \in Ids
  BY DEF IsNext, TypeOK

(* Leaving a queue.                                                        *)
LEMMA WithoutQueue ==
    ASSUME NEW q \in Seq(Fetches), NEW f, IsInjective(q)
    PROVE  /\ Without(q, f) \in Seq(Fetches)
           /\ IsInjective(Without(q, f))
           /\ Range(Without(q, f)) = Range(q) \ {f}
  <1>1. CASE f \notin Range(q)
    BY <1>1 DEF Without
  <1>2. CASE f \in Range(q)
    <2> DEFINE i == CHOOSE j \in DOMAIN q : q[j] = f
    <2>1. i \in DOMAIN q /\ q[i] = f
      BY <1>2 DEF Range
    <2> HIDE DEF i
    <2>2. /\ RemoveAt(q, i) \in Seq(Fetches) /\ IsInjective(RemoveAt(q, i))
          /\ Range(RemoveAt(q, i)) = Range(q) \ {f}
      BY <2>1, RemoveAtElements, RemoveAtRange
    <2> QED BY <1>2, <2>2 DEF Without, i
  <1> QED BY <1>1, <1>2
-----------------------------------------------------------------------------
(* What the operations on the semaphores do to permits and queues.         *)

SemaphoreTypes ==
    /\ permits \in [Ids -> Nat] /\ waiters \in [Ids -> Seq(Fetches)]
    /\ att \in [Fetches \X Ids -> Status]

LEMMA TryAcquireStep ==
    ASSUME TypeOK, SemaphoreInv, NEW f \in Fetches, NEW s \in Ids,
           TryAcquire(f, s), att[<<f, s>>] = "none"
    PROVE  SemaphoreTypes' /\ SemaphoreInv'
  <1>1. SemaphoreTypes'
    BY DEF TryAcquire, TypeOK, SemaphoreTypes, Status
  <1>2. \A g \in Fetches, k \in Ids :
           att'[<<g, k>>] = IF g = f /\ k = s THEN "held" ELSE att[<<g, k>>]
    BY DEF TryAcquire, TypeOK
  <1>3. QueuesMatch'
    BY <1>2 DEF SemaphoreInv, QueuesMatch, TryAcquire
  <1>4. ASSUME NEW k \in Ids
        PROVE  permits'[k] + Cardinality(Holders(k)') = Permits[k]
    <2>1. CASE k = s
      <3>1. f \notin Holders(k) /\ Holders(k)' = Holders(k) \union {f}
        BY <1>2, <2>1 DEF Holders, Holds, Holding
      <3>2. Cardinality(Holders(k)') = Cardinality(Holders(k)) + 1
        BY <3>1, SetsAreFinite, FS_AddElement
      <3>3. permits'[k] = permits[k] - 1 /\ permits[k] \in Nat
        BY <2>1 DEF TryAcquire, TypeOK
      <3> QED BY <3>2, <3>3, SetsAreFinite DEF SemaphoreInv, PermitsConserved
    <2>2. CASE k # s
      <3>1. Holders(k)' = Holders(k)
        BY <1>2, <2>2 DEF Holders, Holds
      <3>2. permits'[k] = permits[k]
        BY <2>2 DEF TryAcquire, TypeOK
      <3> QED BY <3>1, <3>2 DEF SemaphoreInv, PermitsConserved
    <2> QED BY <2>1, <2>2
  <1> QED BY <1>1, <1>3, <1>4 DEF SemaphoreInv, PermitsConserved

LEMMA EnqueueStep ==
    ASSUME TypeOK, SemaphoreInv, NEW f \in Fetches, NEW s \in Ids,
           Enqueue(f, s), att[<<f, s>>] = "none"
    PROVE  SemaphoreTypes' /\ SemaphoreInv'
  <1>1. \A g \in Fetches, k \in Ids :
           att'[<<g, k>>] = IF g = f /\ k = s THEN "queued" ELSE att[<<g, k>>]
    BY DEF Enqueue, TypeOK
  <1>2. waiters[s] \in Seq(Fetches) /\ IsInjective(waiters[s]) /\ f \notin Range(waiters[s])
    BY DEF TypeOK, SemaphoreInv, QueuesMatch
  <1>3. /\ Append(waiters[s], f) \in Seq(Fetches)
        /\ Range(Append(waiters[s], f)) = Range(waiters[s]) \union {f}
        /\ IsInjective(Append(waiters[s], f))
    BY <1>2, AppendRange, AppendProperties
  <1>4. \A k \in Ids : waiters'[k] = IF k = s THEN Append(waiters[s], f) ELSE waiters[k]
    BY DEF Enqueue, TypeOK
  <1>5. SemaphoreTypes'
    BY <1>3 DEF Enqueue, TypeOK, SemaphoreTypes, Status
  <1>6. QueuesMatch'
    <2> SUFFICES ASSUME NEW k \in Ids
                 PROVE  /\ IsInjective(waiters'[k])
                        /\ Range(waiters'[k]) = {g \in Fetches : att'[<<g, k>>] = "queued"}
      BY DEF QueuesMatch
    <2>1. /\ IsInjective(waiters[k])
          /\ Range(waiters[k]) = {g \in Fetches : att[<<g, k>>] = "queued"}
      BY DEF SemaphoreInv, QueuesMatch
    <2>2. CASE k = s
      BY <1>1, <1>3, <1>4, <2>1, <2>2
    <2>3. CASE k # s
      BY <1>1, <1>4, <2>1, <2>3
    <2> QED BY <2>2, <2>3
  <1>7. \A k \in Ids : Holders(k)' = Holders(k)
    BY <1>1 DEF Holders, Holds, Holding
  <1>8. PermitsConserved'
    BY <1>7 DEF SemaphoreInv, PermitsConserved, Enqueue
  <1> QED BY <1>5, <1>6, <1>8 DEF SemaphoreInv

(* What an attempt that gives up becomes: it neither holds a permit, nor   *)
(* waits, nor is being recorded.                                           *)
Over == Status \ (Holding \union Recording \union {"queued"})

(* Attempts of f end; the permits go to whoever waits first, if anybody.   *)
LEMMA GiveUpStep ==
    ASSUME TypeOK, SemaphoreInv, NEW f \in Fetches, NEW S \in SUBSET Ids,
           NEW to \in Over, GiveUp(f, S, to)
    PROVE  /\ SemaphoreTypes' /\ SemaphoreInv'
           /\ \A g \in Fetches, k \in Ids :
                 \/ g = f /\ k \in S /\ att'[<<g, k>>] = to
                 \/ /\ ~(g = f /\ k \in S)
                    /\ \/ att'[<<g, k>>] = att[<<g, k>>]
                       \/ att[<<g, k>>] = "queued" /\ att'[<<g, k>>] = "held"
  <1> DEFINE Freed(k) == k \in S /\ Holds(f, k)
             Left(k) == IF k \in S THEN Without(waiters[k], f) ELSE waiters[k]
             Given(k) == Freed(k) /\ Left(k) # <<>>
  <1>1. ASSUME NEW k \in Ids
        PROVE  /\ IsInjective(waiters[k]) /\ waiters[k] \in Seq(Fetches)
               /\ Range(waiters[k]) = {g \in Fetches : att[<<g, k>>] = "queued"}
               /\ Left(k) \in Seq(Fetches) /\ IsInjective(Left(k))
               /\ Range(Left(k)) = {g \in Fetches :
                     att[<<g, k>>] = "queued" /\ ~(g = f /\ k \in S)}
    <2>1. /\ IsInjective(waiters[k]) /\ waiters[k] \in Seq(Fetches)
          /\ Range(waiters[k]) = {g \in Fetches : att[<<g, k>>] = "queued"}
      BY DEF SemaphoreInv, QueuesMatch, TypeOK
    <2>2. /\ Without(waiters[k], f) \in Seq(Fetches) /\ IsInjective(Without(waiters[k], f))
          /\ Range(Without(waiters[k], f)) = Range(waiters[k]) \ {f}
      BY <2>1, WithoutQueue
    <2> QED BY <2>1, <2>2
  <1>a. \A k \in Ids : permits'[k] =
           IF Freed(k) /\ Left(k) = <<>> THEN permits[k] + 1 ELSE permits[k]
    BY DEF GiveUp, TypeOK
  <1>b. \A k \in Ids : waiters'[k] = IF Given(k) THEN Tail(Left(k)) ELSE Left(k)
    BY DEF GiveUp
  <1>c. \A g \in Fetches, k \in Ids : att'[<<g, k>>] =
           IF g = f /\ k \in S THEN to
           ELSE IF Given(k) /\ Head(Left(k)) = g THEN "held" ELSE att[<<g, k>>]
    BY DEF GiveUp
  <1>2. /\ permits' = [k \in Ids |-> permits'[k]]
        /\ waiters' = [k \in Ids |-> waiters'[k]]
        /\ att' = [x \in Fetches \X Ids |-> att'[x]]
    BY DEF GiveUp
  <1> HIDE DEF Left, Freed
  <1>3. ASSUME NEW k \in Ids, Given(k)
        PROVE  LET h == Head(Left(k)) IN
               /\ h \in Fetches /\ h # f /\ att[<<h, k>>] = "queued"
               /\ Tail(Left(k)) \in Seq(Fetches) /\ IsInjective(Tail(Left(k)))
               /\ Range(Tail(Left(k))) = Range(Left(k)) \ {h}
    <2>1. /\ Head(Left(k)) \in Range(Left(k))
          /\ Range(Tail(Left(k))) = Range(Left(k)) \ {Head(Left(k))}
          /\ IsInjective(Tail(Left(k))) /\ Tail(Left(k)) \in Seq(Fetches)
      BY <1>1, <1>3, TailRange, HeadTailProperties
    <2> QED BY <1>1, <1>3, <2>1 DEF Freed
  <1>4. SemaphoreTypes'
    <2>1. ASSUME NEW k \in Ids PROVE permits'[k] \in Nat
      <3>1. permits[k] \in Nat
        BY DEF TypeOK
      <3> QED BY <1>a, <3>1
    <2>2. \A k \in Ids : waiters'[k] \in Seq(Fetches)
      BY <1>1, <1>b, <1>3
    <2>3. \A x \in Fetches \X Ids : att'[x] \in Status
      BY <1>c DEF TypeOK, Over, Status
    <2> QED BY <1>2, <2>1, <2>2, <2>3 DEF SemaphoreTypes
  <1>5. QueuesMatch'
    <2> SUFFICES ASSUME NEW k \in Ids
                 PROVE  /\ IsInjective(waiters'[k])
                        /\ Range(waiters'[k]) = {g \in Fetches : att'[<<g, k>>] = "queued"}
      BY DEF QueuesMatch
    <2>1. to # "queued"
      BY DEF Over
    <2>2. CASE Given(k)
      <3>1. /\ IsInjective(waiters'[k])
            /\ Range(waiters'[k]) = Range(Left(k)) \ {Head(Left(k))}
        BY <1>b, <1>3, <2>2
      <3>2. \A g \in Fetches : att'[<<g, k>>] = "queued"
                  <=> g \in Range(Left(k)) /\ g # Head(Left(k))
        BY <1>1, <1>3, <1>c, <2>1, <2>2
      <3> QED BY <1>1, <3>1, <3>2
    <2>3. CASE ~Given(k)
      <3>1. waiters'[k] = Left(k)
        BY <1>b, <2>3
      <3>2. \A g \in Fetches : att'[<<g, k>>] = "queued"
                  <=> att[<<g, k>>] = "queued" /\ ~(g = f /\ k \in S)
        BY <1>c, <2>1, <2>3
      <3> QED BY <1>1, <3>1, <3>2
    <2> QED BY <2>2, <2>3
  <1>6. PermitsConserved'
    <2> SUFFICES ASSUME NEW k \in Ids
                 PROVE  permits'[k] + Cardinality(Holders(k)') = Permits[k]
      BY DEF PermitsConserved
    <2>1. /\ permits[k] + Cardinality(Holders(k)) = Permits[k]
          /\ permits[k] \in Nat /\ Permits[k] \in Nat /\ Cardinality(Holders(k)) \in Nat
      BY SetsAreFinite, PoolAssumption DEF SemaphoreInv, PermitsConserved, TypeOK
    <2>2. to \notin Holding
      BY DEF Over
    <2>3. CASE ~Freed(k)
      <3>1. Holders(k)' = Holders(k)
        BY <1>c, <2>2, <2>3 DEF Holders, Holds, Holding, Freed
      <3> QED BY <1>a, <2>1, <2>3, <3>1
    <2>4. CASE Freed(k) /\ Left(k) = <<>>
      <3>1. f \in Holders(k) /\ Holders(k)' = Holders(k) \ {f}
        BY <1>c, <2>2, <2>4 DEF Holders, Holds, Freed
      <3>2. Cardinality(Holders(k)') = Cardinality(Holders(k)) - 1
        BY <3>1, SetsAreFinite, FS_RemoveElement
      <3> QED BY <1>a, <2>1, <2>4, <3>2
    <2>5. CASE Given(k)
      <3> DEFINE h == Head(Left(k))
      <3>1. h \in Fetches /\ h # f /\ att[<<h, k>>] = "queued"
        BY <1>3, <2>5
      <3>2. /\ f \in Holders(k) /\ h \notin Holders(k) \ {f}
            /\ Holders(k)' = (Holders(k) \ {f}) \union {h}
        BY <1>c, <2>2, <2>5, <3>1 DEF Holders, Holds, Holding, Freed
      <3>3. /\ IsFiniteSet(Holders(k) \ {f})
            /\ Cardinality(Holders(k) \ {f}) = Cardinality(Holders(k)) - 1
        BY <3>2, SetsAreFinite, FS_RemoveElement
      <3>4. Cardinality((Holders(k) \ {f}) \union {h}) = Cardinality(Holders(k) \ {f}) + 1
        BY <3>2, <3>3, FS_AddElement
      <3>5. Cardinality(Holders(k)') = Cardinality(Holders(k))
        BY <2>1, <3>2, <3>3, <3>4
      <3> QED BY <1>a, <2>1, <2>5, <3>5
    <2> QED BY <2>3, <2>4, <2>5
  <1>7. \A g \in Fetches, k \in Ids :
           \/ g = f /\ k \in S /\ att'[<<g, k>>] = to
           \/ /\ ~(g = f /\ k \in S)
              /\ \/ att'[<<g, k>>] = att[<<g, k>>]
                 \/ att[<<g, k>>] = "queued" /\ att'[<<g, k>>] = "held"
    BY <1>c, <1>3
  <1> QED BY <1>4, <1>5, <1>6, <1>7 DEF SemaphoreInv

(* An attempt goes on; it keeps its permit, if it has one.                 *)
LEMMA ToStep ==
    ASSUME TypeOK, SemaphoreInv, NEW f \in Fetches, NEW s \in Ids,
           NEW from \in Status \ {"queued"}, NEW to \in Status \ {"queued"},
           from \in Holding <=> to \in Holding,
           To(f, s, from, to), UNCHANGED <<permits, waiters>>
    PROVE  SemaphoreTypes' /\ SemaphoreInv'
  <1>1. \A g \in Fetches, k \in Ids :
           att'[<<g, k>>] = IF g = f /\ k = s THEN to ELSE att[<<g, k>>]
    BY DEF To, TypeOK
  <1>2. att[<<f, s>>] = from
    BY DEF To
  <1>3. SemaphoreTypes'
    BY DEF To, TypeOK, SemaphoreTypes
  <1>4. \A k \in Ids : Holders(k)' = Holders(k)
    BY <1>1, <1>2 DEF Holders, Holds
  <1>5. \A k \in Ids : {g \in Fetches : att'[<<g, k>>] = "queued"}
                          = {g \in Fetches : att[<<g, k>>] = "queued"}
    BY <1>1, <1>2
  <1> QED BY <1>3, <1>4, <1>5 DEF SemaphoreInv, PermitsConserved, QueuesMatch
-----------------------------------------------------------------------------
(* The rest of the invariant, for steps in which no attempt begins.        *)

LEMMA AttemptsGoOn ==
    ASSUME TypeOK, AttemptInv, NEW f \in Fetches,
           \A g \in Fetches, k \in Ids :
              /\ att[<<g, k>>] = "none" => att'[<<g, k>>] = "none"
              /\ att'[<<g, k>>] \in Recording =>
                    \/ att[<<g, k>>] \in Recording
                    \/ g = f /\ ~Settling(f)
                          /\ \A l \in Ids : att'[<<f, l>>] \in Recording => l = k,
           \A g \in Fetches : todo'[g] \subseteq todo[g] /\ todo[g] \subseteq Ids,
           \A g \in Fetches : mode'[g] \in {"off", "done"} =>
              mode'[g] = mode[g] \/ \A k \in Ids : att'[<<g, k>>] = "none"
    PROVE  AtRest' /\ TodoIsUntried' /\ RecordsOne'
  <1>1. AtRest'
    <2> SUFFICES ASSUME NEW g \in Fetches, mode'[g] \in {"off", "done"}, NEW k \in Ids
                 PROVE  att'[<<g, k>>] = "none"
      BY DEF AtRest, Pending
    <2>1. CASE mode'[g] = mode[g]
      BY <2>1 DEF AttemptInv, AtRest, Pending
    <2> QED BY <2>1
  <1>2. TodoIsUntried'
    BY DEF AttemptInv, TodoIsUntried
  <1>3. RecordsOne'
    <2> SUFFICES ASSUME NEW g \in Fetches, NEW s \in Ids, NEW t \in Ids,
                        att'[<<g, s>>] \in Recording, att'[<<g, t>>] \in Recording
                 PROVE  s = t
      BY DEF RecordsOne
    <2>1. CASE att[<<g, s>>] \in Recording /\ att[<<g, t>>] \in Recording
      BY <2>1 DEF AttemptInv, RecordsOne
    <2>2. CASE att[<<g, s>>] \notin Recording \/ att[<<g, t>>] \notin Recording
      BY <2>2
    <2> QED BY <2>1, <2>2
  <1> QED BY <1>1, <1>2, <1>3

LEMMA ConnectionsKept ==
    ASSUME TypeOK, ServerConnectionLimit,
           \A k \in Ids : InUse(k)' \subseteq InUse(k),
           \A k \in Ids : idle'[k] \in Nat /\ idle'[k] <= idle[k]
    PROVE  ServerConnectionLimit'
  <1> SUFFICES ASSUME NEW k \in Ids
               PROVE  idle'[k] + Cardinality(InUse(k)') <= Permits[k]
    BY DEF ServerConnectionLimit
  <1>1. /\ Cardinality(InUse(k)') <= Cardinality(InUse(k))
        /\ Cardinality(InUse(k)') \in Nat /\ Cardinality(InUse(k)) \in Nat
    BY SetsAreFinite, FS_Subset, FS_CardinalityType
  <1>2. idle[k] + Cardinality(InUse(k)) <= Permits[k]
    BY DEF ServerConnectionLimit
  <1>3. idle[k] \in Nat /\ Permits[k] \in Nat
    BY PoolAssumption DEF TypeOK
  <1> QED BY <1>1, <1>2, <1>3

LEMMA FailCountsKept ==
    ASSUME FailCountBounded, \A k \in Ids : Counting(k)' = Counting(k), UNCHANGED fail_count
    PROVE  FailCountBounded'
  BY DEF FailCountBounded, Counting

(* A permit is held by whoever uses a connection.                          *)
LEMMA RoomToOpen ==
    ASSUME TypeOK, SemaphoreInv, NEW f \in Fetches, NEW s \in Ids, att[<<f, s>>] = "held"
    PROVE  Cardinality(InUse(s) \union {f}) <= Permits[s]
  <1>1. InUse(s) \union {f} \subseteq Holders(s)
    BY DEF InUse, Holders, Holds, Holding
  <1>2. Cardinality(InUse(s) \union {f}) <= Cardinality(Holders(s))
    BY <1>1, SetsAreFinite, FS_Subset
  <1>3. /\ permits[s] + Cardinality(Holders(s)) = Permits[s]
        /\ permits[s] \in Nat /\ Permits[s] \in Nat
    BY PoolAssumption DEF SemaphoreInv, PermitsConserved, TypeOK
  <1>4. Cardinality(InUse(s) \union {f}) \in Nat /\ Cardinality(Holders(s)) \in Nat
    BY <1>1, SetsAreFinite, FS_Subset, FS_CardinalityType
  <1> QED BY <1>2, <1>3, <1>4
-----------------------------------------------------------------------------
(* One lemma per action.                                                   *)

LEMMA StartFetchStep ==
    ASSUME IInv, NEW f \in Fetches, NEW t \in Targets, StartFetch(f, t)
    PROVE  IInv'
  <1>1. Available \subseteq Ids /\ t \in Ids \union {NoTarget}
    BY PoolAssumption DEF Available
  <1>2. TypeOK'
    <2>1. CASE Finish(f, "Blocked") \/ Finish(f, "Failed")
      BY <2>1 DEF IInv, TypeOK, StartFetch, Finish, servers
    <2>2. CASE /\ mode' = [mode EXCEPT ![f] = IF t = NoTarget THEN "blast" ELSE "targeted"]
               /\ todo' = [todo EXCEPT ![f] = Available]
               /\ target' = [target EXCEPT ![f] = t]
               /\ UNCHANGED outcome
      BY <1>1, <2>2 DEF IInv, TypeOK, StartFetch, servers
    <2> QED BY <2>1, <2>2 DEF StartFetch
  <1>3. Pending(f) = {}
    BY DEF IInv, AttemptInv, AtRest, StartFetch
  <1>4. \A g \in Fetches : todo'[g] = todo[g] \/ (g = f /\ todo'[g] \subseteq Ids)
    BY <1>1 DEF StartFetch, Finish, IInv, TypeOK
  <1>5. \A g \in Fetches : mode'[g] = mode[g] \/ g = f
    BY DEF StartFetch, Finish, IInv, TypeOK
  <1>6. AttemptInv'
    <2>1. AtRest'
      BY <1>3, <1>5 DEF IInv, AttemptInv, AtRest, Pending, StartFetch
    <2>2. TodoIsUntried'
      BY <1>3, <1>4 DEF IInv, AttemptInv, TodoIsUntried, Pending, StartFetch
    <2> QED BY <2>1, <2>2 DEF IInv, AttemptInv, RecordsOne, CountedIsCapped, StartFetch
  <1>7. SemaphoreInv' /\ ServerLimits'
    BY DEF IInv, StartFetch, servers, SemaphoreInv, PermitsConserved, QueuesMatch, Holders,
           Holds, ServerLimits, ServerConnectionLimit, FailCountBounded, InUse
  <1> QED BY <1>2, <1>6, <1>7 DEF IInv

LEMMA ExhaustedStep ==
    ASSUME IInv, NEW f \in Fetches, Exhausted(f)
    PROVE  IInv'
  <1>1. TypeOK'
    BY DEF IInv, TypeOK, Exhausted, Finish, servers
  <1>2. /\ \A g \in Fetches : mode'[g] = mode[g] \/ (g = f /\ Pending(f) = {})
        /\ \A g \in Fetches : todo'[g] \subseteq todo[g]
    BY DEF Exhausted, Finish, IInv, TypeOK
  <1>3. AttemptInv'
    BY <1>2 DEF IInv, AttemptInv, AtRest, TodoIsUntried, RecordsOne, CountedIsCapped,
                Pending, Exhausted
  <1>4. SemaphoreInv' /\ ServerLimits'
    BY DEF IInv, Exhausted, servers, SemaphoreInv, PermitsConserved, QueuesMatch, Holders,
           Holds, ServerLimits, ServerConnectionLimit, FailCountBounded, InUse
  <1> QED BY <1>1, <1>3, <1>4 DEF IInv

(* The server tried is one that was not, so nothing is overwritten.        *)
LEMMA AttemptBegins ==
    ASSUME IInv, NEW f \in Fetches, NEW s \in Ids, IsNext(f, s),
           mode[f] \in {"targeted", "blast"},
           todo' = [todo EXCEPT ![f] = @ \ {s}],
           \/ TryAcquire(f, s) \/ Enqueue(f, s)
           \/ UNCHANGED <<permits, waiters, att>>,
           target' = [target EXCEPT ![f] = NoTarget] \/ UNCHANGED target,
           UNCHANGED <<idle, cleaning, fail_count, backoff, mode, counted, outcome>>
    PROVE  IInv'
  <1>1. att[<<f, s>>] = "none"
    BY IsNextType DEF IInv, AttemptInv, TodoIsUntried
  <1>2. SemaphoreTypes' /\ SemaphoreInv'
    <2>1. CASE UNCHANGED <<permits, waiters, att>>
      BY <2>1 DEF IInv, TypeOK, SemaphoreTypes, SemaphoreInv, PermitsConserved, QueuesMatch,
                  Holders, Holds
    <2> QED BY <1>1, <2>1, TryAcquireStep, EnqueueStep DEF IInv
  <1>3. TypeOK'
    BY <1>2 DEF IInv, TypeOK, SemaphoreTypes
  <1>4. \A g \in Fetches, k \in Ids :
           \/ att'[<<g, k>>] = att[<<g, k>>]
           \/ g = f /\ k = s /\ att'[<<g, k>>] \in {"held", "queued"}
    BY DEF TryAcquire, Enqueue, IInv, TypeOK
  <1>5. \A g \in Fetches : todo'[g] = IF g = f THEN todo[g] \ {s} ELSE todo[g]
    BY DEF IInv, TypeOK
  <1>6. AtRest'
    BY <1>4 DEF IInv, AttemptInv, AtRest, Pending
  <1>7. TodoIsUntried'
    <2> SUFFICES ASSUME NEW g \in Fetches, NEW k \in todo'[g]
                 PROVE  att'[<<g, k>>] = "none"
      BY DEF TodoIsUntried
    <2>1. k \in todo[g] /\ k \in Ids /\ ~(g = f /\ k = s)
      BY <1>5 DEF IInv, TypeOK
    <2> QED BY <1>4, <2>1 DEF IInv, AttemptInv, TodoIsUntried
  <1>8. RecordsOne' /\ CountedIsCapped'
    BY <1>4 DEF IInv, AttemptInv, RecordsOne, CountedIsCapped, Recording
  <1>9. \A k \in Ids : InUse(k)' = InUse(k) /\ Counting(k)' = Counting(k)
    BY <1>1, <1>4 DEF InUse, Counting
  <1>10. ServerLimits'
    BY <1>9, FailCountsKept DEF IInv, ServerLimits, ServerConnectionLimit
  <1> QED BY <1>2, <1>3, <1>6, <1>7, <1>8, <1>10 DEF IInv, AttemptInv

LEMMA BlastAttemptStep ==
    ASSUME IInv, NEW f \in Fetches, BlastAttempt(f) PROVE IInv'
  <1>1. PICK s \in Ids :
           /\ IsNext(f, s) /\ todo' = [todo EXCEPT ![f] = @ \ {s}]
           /\ TryAcquire(f, s) \/ Enqueue(f, s)
    BY DEF BlastAttempt
  <1> QED BY <1>1, AttemptBegins DEF BlastAttempt

LEMMA NextServerStep ==
    ASSUME IInv, NEW f \in Fetches, NextServer(f) PROVE IInv'
  <1>1. PICK s \in Ids :
           /\ IsNext(f, s) /\ todo' = [todo EXCEPT ![f] = @ \ {s}]
           /\ \/ TryAcquire(f, s) \/ Enqueue(f, s)
              \/ UNCHANGED <<permits, waiters, att>>
    BY DEF NextServer
  <1> QED BY <1>1, AttemptBegins DEF NextServer

(* The actions that end an attempt and give back what it holds.            *)
LEMMA AttemptEnds ==
    ASSUME IInv, NEW f \in Fetches, NEW s \in Ids, NEW to \in Over,
           GiveUp(f, {s}, to), att[<<f, s>>] \in {"queued"} \union Holding,
           UNCHANGED others
    PROVE  IInv'
  <1>1. /\ SemaphoreTypes' /\ SemaphoreInv'
        /\ \A g \in Fetches, k \in Ids :
              \/ g = f /\ k = s /\ att'[<<g, k>>] = to
              \/ /\ ~(g = f /\ k = s)
                 /\ \/ att'[<<g, k>>] = att[<<g, k>>]
                    \/ att[<<g, k>>] = "queued" /\ att'[<<g, k>>] = "held"
    BY GiveUpStep DEF IInv, Over
  <1>2. TypeOK'
    BY <1>1 DEF IInv, TypeOK, SemaphoreTypes, others
  <1>3. AtRest' /\ TodoIsUntried' /\ RecordsOne'
    <2>1. \A g \in Fetches, k \in Ids :
             /\ att[<<g, k>>] = "none" => att'[<<g, k>>] = "none"
             /\ att'[<<g, k>>] \in Recording => att[<<g, k>>] \in Recording
      BY <1>1 DEF Over, Recording, Holding
    <2>2. \A g \in Fetches : /\ todo'[g] \subseteq todo[g] /\ todo[g] \subseteq Ids
                            /\ mode'[g] = mode[g]
      BY DEF IInv, TypeOK, others
    <2> QED BY <2>1, <2>2, AttemptsGoOn DEF IInv
  <1>4. CountedIsCapped'
    BY DEF IInv, AttemptInv, CountedIsCapped, others
  <1>5. \A k \in Ids : InUse(k)' \subseteq InUse(k) /\ Counting(k)' = Counting(k)
    BY <1>1 DEF InUse, Counting, Over, Recording, Holding
  <1>6. \A k \in Ids : idle'[k] \in Nat /\ idle'[k] <= idle[k]
    BY DEF IInv, TypeOK, others
  <1>7. ServerLimits'
    BY <1>5, <1>6, ConnectionsKept, FailCountsKept DEF IInv, ServerLimits, others
  <1> QED BY <1>1, <1>2, <1>3, <1>4, <1>7 DEF IInv, AttemptInv

LEMMA AttemptEndStep ==
    ASSUME IInv, NEW f \in Fetches, NEW s \in Ids,
           \/ PermitTimeout(f, s) \/ GotData(f, s)
           \/ NotFound(f, s) \/ FetchError(f, s)
    PROVE  IInv'
  <1>1. {"none", "data", "missing", "error"} \subseteq Over
    BY DEF Over, Status, Holding, Recording
  <1>2. PICK to \in {"none", "data", "missing", "error"} : GiveUp(f, {s}, to)
    BY DEF PermitTimeout, GotData, NotFound, FetchError, EndWith
  <1>3. att[<<f, s>>] \in {"queued"} \union Holding
    BY DEF PermitTimeout, GotData, NotFound, FetchError, Holding
  <1>4. UNCHANGED others
    BY DEF PermitTimeout, GotData, NotFound, FetchError, EndWith, others
  <1> QED BY <1>1, <1>2, <1>3, <1>4, AttemptEnds

(* All attempts of the fetch end; none of the others is being recorded.    *)
LEMMA ReturnDataStep ==
    ASSUME IInv, NEW f \in Fetches, NEW s \in Ids, ReturnData(f, s)
    PROVE  IInv'
  <1>1. "none" \in Over
    BY DEF Over, Status, Holding, Recording
  <1>2. /\ SemaphoreTypes' /\ SemaphoreInv'
        /\ \A g \in Fetches, k \in Ids :
              \/ g = f /\ att'[<<g, k>>] = "none"
              \/ /\ g # f
                 /\ \/ att'[<<g, k>>] = att[<<g, k>>]
                    \/ att[<<g, k>>] = "queued" /\ att'[<<g, k>>] = "held"
    BY <1>1, GiveUpStep DEF IInv, ReturnData
  <1>3. TypeOK'
    BY <1>2 DEF IInv, TypeOK, SemaphoreTypes, ReturnData, Finish
  <1>4. AtRest' /\ TodoIsUntried' /\ RecordsOne'
    <2>1. \A g \in Fetches, k \in Ids :
             /\ att[<<g, k>>] = "none" => att'[<<g, k>>] = "none"
             /\ att'[<<g, k>>] \in Recording => att[<<g, k>>] \in Recording
      BY <1>2 DEF Recording
    <2>2. \A g \in Fetches : todo'[g] \subseteq todo[g] /\ todo[g] \subseteq Ids
      BY DEF IInv, TypeOK, ReturnData, Finish
    <2>3. \A g \in Fetches : mode'[g] \in {"off", "done"} =>
             mode'[g] = mode[g] \/ \A k \in Ids : att'[<<g, k>>] = "none"
      BY <1>2 DEF IInv, TypeOK, ReturnData, Finish
    <2> QED BY <2>1, <2>2, <2>3, AttemptsGoOn DEF IInv
  <1>5. CountedIsCapped'
    BY DEF IInv, AttemptInv, CountedIsCapped, ReturnData
  <1>6. \A k \in Ids : att[<<f, k>>] # "counted"
    BY DEF IInv, AttemptInv, RecordsOne, Recording, ReturnData
  <1>7. \A k \in Ids : InUse(k)' \subseteq InUse(k) /\ Counting(k)' = Counting(k)
    BY <1>2, <1>6 DEF InUse, Counting
  <1>8. \A k \in Ids : idle'[k] \in Nat /\ idle'[k] <= idle[k]
    BY DEF IInv, TypeOK, ReturnData
  <1>9. ServerLimits'
    BY <1>7, <1>8, ConnectionsKept, FailCountsKept DEF IInv, ServerLimits, ReturnData
  <1> QED BY <1>2, <1>3, <1>4, <1>5, <1>9 DEF IInv, AttemptInv
-----------------------------------------------------------------------------
(* An attempt goes on: what every such step leaves alone.                  *)
AttemptKept == UNCHANGED <<permits, waiters, mode, todo, target, outcome>>

LEMMA AttemptGoesOn ==
    ASSUME IInv, NEW f \in Fetches, NEW s \in Ids,
           NEW from \in Status \ {"queued", "none"}, NEW to \in Status \ {"queued"},
           from \in Holding <=> to \in Holding,
           to \in Recording => from \in Recording \/ ~Settling(f),
           To(f, s, from, to), AttemptKept
    PROVE  /\ SemaphoreTypes' /\ SemaphoreInv'
           /\ AtRest' /\ TodoIsUntried' /\ RecordsOne'
           /\ att[<<f, s>>] = from
           /\ \A g \in Fetches, k \in Ids :
                 att'[<<g, k>>] = IF g = f /\ k = s THEN to ELSE att[<<g, k>>]
  <1>1. /\ att[<<f, s>>] = from
        /\ \A g \in Fetches, k \in Ids :
              att'[<<g, k>>] = IF g = f /\ k = s THEN to ELSE att[<<g, k>>]
    BY DEF To, IInv, TypeOK
  <1>2. SemaphoreTypes' /\ SemaphoreInv'
    BY ToStep DEF IInv, AttemptKept
  <1>3. AtRest' /\ TodoIsUntried' /\ RecordsOne'
    <2>1. ASSUME NEW g \in Fetches, NEW k \in Ids, att'[<<g, k>>] \in Recording
          PROVE  \/ att[<<g, k>>] \in Recording
                 \/ g = f /\ ~Settling(f)
                       /\ \A l \in Ids : att'[<<f, l>>] \in Recording => l = k
      <3>1. CASE g = f /\ k = s /\ ~Settling(f)
        BY <1>1, <3>1 DEF Settling, Recording
      <3>2. CASE ~(g = f /\ k = s)
        BY <1>1, <2>1, <3>2
      <3>3. CASE g = f /\ k = s /\ Settling(f)
        BY <1>1, <2>1, <3>3
      <3> QED BY <3>1, <3>2, <3>3
    <2>2. \A g \in Fetches, k \in Ids : att[<<g, k>>] = "none" => att'[<<g, k>>] = "none"
      BY <1>1
    <2>3. \A g \in Fetches : /\ todo'[g] \subseteq todo[g] /\ todo[g] \subseteq Ids
                            /\ mode'[g] = mode[g]
      BY DEF IInv, TypeOK, AttemptKept
    <2> QED BY <2>1, <2>2, <2>3, AttemptsGoOn DEF IInv
  <1> QED BY <1>1, <1>2, <1>3

(* A connection is taken into use; the idle ones were counted, and a new   *)
(* one is opened when none is left.                                        *)
LEMMA ConnectStep ==
    ASSUME IInv, NEW f \in Fetches, NEW s \in Ids, Reuse(f, s) \/ Open(f, s)
    PROVE  IInv'
  <1> USE DEF attempt
  <1>1. To(f, s, "held", "reading") /\ AttemptKept
    BY DEF Reuse, Open, AttemptKept
  <1>2. /\ SemaphoreTypes' /\ SemaphoreInv'
        /\ AtRest' /\ TodoIsUntried' /\ RecordsOne'
        /\ att[<<f, s>>] = "held"
        /\ \A g \in Fetches, k \in Ids :
              att'[<<g, k>>] = IF g = f /\ k = s THEN "reading" ELSE att[<<g, k>>]
    BY <1>1, AttemptGoesOn DEF Status, Holding, Recording
  <1>3. \A k \in Ids : idle'[k] =
           IF k = s THEN IF Reuse(f, s) THEN idle[k] - 1 ELSE 0 ELSE idle[k]
    BY DEF Reuse, Open, IInv, TypeOK
  <1>4. TypeOK'
    BY <1>2 DEF IInv, TypeOK, SemaphoreTypes, Reuse, Open
  <1>5. CountedIsCapped'
    BY DEF IInv, AttemptInv, CountedIsCapped, Reuse, Open
  <1>6. \A k \in Ids : Counting(k)' = Counting(k)
    BY <1>2 DEF Counting
  <1>7. FailCountBounded'
    BY <1>6, FailCountsKept DEF IInv, ServerLimits, Reuse, Open
  <1>8. ASSUME NEW k \in Ids PROVE idle'[k] + Cardinality(InUse(k)') <= Permits[k]
    <2>0. /\ idle[k] \in Nat /\ Permits[k] \in Nat /\ Cardinality(InUse(k)) \in Nat
          /\ idle[k] + Cardinality(InUse(k)) <= Permits[k]
      BY SetsAreFinite, PoolAssumption
         DEF IInv, TypeOK, ServerLimits, ServerConnectionLimit
    <2>1. CASE k # s
      <3>1. InUse(k)' = InUse(k) /\ idle'[k] = idle[k]
        BY <1>2, <1>3, <2>1 DEF InUse
      <3> QED BY <2>0, <3>1
    <2>2. CASE k = s
      <3>1. f \notin InUse(s) /\ InUse(s)' = InUse(s) \union {f}
        BY <1>2 DEF InUse
      <3>2. Cardinality(InUse(s)') = Cardinality(InUse(s)) + 1
        BY <3>1, SetsAreFinite, FS_AddElement
      <3>3. Cardinality(InUse(s)') <= Permits[s]
        BY <1>2, <3>1, RoomToOpen DEF IInv
      <3>4. CASE Reuse(f, s)
        <4>1. idle'[s] = idle[s] - 1
          BY <3>4 DEF Reuse, IInv, TypeOK
        <4> QED BY <2>0, <2>2, <3>2, <4>1
      <3>5. CASE ~Reuse(f, s)
        BY <1>3, <2>0, <2>2, <3>2, <3>3, <3>5
      <3> QED BY <3>4, <3>5
    <2> QED BY <2>1, <2>2
  <1> QED BY <1>2, <1>4, <1>5, <1>7, <1>8
          DEF IInv, AttemptInv, ServerLimits, ServerConnectionLimit

LEMMA ReturnConnectionStep ==
    ASSUME IInv, NEW f \in Fetches, NEW s \in Ids, ReturnConnection(f, s)
    PROVE  IInv'
  <1> USE DEF attempt
  <1>1. To(f, s, "reading", "returned") /\ AttemptKept
    BY DEF ReturnConnection, AttemptKept
  <1>2. /\ SemaphoreTypes' /\ SemaphoreInv'
        /\ AtRest' /\ TodoIsUntried' /\ RecordsOne'
        /\ att[<<f, s>>] = "reading"
        /\ \A g \in Fetches, k \in Ids :
              att'[<<g, k>>] = IF g = f /\ k = s THEN "returned" ELSE att[<<g, k>>]
    BY <1>1, AttemptGoesOn DEF Status, Holding, Recording
  <1>3. \A k \in Ids : idle'[k] =
           IF k = s /\ idle[s] < Permits[s] THEN idle[k] + 1 ELSE idle[k]
    BY DEF ReturnConnection, IInv, TypeOK
  <1>4. TypeOK'
    <2>1. ASSUME NEW k \in Ids PROVE idle'[k] \in Nat
      <3>1. idle[k] \in Nat /\ idle[s] \in Nat
        BY DEF IInv, TypeOK
      <3> QED BY <1>3, <3>1
    <2>2. idle' \in [Ids -> Nat]
      BY <2>1 DEF ReturnConnection, IInv, TypeOK
    <2> QED BY <1>2, <2>2 DEF IInv, TypeOK, SemaphoreTypes, ReturnConnection
  <1>5. CountedIsCapped'
    BY DEF IInv, AttemptInv, CountedIsCapped, ReturnConnection
  <1>6. \A k \in Ids : Counting(k)' = Counting(k)
    BY <1>2 DEF Counting
  <1>7. FailCountBounded'
    BY <1>6, FailCountsKept DEF IInv, ServerLimits, ReturnConnection
  <1>8. ASSUME NEW k \in Ids PROVE idle'[k] + Cardinality(InUse(k)') <= Permits[k]
    <2>0. /\ idle[k] \in Nat /\ Permits[k] \in Nat /\ Cardinality(InUse(k)) \in Nat
          /\ idle[k] + Cardinality(InUse(k)) <= Permits[k]
      BY SetsAreFinite, PoolAssumption
         DEF IInv, TypeOK, ServerLimits, ServerConnectionLimit
    <2>1. CASE k # s
      <3>1. InUse(k)' = InUse(k) /\ idle'[k] = idle[k]
        BY <1>2, <1>3, <2>1 DEF InUse
      <3> QED BY <2>0, <3>1
    <2>2. CASE k = s
      <3>1. f \in InUse(s) /\ InUse(s)' = InUse(s) \ {f}
        BY <1>2 DEF InUse
      <3>2. Cardinality(InUse(s)') = Cardinality(InUse(s)) - 1
        BY <3>1, SetsAreFinite, FS_RemoveElement
      <3> QED BY <1>3, <2>0, <2>2, <3>2
    <2> QED BY <2>1, <2>2
  <1> QED BY <1>2, <1>4, <1>5, <1>7, <1>8
          DEF IInv, AttemptInv, ServerLimits, ServerConnectionLimit
(* The result of an attempt is recorded.                                   *)
LEMMA RecordStep ==
    ASSUME IInv, NEW f \in Fetches, NEW s \in Ids,
           NEW from \in Recording \union {"missing", "error", "data"},
           NEW to \in Recording \union {"none"},
           from \notin Recording => ~Settling(f),
           To(f, s, from, to), UNCHANGED recording,
           backoff' \in [Ids -> BOOLEAN],
           counted' \in [Fetches -> Nat], CountedIsCapped',
           fail_count' \in [Ids -> Nat], FailCountBounded'
    PROVE  IInv'
  <1> USE DEF recording
  <1>1. AttemptKept
    BY DEF AttemptKept
  <1>2. /\ SemaphoreTypes' /\ SemaphoreInv'
        /\ AtRest' /\ TodoIsUntried' /\ RecordsOne'
        /\ att[<<f, s>>] = from
        /\ \A g \in Fetches, k \in Ids :
              att'[<<g, k>>] = IF g = f /\ k = s THEN to ELSE att[<<g, k>>]
    BY <1>1, AttemptGoesOn DEF Status, Holding, Recording
  <1>3. TypeOK'
    BY <1>2 DEF IInv, TypeOK, SemaphoreTypes
  <1>4. \A k \in Ids : InUse(k)' = InUse(k)
    BY <1>2 DEF InUse, Recording
  <1>5. ServerConnectionLimit'
    BY <1>4 DEF IInv, ServerLimits, ServerConnectionLimit
  <1> QED BY <1>2, <1>3, <1>5 DEF IInv, AttemptInv, ServerLimits

(* Who is counted there after a step of f on server s.                     *)
LEMMA CountingAfter ==
    ASSUME IInv, NEW f \in Fetches, NEW s \in Ids, NEW from, NEW to, To(f, s, from, to)
    PROVE  \A k \in Ids : Counting(k)' =
              IF k # s THEN Counting(k)
              ELSE IF to = "counted" THEN Counting(k) \union {f} ELSE Counting(k) \ {f}
  BY DEF To, IInv, TypeOK, Counting

LEMMA MissingStep ==
    ASSUME IInv, NEW f \in Fetches, NEW s \in Ids, Missing(f, s)
    PROVE  IInv'
  <1> USE DEF recording
  <1>1. To(f, s, "missing", "none") /\ ~Settling(f)
    BY DEF Missing
  <1>2. \A k \in Ids : Counting(k)' = Counting(k)
    BY <1>1, CountingAfter DEF To, Counting
  <1>3. FailCountBounded' /\ CountedIsCapped'
    BY <1>2, FailCountsKept
       DEF Missing, IInv, ServerLimits, AttemptInv, CountedIsCapped
  <1> QED BY <1>1, <1>3, RecordStep DEF Missing, IInv, TypeOK

LEMMA CountFailureStep ==
    ASSUME IInv, NEW f \in Fetches, NEW s \in Ids, CountFailure(f, s)
    PROVE  IInv'
  <1>1. To(f, s, "error", "counted") /\ ~Settling(f) /\ att[<<f, s>>] = "error"
    BY DEF CountFailure, To
  <1>2. /\ fail_count \in [Ids -> Nat] /\ FailCap \in Nat /\ counted \in [Fetches -> Nat]
    BY PoolAssumption DEF IInv, TypeOK
  <1>3. fail_count' \in [Ids -> Nat]
    BY <1>2 DEF CountFailure
  <1>4. counted' \in [Fetches -> Nat] /\ CountedIsCapped'
    BY <1>2 DEF CountFailure, IInv, AttemptInv, CountedIsCapped
  <1>5. FailCountBounded'
    <2> SUFFICES ASSUME NEW k \in Ids
                 PROVE  fail_count'[k] <= FailCap + Cardinality(Counting(k)')
      BY DEF FailCountBounded, Counting
    <2>1. /\ fail_count[k] <= FailCap + Cardinality(Counting(k))
          /\ Cardinality(Counting(k)) \in Nat
      BY SetsAreFinite DEF IInv, ServerLimits, FailCountBounded, Counting
    <2>2. CASE k = s
      <3>1. f \notin Counting(k) /\ Counting(k)' = Counting(k) \union {f}
        BY <1>1, <2>2, CountingAfter DEF Counting
      <3>2. Cardinality(Counting(k)') = Cardinality(Counting(k)) + 1
        BY <3>1, SetsAreFinite, FS_AddElement
      <3>3. fail_count'[k] = fail_count[k] + 1
        BY <1>2, <2>2 DEF CountFailure
      <3> QED BY <1>2, <2>1, <3>2, <3>3
    <2>3. CASE k # s
      <3>1. Counting(k)' = Counting(k)
        BY <1>1, <2>3, CountingAfter
      <3>2. fail_count'[k] = fail_count[k]
        BY <1>2, <2>3 DEF CountFailure
      <3> QED BY <2>1, <3>1, <3>2
    <2> QED BY <2>2, <2>3
  <1> QED BY <1>1, <1>3, <1>4, <1>5, RecordStep DEF CountFailure, IInv, TypeOK, Recording

LEMMA StoreCountStep ==
    ASSUME IInv, NEW f \in Fetches, NEW s \in Ids, StoreCount(f, s)
    PROVE  IInv'
  <1>1. To(f, s, "counted", "stored")
    BY DEF StoreCount
  <1>2. /\ fail_count \in [Ids -> Nat] /\ FailCap \in Nat /\ counted \in [Fetches -> Nat]
        /\ \A g \in Fetches : counted[g] <= FailCap
    BY PoolAssumption DEF IInv, TypeOK, AttemptInv, CountedIsCapped
  <1>3. fail_count' \in [Ids -> Nat] /\ counted' \in [Fetches -> Nat] /\ CountedIsCapped'
    BY <1>2 DEF StoreCount, CountedIsCapped
  <1>4. FailCountBounded'
    <2> SUFFICES ASSUME NEW k \in Ids
                 PROVE  fail_count'[k] <= FailCap + Cardinality(Counting(k)')
      BY DEF FailCountBounded, Counting
    <2>1. fail_count[k] <= FailCap + Cardinality(Counting(k))
      BY DEF IInv, ServerLimits, FailCountBounded, Counting
    <2>2. CASE k = s
      <3>1. Counting(k)' = Counting(k) \ {f}
        BY <1>1, <2>2, CountingAfter
      <3>2. Cardinality(Counting(k)') \in Nat
        BY <3>1, SetsAreFinite, FS_Subset, FS_CardinalityType
      <3>3. fail_count'[k] = counted[f]
        BY <1>2, <2>2 DEF StoreCount
      <3> QED BY <1>2, <3>2, <3>3
    <2>3. CASE k # s
      <3>1. Counting(k)' = Counting(k)
        BY <1>1, <2>3, CountingAfter
      <3>2. fail_count'[k] = fail_count[k]
        BY <1>2, <2>3 DEF StoreCount
      <3> QED BY <2>1, <3>1, <3>2
    <2> QED BY <2>2, <2>3
  <1> QED BY <1>1, <1>3, <1>4, RecordStep DEF StoreCount, IInv, TypeOK, Recording

LEMMA StoreDeadlineStep ==
    ASSUME IInv, NEW f \in Fetches, NEW s \in Ids, StoreDeadline(f, s)
    PROVE  IInv'
  <1>1. To(f, s, "stored", "none")
    BY DEF StoreDeadline
  <1>2. \A k \in Ids : Counting(k)' = Counting(k)
    BY <1>1, CountingAfter DEF To, Counting
  <1>3. FailCountBounded' /\ CountedIsCapped'
    BY <1>2, FailCountsKept
       DEF StoreDeadline, IInv, ServerLimits, AttemptInv, CountedIsCapped
  <1> QED BY <1>1, <1>3, RecordStep DEF StoreDeadline, IInv, TypeOK, Recording

LEMMA ResetCountStep ==
    ASSUME IInv, NEW f \in Fetches, NEW s \in Ids, ResetCount(f, s)
    PROVE  IInv'
  <1>1. To(f, s, "data", "reset") /\ ~Settling(f)
    BY DEF ResetCount
  <1>2. \A k \in Ids : Counting(k)' = Counting(k)
    BY <1>1, CountingAfter DEF To, Counting
  <1>3. FailCountBounded'
    <2> SUFFICES ASSUME NEW k \in Ids
                 PROVE  fail_count'[k] <= FailCap + Cardinality(Counting(k))
      BY <1>2 DEF FailCountBounded, Counting
    <2>1. fail_count[k] <= FailCap + Cardinality(Counting(k)) /\ Cardinality(Counting(k)) \in Nat
      BY SetsAreFinite DEF IInv, ServerLimits, FailCountBounded, Counting
    <2>2. fail_count'[k] = IF k = s THEN 0 ELSE fail_count[k]
      BY DEF ResetCount, IInv, TypeOK
    <2> QED BY <2>1, <2>2, PoolAssumption
  <1>4. CountedIsCapped' /\ fail_count' \in [Ids -> Nat]
    BY DEF ResetCount, IInv, AttemptInv, CountedIsCapped, TypeOK
  <1> QED BY <1>1, <1>3, <1>4, RecordStep DEF ResetCount, IInv, TypeOK, Recording
-----------------------------------------------------------------------------
(* Steps of no fetch.                                                      *)

LEMMA ServerStep ==
    ASSUME IInv, NEW k \in Ids, BackoffEnds(k) \/ CleanupBegin(k) \/ CleanupEnd(k)
    PROVE  IInv'
  <1> USE DEF calls
  <1>1. UNCHANGED <<permits, waiters, fail_count, mode, todo, target, att, counted, outcome>>
    BY DEF BackoffEnds, CleanupBegin, CleanupEnd
  <1>2. \A l \in Ids : idle'[l] \in Nat /\ idle'[l] <= idle[l]
    <2> SUFFICES ASSUME NEW l \in Ids PROVE idle'[l] \in Nat /\ idle'[l] <= idle[l]
      OBVIOUS
    <2>0. idle[l] \in Nat /\ idle[k] \in Nat
      BY DEF IInv, TypeOK
    <2>1. CASE BackoffEnds(k) \/ CleanupBegin(k)
      <3>1. idle' = idle
        BY <2>1 DEF BackoffEnds, CleanupBegin
      <3> QED BY <2>0, <3>1
    <2>2. CASE CleanupEnd(k)
      <3>1. PICK kept \in 0..idle[k] : idle' = [idle EXCEPT ![k] = kept]
        BY <2>2 DEF CleanupEnd
      <3>2. idle'[l] = IF l = k THEN kept ELSE idle[l]
        BY <3>1 DEF IInv, TypeOK
      <3> QED BY <2>0, <3>2
    <2> QED BY <2>1, <2>2
  <1>3. TypeOK'
    <2>1. idle' \in [Ids -> Nat]
      BY <1>2 DEF BackoffEnds, CleanupBegin, CleanupEnd, IInv, TypeOK
    <2>2. cleaning' \in [Ids -> BOOLEAN] /\ backoff' \in [Ids -> BOOLEAN]
      BY DEF BackoffEnds, CleanupBegin, CleanupEnd, IInv, TypeOK
    <2> QED BY <1>1, <2>1, <2>2 DEF IInv, TypeOK
  <1>4. SemaphoreInv' /\ AttemptInv'
    BY <1>1 DEF IInv, SemaphoreInv, PermitsConserved, QueuesMatch, Holders, Holds,
                AttemptInv, AtRest, TodoIsUntried, RecordsOne, CountedIsCapped, Pending
  <1>5. \A l \in Ids : InUse(l)' = InUse(l) /\ Counting(l)' = Counting(l)
    BY <1>1 DEF InUse, Counting
  <1>6. ServerLimits'
    BY <1>1, <1>2, <1>5, ConnectionsKept, FailCountsKept DEF IInv, ServerLimits
  <1> QED BY <1>3, <1>4, <1>6 DEF IInv

LEMMA InitInv == Init => IInv
  <1> SUFFICES ASSUME Init PROVE IInv
    OBVIOUS
  <1>1. TypeOK
    BY PoolAssumption, EmptySeq DEF Init, TypeOK, Status
  <1>2. \A k \in Ids : Holders(k) = {} /\ InUse(k) = {} /\ Counting(k) = {}
    BY DEF Init, Holders, Holds, Holding, InUse, Counting
  <1>3. Cardinality({}) = 0
    BY FS_EmptySet
  <1>4. ASSUME NEW k \in Ids
        PROVE  /\ permits[k] + Cardinality(Holders(k)) = Permits[k]
               /\ idle[k] + Cardinality(InUse(k)) <= Permits[k]
               /\ fail_count[k] <= FailCap + Cardinality(Counting(k))
    <2>1. Permits[k] \in Nat /\ FailCap \in Nat
      BY PoolAssumption
    <2>2. permits[k] = Permits[k] /\ idle[k] = 0 /\ fail_count[k] = 0
      BY DEF Init
    <2> QED BY <1>2, <1>3, <2>1, <2>2
  <1>7. PermitsConserved /\ ServerLimits
    BY <1>4 DEF PermitsConserved, ServerLimits, ServerConnectionLimit, FailCountBounded, Counting
  <1>5. QueuesMatch
    BY DEF Init, QueuesMatch, IsInjective, Range
  <1>6. AttemptInv
    BY PoolAssumption DEF Init, AttemptInv, AtRest, Pending, TodoIsUntried, RecordsOne,
                          CountedIsCapped, Recording
  <1> QED BY <1>1, <1>5, <1>6, <1>7 DEF IInv, SemaphoreInv

LEMMA NextInv == IInv /\ [Next]_vars => IInv'
  <1> SUFFICES ASSUME IInv, [Next]_vars PROVE IInv'
    OBVIOUS
  <1>1. CASE UNCHANGED vars
    BY <1>1 DEF vars, servers, calls, IInv, TypeOK, SemaphoreInv, PermitsConserved, QueuesMatch,
                Holders, Holds, AttemptInv, AtRest, TodoIsUntried, RecordsOne, CountedIsCapped,
                Pending, ServerLimits, ServerConnectionLimit, FailCountBounded, InUse
  <1>2. ASSUME NEW f \in Fetches, Proceed(f) PROVE IInv'
    BY <1>2, BlastAttemptStep, NextServerStep, ExhaustedStep, ConnectStep, ReturnConnectionStep,
       AttemptEndStep, MissingStep, CountFailureStep, StoreCountStep, StoreDeadlineStep,
       ResetCountStep, ReturnDataStep DEF Proceed
  <1>3. ASSUME NEW f \in Fetches, NEW t \in Targets, StartFetch(f, t) PROVE IInv'
    BY <1>3, StartFetchStep
  <1>4. ASSUME NEW k \in Ids, BackoffEnds(k) \/ CleanupBegin(k) \/ CleanupEnd(k) PROVE IInv'
    BY <1>4, ServerStep
  <1> QED BY <1>1, <1>2, <1>3, <1>4 DEF Next

(* The permits of every server are conserved, its queue names who waits,   *)
(* each server is tried once by a call, and one result recorded at a time. *)
THEOREM PoolInvCorrect == Spec => []IInv
  <1>1. Init => IInv
    BY InitInv
  <1>2. IInv /\ [Next]_vars => IInv'
    BY NextInv
  <1> QED BY <1>1, <1>2, PTL DEF Spec

(* A server never has more connections open than it is configured for, the *)
(* idle ones of its pool included, and its failure count passes its cap    *)
(* only by the failures that are being stored: for any number of servers,  *)
(* connections and fetches.                                                *)
THEOREM LimitsAreKept == Spec => []ServerLimits
  <1>1. IInv => ServerLimits
    BY DEF IInv
  <1> QED BY <1>1, PoolInvCorrect, PTL

(* A fetch that has returned holds no permit and waits in no queue, so the *)
(* attempts that a blast drops leave nothing behind.                       *)
THEOREM NothingIsLeftBehind == Spec => []ReturnedHoldsNothing
  <1>1. IInv => ReturnedHoldsNothing
    <2> SUFFICES ASSUME IInv, NEW f \in Fetches, mode[f] = "done"
                 PROVE  Pending(f) = {} /\ \A k \in Ids : f \notin Range(waiters[k])
      BY DEF ReturnedHoldsNothing
    <2>1. Pending(f) = {}
      BY DEF IInv, AttemptInv, AtRest
    <2>2. \A k \in Ids : att[<<f, k>>] = "none"
      BY <2>1 DEF Pending
    <2> QED BY <2>1, <2>2 DEF IInv, SemaphoreInv, QueuesMatch
  <1> QED BY <1>1, PoolInvCorrect, PTL

(* Every variable of the pool keeps its type.                              *)
THEOREM PoolTypeCorrect == Spec => []TypeOK
  <1>1. IInv => TypeOK
    BY DEF IInv
  <1> QED BY <1>1, PoolInvCorrect, PTL
=============================================================================
