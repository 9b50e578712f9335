----------------------- MODULE DownloadLifecycleProofs -----------------------
(* What follows from the life cycle for any NZBs and articles.             *)
EXTENDS DownloadLifecycle, TLAPS

TypeInv ==
    /\ phase \in [Ids -> Phases]
    /\ inflight \subseteq Articles /\ settled \subseteq Articles

(* What is on its way has been started under an id that is allocated, and  *)
(* has no outcome yet.                                                     *)
FlightInv ==
    \A a \in inflight : a \notin settled /\ phase[a[1]] # "unborn"

LateInv == TypeInv /\ FlightInv /\ NothingArrivesLate

LEMMA NextLate == LateInv /\ [Next]_vars => LateInv'
  <1> SUFFICES ASSUME LateInv, [Next]_vars PROVE LateInv'
    OBVIOUS
  <1> USE DEF LateInv, TypeInv, FlightInv, NothingArrivesLate, Phases
  <1>1. \A a \in Articles : a[1] \in Ids
    BY DEF Articles
  <1>2. ASSUME NEW n \in Ids, Add(n) PROVE LateInv'
    BY <1>1, <1>2 DEF Add, NextId
  <1>3. ASSUME NEW n \in Ids, Finish(n) PROVE LateInv'
    BY <1>1, <1>3 DEF Finish
  <1>4. ASSUME NEW n \in Ids, Remove(n) PROVE LateInv'
    BY <1>1, <1>4 DEF Remove
  <1>5. ASSUME NEW n \in Ids, NEW h \in Ids, Return(h, n) PROVE LateInv'
    <2>1. PICK p \in {"queued", "post"}, S \in {{}, {<<n, a[2]>> : a \in Of(h, settled)}} :
             /\ phase' = [phase EXCEPT ![h] = "gone", ![n] = p]
             /\ settled' = (settled \ Of(h, settled)) \union S
      BY <1>5 DEF Return
    <2>2. phase[n] = "unborn" /\ phase[h] = "history" /\ UNCHANGED inflight
      BY <1>5 DEF Return, NextId
    <2>3. S \subseteq {n} \X Parts
      BY <2>1 DEF Of, Articles
    <2>4. TypeInv'
      BY <2>1, <2>2, <2>3 DEF Articles
    <2>5. \A a \in inflight : a \notin S /\ a[1] # n
      BY <2>2, <2>3
    <2>6. FlightInv' /\ NothingArrivesLate'
      BY <1>1, <2>1, <2>2, <2>5
    <2> QED BY <2>4, <2>6
  <1>6. ASSUME NEW a \in Articles, Start(a) PROVE LateInv'
    BY <1>1, <1>6 DEF Start
  <1>7. ASSUME NEW a \in Articles, Drop(a) PROVE LateInv'
    BY <1>7 DEF Drop
  <1>8. ASSUME NEW a \in Articles, Settle(a) PROVE LateInv'
    <2>1. PICK p \in {"queued", "post", "history"} :
             /\ p = "post" => Complete(a[1], settled')
             /\ phase' = [phase EXCEPT ![a[1]] = p]
      BY <1>8 DEF Settle
    <2>2. inflight' = inflight \ {a} /\ settled' = settled \union {a}
      BY <1>8 DEF Settle
    <2>3. TypeInv' /\ FlightInv'
      BY <1>1, <2>1, <2>2
    <2>4. ASSUME NEW b \in inflight', phase'[b[1]] = "post" PROVE FALSE
      <3>1. b \in Articles /\ b \in inflight /\ b \notin settled'
        BY <2>2, <2>3
      <3>2. b[1] = a[1] /\ p = "post"
        BY <1>1, <2>1, <2>4, <3>1
      <3>3. <<a[1], b[2]>> \in settled' /\ b = <<a[1], b[2]>>
        BY <2>1, <3>1, <3>2 DEF Complete, Articles
      <3> QED BY <3>1, <3>3
    <2> QED BY <2>3, <2>4
  <1>9. CASE Halt
    BY <1>9 DEF Halt
  <1>10. CASE UNCHANGED vars
    BY <1>10 DEF vars
  <1> QED
    BY <1>2, <1>3, <1>4, <1>5, <1>6, <1>7, <1>8, <1>9, <1>10 DEF Next

(* Post-processing starts after the last result: whatever is removed,      *)
(* returned or given up, no article of an NZB is on its way while it is    *)
(* post-processed.                                                         *)
THEOREM PostProcessingComesLast == Spec => []NothingArrivesLate
  <1>1. Init => LateInv
    BY DEF Init, LateInv, TypeInv, FlightInv, NothingArrivesLate, Phases
  <1>2. LateInv /\ [Next]_vars => LateInv'
    BY NextLate
  <1>3. LateInv => NothingArrivesLate
    BY DEF LateInv
  <1> QED BY <1>1, <1>2, <1>3, PTL DEF Spec

(* No id is used for two NZBs, or for one NZB twice.                       *)
THEOREM IdsAreNeverReused == Spec => IdsLiveOnce
  <1> DEFINE Kept ==
        \A n \in Ids :
           /\ phase[n] # "unborn" => phase'[n] # "unborn"
           /\ phase[n] = "gone" => phase'[n] = "gone"
           /\ phase[n] = "history" => phase'[n] \in {"history", "gone"}
  <1>1. Init => TypeInv /\ LateInv
    BY DEF Init, LateInv, TypeInv, FlightInv, NothingArrivesLate, Phases
  <1>2. LateInv /\ [Next]_vars => LateInv'
    BY NextLate
  <1>3. LateInv /\ [Next]_vars => [Kept]_vars
    <2> SUFFICES ASSUME TypeInv, Next PROVE Kept
      BY DEF LateInv
    <2> USE DEF TypeInv
    <2>1. \A a \in Articles : a[1] \in Ids
      BY DEF Articles
    <2>2. ASSUME NEW n \in Ids,
                 \/ Add(n) \/ Finish(n) \/ Remove(n) \/ \E h \in Ids : Return(h, n)
          PROVE  Kept
      BY <2>2 DEF Add, Finish, Remove, Return, NextId
    <2>3. ASSUME NEW a \in Articles, Start(a) \/ Drop(a) \/ Settle(a)
          PROVE  Kept
      BY <2>1, <2>3 DEF Start, Drop, Settle
    <2>4. CASE Halt
      BY <2>4 DEF Halt
    <2> QED BY <2>2, <2>3, <2>4 DEF Next
  <1> QED BY <1>1, <1>2, <1>3, PTL DEF Spec, IdsLiveOnce
=============================================================================
