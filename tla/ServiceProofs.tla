--------------------------- MODULE ServiceProofs ----------------------------
(* What is proved of the services around the downloads: the log, the       *)
(* post-processor's steps on the files, what clients are shown, the feeds, *)
(* the configuration, the statistics of the servers.                       *)
EXTENDS PostProcessor, StatusViews, LogBuffer, Feeds, Configuration, ServerVolumes, SequenceLemmas

-----------------------------------------------------------------------------
(* LogBuffer.                                                              *)
LogSpec == LogInit /\ [][LogNext]_logVars

LogTypes ==
    /\ messages \in Seq(Nat) /\ pushed \in Seq(Nat) /\ page \in Seq(Nat)
    /\ next_message_id \in Nat \ {0} /\ lastID \in Nat /\ pushing \in [Writers -> Nat]

(* No id is used twice, and the page goes on after one that was used.      *)
LogIds ==
    /\ \A i \in 1..Len(pushed) : pushed[i] # 0 /\ pushed[i] < next_message_id
    /\ \A i, j \in 1..Len(pushed) : pushed[i] = pushed[j] => i = j
    /\ \A w \in Writers : pushing[w] < next_message_id
    /\ \A w \in Writers, i \in 1..Len(pushed) : pushed[i] # pushing[w]
    /\ \A v, w \in Writers : pushing[v] = pushing[w] => v = w \/ pushing[v] = 0
    /\ lastID = 0 \/ \E i \in 1..Len(pushed) : lastID = pushed[i]

(* The log holds the newest messages, in their order.                      *)
LogIsNewest ==
    /\ Len(messages) <= LogCapacity /\ Len(messages) <= Len(pushed)
    /\ \A i \in 1..Len(messages) : messages[i] = pushed[Len(pushed) - Len(messages) + i]

PageIsRight ==
    /\ \A i \in 1..Len(messages) :
          messages[i] \in Range(page) \/ messages[i] > lastID \/ messages[i] \in Raced
    /\ \A i, j \in 1..Len(page) : page[i] = page[j] => i = j \/ page[i] \in Raced
    /\ \A i \in 1..Len(page) : page[i] > lastID => page[i] \in Raced

LogInv == LogTypes /\ LogIds /\ LogIsNewest /\ PageIsRight

LEMMA OvertakenAreRaced ==
    ASSUME LogTypes, NEW i \in 1..Len(pushed), NEW j \in 1..Len(pushed),
           i < j, pushed[i] > pushed[j]
    PROVE  pushed[i] \in Raced /\ pushed[j] \in Raced
  BY DEF LogTypes, Raced, Overtakes, Range

LEMMA LogInitially == LogInit => LogInv
  <1> SUFFICES ASSUME LogInit PROVE LogInv
    OBVIOUS
  <1>1. LogTypes
    BY DEF LogInit, LogTypes
  <1>2. Len(messages) = 0 /\ Len(pushed) = 0 /\ Len(page) = 0
    BY DEF LogInit
  <1>3. LogIds /\ LogIsNewest /\ PageIsRight
    BY <1>2, LogAssumption DEF LogInit, LogIds, LogIsNewest, PageIsRight
  <1> QED BY <1>1, <1>3 DEF LogInv

LEMMA AnIdIsTaken ==
    ASSUME LogInv, NEW w \in Writers, push_id(w)
    PROVE  LogInv'
  <1>1. LogTypes'
    BY DEF LogInv, LogTypes, push_id
  <1>2. LogIds'
    <2>1. \A v \in Writers : pushing'[v] = IF v = w THEN next_message_id ELSE pushing[v]
      BY DEF LogInv, LogTypes, push_id
    <2> QED BY <2>1 DEF LogInv, LogTypes, LogIds, push_id
  <1>3. LogIsNewest' /\ PageIsRight'
    BY DEF LogInv, LogIsNewest, PageIsRight, push_id, Raced, Overtakes
  <1> QED BY <1>1, <1>2, <1>3 DEF LogInv

LEMMA AMessageIsPushed ==
    ASSUME LogInv, NEW w \in Writers, push_message(w)
    PROVE  LogInv'
  <1> DEFINE m == pushing[w]
             n == Len(pushed)
             kept == IF Len(messages) >= LogCapacity THEN Tail(messages) ELSE messages
  <1>1. /\ messages \in Seq(Nat) /\ pushed \in Seq(Nat) /\ page \in Seq(Nat)
        /\ m \in Nat \ {0} /\ n \in Nat /\ lastID \in Nat /\ Len(messages) \in Nat
    BY DEF LogInv, LogTypes, push_message
  <1>2. /\ pushed' \in Seq(Nat) /\ Len(pushed') = n + 1 /\ pushed'[n + 1] = m
        /\ \A i \in 1..n : pushed'[i] = pushed[i]
    BY <1>1, AppendProperties DEF push_message
  <1>3. /\ kept \in Seq(Nat) /\ Len(kept) \in Nat /\ Len(kept) < LogCapacity /\ Len(kept) <= n
        /\ \A i \in 1..Len(kept) : kept[i] = pushed[n - Len(kept) + i]
    <2>1. CASE Len(messages) >= LogCapacity
      <3>1. messages # <<>>
        BY <1>1, <2>1, LogAssumption
      <3>2. /\ Tail(messages) \in Seq(Nat) /\ Len(Tail(messages)) = Len(messages) - 1
            /\ \A i \in 1..Len(Tail(messages)) : Tail(messages)[i] = messages[i + 1]
        BY <1>1, <3>1, HeadTailProperties
      <3>3. kept = Tail(messages)
        BY <2>1
      <3>4. \A i \in 1..Len(messages) : messages[i] = pushed[n - Len(messages) + i]
        BY DEF LogInv, LogIsNewest
      <3>5. ASSUME NEW i \in 1..Len(kept) PROVE kept[i] = pushed[n - Len(kept) + i]
        <4> HIDE DEF kept, n
        <4>1. i + 1 \in 1..Len(messages) /\ n - Len(messages) + (i + 1) = n - Len(kept) + i
          BY <1>1, <3>2, <3>3
        <4>2. kept[i] = messages[i + 1] /\ messages[i + 1] = pushed[n - Len(messages) + (i + 1)]
          BY <3>2, <3>3, <3>4, <4>1
        <4> QED BY <4>1, <4>2
      <3>6. Len(messages) <= LogCapacity /\ Len(messages) <= n
        BY DEF LogInv, LogIsNewest
      <3> HIDE DEF kept
      <3>7. Len(kept) \in Nat /\ Len(kept) < LogCapacity /\ Len(kept) <= n /\ kept \in Seq(Nat)
        BY <1>1, <3>2, <3>3, <3>6, LogAssumption
      <3> QED BY <3>5, <3>7
    <2>2. CASE ~(Len(messages) >= LogCapacity)
      BY <1>1, <2>2, LogAssumption DEF LogInv, LogIsNewest
    <2> QED BY <2>1, <2>2
  <1>4. messages' = Append(kept, m)
    BY DEF push_message
  <1>5. /\ messages' \in Seq(Nat) /\ Len(messages') = Len(kept) + 1
        /\ messages'[Len(kept) + 1] = m
        /\ \A i \in 1..Len(kept) : messages'[i] = kept[i]
    <2> HIDE DEF kept, m
    <2> QED BY <1>1, <1>3, <1>4, AppendProperties
  <1> HIDE DEF kept
  <1>6. LogTypes'
    BY <1>2, <1>5 DEF LogInv, LogTypes, push_message
  <1>7. LogIds'
    <2>1. \A v \in Writers : pushing'[v] = IF v = w THEN 0 ELSE pushing[v]
      BY DEF LogInv, LogTypes, push_message
    <2>2. \A i \in 1..n : pushed[i] # 0 /\ pushed[i] < next_message_id /\ pushed[i] # m
      BY DEF LogInv, LogIds
    <2>3. m # 0 /\ m < next_message_id
      BY <1>1 DEF LogInv, LogIds
    <2>4. \A i \in 1..(n + 1) : i \in 1..n \/ i = n + 1
      BY <1>1
    <2>5. \A i \in 1..(n + 1) : pushed'[i] # 0 /\ pushed'[i] < next_message_id
      BY <1>2, <2>2, <2>3, <2>4
    <2>6. \A i, j \in 1..(n + 1) : pushed'[i] = pushed'[j] => i = j
      <3>1. \A i, j \in 1..n : pushed[i] = pushed[j] => i = j
        BY DEF LogInv, LogIds
      <3> QED BY <1>2, <2>2, <2>4, <3>1
    <2>7. \A v \in Writers : v # w => pushing[v] # m
      BY <2>3 DEF LogInv, LogIds
    <2>8. \A v \in Writers, i \in 1..(n + 1) : pushed'[i] # pushing'[v]
      <3>1. \A v \in Writers, i \in 1..n : pushed[i] # pushing[v]
        BY DEF LogInv, LogIds
      <3> QED BY <1>2, <2>1, <2>2, <2>3, <2>4, <2>7, <3>1
    <2>9. \A v \in Writers : pushing'[v] < next_message_id
      <3>1. /\ next_message_id \in Nat \ {0}
            /\ \A v \in Writers : pushing[v] < next_message_id
        BY DEF LogInv, LogTypes, LogIds
      <3> QED BY <2>1, <3>1
    <2>10. \A v, u \in Writers : pushing'[v] = pushing'[u] => v = u \/ pushing'[v] = 0
      <3>1. \A v, u \in Writers : pushing[v] = pushing[u] => v = u \/ pushing[v] = 0
        BY DEF LogInv, LogIds
      <3> QED BY <2>1, <3>1
    <2>11. lastID = 0 \/ \E i \in 1..(n + 1) : lastID = pushed'[i]
      <3>1. lastID = 0 \/ \E i \in 1..n : lastID = pushed[i]
        BY DEF LogInv, LogIds
      <3>2. \A i \in 1..n : i \in 1..(n + 1)
        BY <1>1
      <3> QED BY <1>2, <3>1, <3>2
    <2>12. next_message_id' = next_message_id /\ lastID' = lastID
      BY DEF push_message
    <2> HIDE DEF n, m
    <2> QED BY <1>2, <2>5, <2>6, <2>8, <2>9, <2>10, <2>11, <2>12 DEF LogIds
  <1>8. LogIsNewest'
    <2>1. Len(messages') <= LogCapacity /\ Len(messages') <= Len(pushed')
      BY <1>1, <1>2, <1>3, <1>5, LogAssumption
    <2>2. ASSUME NEW i \in 1..(Len(kept) + 1)
          PROVE  messages'[i] = pushed'[(n + 1) - (Len(kept) + 1) + i]
      <3>1. CASE i = Len(kept) + 1
        <4>1. (n + 1) - (Len(kept) + 1) + i = n + 1
          BY <1>1, <1>3, <3>1
        <4> QED BY <1>2, <1>5, <3>1, <4>1
      <3>2. CASE i # Len(kept) + 1
        <4>1. /\ i \in 1..Len(kept) /\ n - Len(kept) + i \in 1..n
              /\ (n + 1) - (Len(kept) + 1) + i = n - Len(kept) + i
          BY <1>1, <1>3, <3>2
        <4> QED BY <1>2, <1>3, <1>5, <4>1
      <3> QED BY <3>1, <3>2
    <2> HIDE DEF n
    <2> QED BY <1>2, <1>5, <2>1, <2>2 DEF LogIsNewest
  <1>9. Raced \subseteq Raced'
    <2> SUFFICES ASSUME NEW x \in Raced PROVE x \in Raced'
      OBVIOUS
    <2>1. PICK i \in 1..n, j \in 1..n : i < j /\ pushed[i] > pushed[j] /\ x \in {pushed[i], pushed[j]}
      <3>1. DOMAIN pushed = 1..n
        BY <1>1
      <3> HIDE DEF n
      <3> QED BY <3>1 DEF Raced, Overtakes
    <2>2. i \in 1..(n + 1) /\ j \in 1..(n + 1)
      BY <1>1
    <2>3. DOMAIN pushed' = 1..(n + 1)
      BY <1>2
    <2> QED BY <1>2, <2>1, <2>2, <2>3 DEF Raced, Overtakes, Range
  <1>10. m > lastID \/ m \in Raced'
    <2>1. CASE lastID = 0
      BY <1>1, <2>1
    <2>2. CASE lastID # 0
      <3>1. PICK i \in 1..n : lastID = pushed[i]
        BY <2>2 DEF LogInv, LogIds
      <3>2. pushed[i] # m
        BY DEF LogInv, LogIds
      <3>3. CASE m < lastID
        <4>1. /\ i \in 1..Len(pushed') /\ n + 1 \in 1..Len(pushed') /\ i < n + 1
              /\ pushed'[i] > pushed'[n + 1]
          BY <1>1, <1>2, <3>1, <3>3
        <4>2. DOMAIN pushed' = 1..Len(pushed')
          BY <1>2
        <4> QED BY <1>2, <4>1, <4>2 DEF Raced, Overtakes, Range
      <3> QED BY <1>1, <3>1, <3>2, <3>3
    <2> QED BY <2>1, <2>2
  <1>11. PageIsRight'
    <2>1. page' = page /\ lastID' = lastID
      BY DEF push_message
    <2>2. ASSUME NEW i \in 1..(Len(kept) + 1)
          PROVE  messages'[i] \in Range(page) \/ messages'[i] > lastID \/ messages'[i] \in Raced'
      <3>1. CASE i = Len(kept) + 1
        BY <1>5, <1>10, <3>1
      <3>2. CASE i # Len(kept) + 1
        <4>1. i \in 1..Len(kept) /\ messages'[i] = kept[i]
          BY <1>3, <1>5, <3>2
        <4>2. PICK k \in 1..Len(messages) : kept[i] = messages[k]
          <5>1. CASE kept = messages
            BY <4>1, <5>1
          <5>2. CASE kept # messages
            <6>1. kept = Tail(messages) /\ messages # <<>>
              BY <1>1, <5>2, LogAssumption DEF kept
            <6>2. /\ Len(Tail(messages)) = Len(messages) - 1
                  /\ \A k \in 1..Len(Tail(messages)) : Tail(messages)[k] = messages[k + 1]
              BY <1>1, <6>1, HeadTailProperties
            <6>3. i + 1 \in 1..Len(messages) /\ kept[i] = messages[i + 1]
              BY <1>1, <4>1, <6>1, <6>2
            <6> QED BY <6>3
          <5> QED BY <5>1, <5>2
        <4>3. messages[k] \in Range(page) \/ messages[k] > lastID \/ messages[k] \in Raced
          BY DEF LogInv, PageIsRight
        <4> QED BY <1>9, <4>1, <4>2, <4>3
      <3> QED BY <3>1, <3>2
    <2>3. \A i, j \in 1..Len(page) : page[i] = page[j] => i = j \/ page[i] \in Raced'
      BY <1>9 DEF LogInv, PageIsRight
    <2>4. \A i \in 1..Len(page) : page[i] > lastID => page[i] \in Raced'
      BY <1>9 DEF LogInv, PageIsRight
    <2> QED BY <1>5, <2>1, <2>2, <2>3, <2>4 DEF PageIsRight
  <1> QED BY <1>6, <1>7, <1>8, <1>11 DEF LogInv

LEMMA WithoutANumber ==
    ASSUME NEW x \in Nat \ {0}
    PROVE  rpc_loadlog(x, 0) = messages_since(x - 1)
  BY DEF rpc_loadlog

(* What a poll brings is what is in the log and newer than the last of the *)
(* page; of two of these that are in another order than their ids, both    *)
(* have raced.                                                             *)
LEMMA PolledMessages ==
    ASSUME LogInv, NEW found, found = rpc_loadlog(lastID + 1, 0)
    PROVE  /\ found \in Seq(Nat)
           /\ \A m : m \in Range(found) <=> m \in Range(messages) /\ m > lastID
           /\ \A i \in 1..Len(found) : found[i] \in Nat /\ found[i] > lastID
           /\ \A i \in 1..Len(found) : \E k \in 1..Len(pushed) : found[i] = pushed[k]
           /\ \A i, j \in 1..Len(found) :
                 /\ found[i] = found[j] => i = j
                 /\ i < j /\ found[i] > found[j] => found[i] \in Raced
  <1> DEFINE New == {id \in Range(messages) : id > lastID}
             off == Len(pushed) - Len(messages)
  <1>1. messages \in Seq(Nat) /\ pushed \in Seq(Nat) /\ lastID \in Nat
    BY DEF LogInv, LogTypes
  <1>2. found = Selected(messages, New)
    <2>1. lastID + 1 \in Nat \ {0} /\ (lastID + 1) - 1 = lastID
      BY <1>1
    <2>2. found = messages_since((lastID + 1) - 1)
      BY <2>1, WithoutANumber
    <2> QED BY <2>1, <2>2 DEF messages_since
  <1> HIDE DEF New
  <1>3. found \in Seq(Nat) /\ Range(found) = Range(messages) \intersect New
    BY <1>1, <1>2, SelectedElements
  <1>4. \A m : m \in Range(found) <=> m \in Range(messages) /\ m > lastID
    BY <1>3 DEF New
  <1>5. PICK at : PlacesOf(at, messages, New, found)
    BY <1>1, <1>2, SelectedOrder
  <1>6. /\ Len(messages) \in Nat /\ Len(pushed) \in Nat /\ Len(found) \in Nat
        /\ Len(messages) <= Len(pushed)
        /\ \A i \in 1..Len(messages) : messages[i] = pushed[off + i]
    <2>1. /\ Len(messages) <= Len(pushed)
          /\ \A i \in 1..Len(messages) : messages[i] = pushed[off + i]
      BY DEF LogInv, LogIsNewest
    <2>2. Len(messages) \in Nat /\ Len(pushed) \in Nat /\ Len(found) \in Nat
      BY <1>1, <1>3
    <2> QED BY <2>1, <2>2
  <1>7. ASSUME NEW i \in 1..Len(found)
        PROVE  /\ at[i] \in Nat /\ off + at[i] \in 1..Len(pushed)
               /\ found[i] = pushed[off + at[i]] /\ found[i] \in Nat /\ found[i] > lastID
    <2>1. at[i] \in 1..Len(messages) /\ found[i] = messages[at[i]] /\ found[i] \in New
      BY <1>5 DEF PlacesOf
    <2>2. at[i] \in Nat /\ off + at[i] \in 1..Len(pushed)
      BY <1>6, <2>1
    <2>3. found[i] \in Nat
      BY <1>3
    <2> QED BY <1>6, <2>1, <2>2, <2>3 DEF New
  <1> HIDE DEF off
  <1>8. ASSUME NEW i \in 1..Len(found), NEW j \in 1..Len(found)
        PROVE  /\ found[i] = found[j] => i = j
               /\ i < j /\ found[i] > found[j] => found[i] \in Raced
    <2>1. (i < j => at[i] < at[j]) /\ (j < i => at[j] < at[i])
      BY <1>5 DEF PlacesOf
    <2>2. off \in Int
      BY <1>6 DEF off
    <2>3. found[i] = found[j] => off + at[i] = off + at[j]
      <3>1. \A x, y \in 1..Len(pushed) : pushed[x] = pushed[y] => x = y
        BY DEF LogInv, LogIds
      <3>2. /\ off + at[i] \in 1..Len(pushed) /\ found[i] = pushed[off + at[i]]
            /\ off + at[j] \in 1..Len(pushed) /\ found[j] = pushed[off + at[j]]
        BY <1>7
      <3> QED BY ONLY <3>1, <3>2, Zenon
    <2>4. found[i] = found[j] => i = j
      BY <1>7, <2>1, <2>2, <2>3
    <2>5. i < j => off + at[i] < off + at[j]
      BY <1>7, <2>1, <2>2
    <2>6. ASSUME i < j, found[i] > found[j] PROVE found[i] \in Raced
      <3>1. LogTypes
        BY DEF LogInv
      <3> QED BY <1>7, <2>5, <2>6, <3>1, OvertakenAreRaced
    <2> QED BY <2>4, <2>6
  <1> QED BY <1>3, <1>4, <1>7, <1>8

LEMMA ThePagePolls ==
    ASSUME LogInv, PagePolls
    PROVE  LogInv'
  <1>1. PICK found : found = rpc_loadlog(lastID + 1, 0)
    OBVIOUS
  <1>2. /\ page' = page \o found /\ page' # page /\ lastID' = Last(page')
        /\ UNCHANGED <<messages, next_message_id, pushing, pushed>>
    BY <1>1 DEF PagePolls
  <1>3. /\ found \in Seq(Nat)
        /\ \A m : m \in Range(found) <=> m \in Range(messages) /\ m > lastID
        /\ \A i \in 1..Len(found) : found[i] \in Nat /\ found[i] > lastID
        /\ \A i \in 1..Len(found) : \E k \in 1..Len(pushed) : found[i] = pushed[k]
        /\ \A i, j \in 1..Len(found) :
              /\ found[i] = found[j] => i = j
              /\ i < j /\ found[i] > found[j] => found[i] \in Raced
    BY <1>1, PolledMessages
  <1>4. /\ messages \in Seq(Nat) /\ page \in Seq(Nat) /\ lastID \in Nat
        /\ Len(page) \in Nat /\ Len(found) \in Nat
    BY <1>3 DEF LogInv, LogTypes
  <1> DEFINE p == Len(page)
             q == Len(found)
  <1>5. found # <<>>
    <2>1. page \o <<>> = page
      BY <1>4
    <2> QED BY <1>2, <2>1
  <1>6. q >= 1
    BY <1>3, <1>4, <1>5
  <1>7. /\ page' \in Seq(Nat) /\ Len(page') = p + q
        /\ \A i \in 1..p : page'[i] = page[i]
        /\ \A i \in 1..q : page'[p + i] = found[i]
    BY <1>2, <1>3, <1>4
  <1>8. lastID' = found[q] /\ q \in 1..q
    BY <1>2, <1>4, <1>6, <1>7 DEF Last
  <1>9. lastID' \in Nat /\ lastID' > lastID
    BY <1>3, <1>8
  <1> HIDE DEF p, q
  <1>10. LogTypes'
    BY <1>2, <1>7, <1>9 DEF LogInv, LogTypes
  <1>11. LogIds'
    <2>1. \E i \in 1..Len(pushed) : lastID' = pushed[i]
      BY <1>3, <1>8 DEF q
    <2> QED BY <1>2, <2>1 DEF LogInv, LogIds
  <1>12. LogIsNewest'
    BY <1>2 DEF LogInv, LogIsNewest
  <1>13. Raced' = Raced
    BY <1>2 DEF Raced, Overtakes
  <1>14. Range(page') = Range(page) \union Range(found)
    BY <1>2, <1>3, <1>4, ConcatRange
  <1>15. ASSUME NEW i \in 1..(p + q)
         PROVE  \/ i \in 1..p /\ page'[i] = page[i]
                \/ i - p \in 1..q /\ page'[i] = found[i - p]
    <2>1. p \in Nat /\ q \in Nat
      BY <1>4 DEF p, q
    <2>2. i \in 1..p \/ (i - p \in 1..q /\ p + (i - p) = i)
      BY <2>1
    <2> QED BY <1>7, <2>2
  <1>16. p \in Nat /\ q \in Nat
    BY <1>4 DEF p, q
  <1>17. /\ \A i \in 1..p : page[i] > lastID => page[i] \in Raced
         /\ \A i, j \in 1..p : page[i] = page[j] => i = j \/ page[i] \in Raced
         /\ \A i \in 1..p : page[i] \in Nat
    BY <1>4 DEF LogInv, PageIsRight, p
  <1>18. ASSUME NEW i \in 1..Len(messages)
         PROVE  messages[i] \in Range(page') \/ messages[i] > lastID' \/ messages[i] \in Raced
    <2>1. messages[i] \in Range(messages)
      BY <1>4 DEF Range
    <2> QED BY <1>3, <1>14, <2>1 DEF LogInv, PageIsRight
  <1>19. ASSUME NEW i \in 1..(p + q), page'[i] > lastID' PROVE page'[i] \in Raced
    <2>1. CASE i \in 1..p /\ page'[i] = page[i]
      BY <1>4, <1>9, <1>17, <1>19, <2>1
    <2>2. CASE i - p \in 1..q /\ page'[i] = found[i - p]
      <3>1. i - p < q
        <4>1. i - p # q
          BY <1>8, <1>9, <1>19, <2>2
        <4> QED BY <1>16, <2>2, <4>1
      <3>2. \A k, j \in 1..q : k < j /\ found[k] > found[j] => found[k] \in Raced
        BY <1>3 DEF q
      <3> QED BY <1>8, <1>19, <2>2, <3>1, <3>2
    <2> QED BY <1>15, <2>1, <2>2
  <1>20. ASSUME NEW i \in 1..(p + q), NEW j \in 1..(p + q), page'[i] = page'[j]
         PROVE  i = j \/ page'[i] \in Raced
    <2>1. ASSUME NEW k \in 1..(p + q), page'[k] = page'[i],
                 k \in 1..p, page'[k] = page[k],
                 NEW l \in 1..(p + q), l - p \in 1..q, page'[l] = found[l - p],
                 page'[l] = page'[i]
          PROVE  page'[i] \in Raced
      <3>1. found[l - p] > lastID
        BY <1>3, <2>1 DEF q
      <3> QED BY <1>17, <2>1, <3>1
    <2>2. CASE i \in 1..p /\ page'[i] = page[i] /\ j \in 1..p /\ page'[j] = page[j]
      BY <1>17, <1>20, <2>2
    <2>3. CASE i - p \in 1..q /\ page'[i] = found[i - p] /\ j - p \in 1..q /\ page'[j] = found[j - p]
      <3>1. \A k, l \in 1..q : found[k] = found[l] => k = l
        BY <1>3 DEF q
      <3>2. i - p = j - p
        BY <1>20, <2>3, <3>1
      <3> QED BY <1>16, <3>2
    <2> QED BY <1>15, <1>20, <2>1, <2>2, <2>3
  <1>21. PageIsRight'
    BY <1>2, <1>7, <1>13, <1>18, <1>19, <1>20 DEF PageIsRight
  <1> QED BY <1>10, <1>11, <1>12, <1>21 DEF LogInv

LEMMA TheLogIsCleared ==
    ASSUME LogInv, clear
    PROVE  LogInv'
  <1>1. /\ messages' = <<>> /\ UNCHANGED <<next_message_id, pushing, pushed>>
        /\ Len(messages') = 0 /\ messages' \in Seq(Nat)
    BY DEF clear
  <1>2. Raced' = Raced
    BY <1>1 DEF Raced, Overtakes
  <1>3. CASE page' = <<>> /\ lastID' = 0
    <2>1. page' \in Seq(Nat) /\ Len(page') = 0
      BY <1>3
    <2> QED BY <1>1, <1>3, <2>1, LogAssumption
        DEF LogInv, LogTypes, LogIds, LogIsNewest, PageIsRight
  <1>4. CASE UNCHANGED <<page, lastID>>
    BY <1>1, <1>2, <1>4, LogAssumption
    DEF LogInv, LogTypes, LogIds, LogIsNewest, PageIsRight
  <1> QED BY <1>3, <1>4 DEF clear

(* What is proved of log and page by induction: that ids are given in the   *)
(* order of the messages, the log is the newest, and the page's last id is  *)
(* that of what it was shown.                                               *)
THEOREM LogInvCorrect == LogSpec => []LogInv
  <1>1. LogInv /\ [LogNext]_logVars => LogInv'
    <2> SUFFICES ASSUME LogInv, [LogNext]_logVars PROVE LogInv'
      OBVIOUS
    <2>1. CASE on_event
      <3>1. PICK w \in Tracing : push_id(w)
        BY <2>1 DEF on_event
      <3> QED BY <3>1, AnIdIsTaken DEF Writers
    <2>2. CASE rpc_writelog
      <3>1. PICK w \in LogCalls : push_id(w)
        BY <2>2 DEF rpc_writelog
      <3> QED BY <3>1, AnIdIsTaken DEF Writers
    <2>3. CASE PagePolls
      BY <2>3, ThePagePolls
    <2>4. CASE clear
      BY <2>4, TheLogIsCleared
    <2>5. CASE \E w \in Writers : push_message(w)
      BY <2>5, AMessageIsPushed
    <2>6. CASE UNCHANGED logVars
      BY <2>6 DEF logVars, LogInv, LogTypes, LogIds, LogIsNewest, PageIsRight, Raced, Overtakes
    <2> QED BY <2>1, <2>2, <2>3, <2>4, <2>5, <2>6 DEF LogNext
  <1> QED BY <1>1, LogInitially, PTL DEF LogSpec

LEMMA TheNewestAreShown ==
    ASSUME LogInv, NEW n \in 1..LogCapacity, NEW newest, newest = rpc_loadlog(0, n)
    PROVE  /\ IsSuffix(newest, pushed)
           /\ Len(newest) = IF n < Len(messages) THEN n ELSE Len(messages)
  <1> DEFINE k == Len(messages)
             New == {id \in Range(messages) : id > 0}
             off == Len(pushed) - k
  <1>1. /\ messages \in Seq(Nat) /\ pushed \in Seq(Nat) /\ k \in Nat /\ Len(pushed) \in Nat
        /\ k <= Len(pushed) /\ n \in Nat \ {0}
        /\ \A i \in 1..k : messages[i] = pushed[off + i]
    BY LogAssumption DEF LogInv, LogTypes, LogIsNewest
  <1>2. Range(messages) \subseteq New
    <2>1. ASSUME NEW i \in 1..k PROVE messages[i] > 0
      <3>1. off + i \in 1..Len(pushed) /\ messages[i] = pushed[off + i]
        BY <1>1
      <3>2. pushed[off + i] # 0 /\ pushed[off + i] \in Nat
        <4> HIDE DEF off
        <4> QED BY SMTT(30), <1>1, <3>1 DEF LogInv, LogIds
      <3> QED BY <3>1, <3>2
    <2>2. ASSUME NEW id \in Range(messages) PROVE id > 0
      <3>1. DOMAIN messages = 1..k
        BY <1>1
      <3>2. PICK i \in 1..k : id = messages[i]
        BY <3>1 DEF Range
      <3> QED BY <2>1, <3>2
    <2> QED BY <2>2
  <1>3. messages_since(0) = messages
    <2>1. messages_since(0) = Selected(messages, New)
      BY DEF messages_since
    <2> HIDE DEF New
    <2> QED BY <1>1, <1>2, <2>1, SelectedAll
  <1>4. newest = IF k > n THEN SubSeq(messages, k - n + 1, k) ELSE messages
    <2>1. newest = LET found == messages_since(0)
                   IN IF n > 0 /\ Len(found) > n
                      THEN SubSeq(found, Len(found) - n + 1, Len(found)) ELSE found
      BY DEF rpc_loadlog
    <2> QED BY <1>1, <1>3, <2>1
  <1> HIDE DEF k
  <1>5. /\ newest \in Seq(Nat) /\ Len(newest) = (IF n < k THEN n ELSE k)
        /\ \A i \in 1..Len(newest) : newest[i] = messages[k - Len(newest) + i]
    <2>1. CASE k > n
      <3>1. newest = SubSeq(messages, k - n + 1, k)
        BY <1>4, <2>1
      <3>2. k - n + 1 \in 1..k /\ k \in 1..Len(messages) /\ k - n + 1 \in 1..Len(messages)
        BY <1>1, <2>1 DEF k
      <3>3. /\ newest \in Seq(Nat) /\ Len(newest) = n
            /\ \A i \in 1..n : newest[i] = messages[k - n + i]
        <4>1. n \in 1..Len(messages)
          BY <1>1, <2>1 DEF k
        <4>2. /\ SubSeq(messages, Len(messages) - n + 1, Len(messages)) \in Seq(Nat)
              /\ Len(SubSeq(messages, Len(messages) - n + 1, Len(messages))) = n
              /\ \A i \in 1..n : SubSeq(messages, Len(messages) - n + 1, Len(messages))[i]
                                  = messages[Len(messages) - n + i]
          BY <1>1, <4>1, LastPart
        <4> QED BY <3>1, <4>2 DEF k
      <3> QED BY <1>1, <2>1, <3>3
    <2>2. CASE ~(k > n)
      <3>1. newest = messages
        BY <1>4, <2>2
      <3> QED BY <1>1, <2>2, <3>1 DEF k
    <2> QED BY <2>1, <2>2
  <1>6. /\ Len(newest) \in Nat /\ Len(newest) <= Len(pushed)
        /\ \A i \in 1..Len(newest) : newest[i] = pushed[Len(pushed) - Len(newest) + i]
    <2>1. Len(newest) \in Nat /\ Len(newest) <= k
      BY <1>1, <1>5
    <2>2. ASSUME NEW i \in 1..Len(newest) PROVE newest[i] = pushed[Len(pushed) - Len(newest) + i]
      <3>1. /\ k - Len(newest) + i \in 1..k
            /\ off + (k - Len(newest) + i) = Len(pushed) - Len(newest) + i
        BY <1>1, <2>1
      <3> QED BY <1>1, <1>5, <3>1
    <2> QED BY <1>1, <2>1, <2>2
  <1>7. IsSuffix(newest, pushed)
    BY <1>1, <1>5, <1>6, SuffixPlaces
  <1> QED BY <1>5, <1>7 DEF k

(* The page shows every message of the log once, and the log the newest,   *)
(* for any number of writers, any capacity and any length of the run.      *)
THEOREM LogsAreReadOnce == LogSpec => []LogIsReadOnce
  <1>1. LogInv => LogIsReadOnce
    <2> SUFFICES ASSUME LogInv PROVE LogIsReadOnce
      OBVIOUS
    <2>1. /\ messages \in Seq(Nat) /\ pushed \in Seq(Nat) /\ page \in Seq(Nat)
          /\ DOMAIN page = 1..Len(page)
      BY DEF LogInv, LogTypes
    <2>2. \A m \in Range(messages) \ Raced : m \in Range(page) \/ m > lastID
      <3>1. \A m \in Range(messages) : \E i \in 1..Len(messages) : m = messages[i]
        BY <2>1 DEF Range
      <3> QED BY <3>1 DEF LogInv, PageIsRight
    <2>3. /\ \A i, j \in DOMAIN page : page[i] = page[j] => i = j \/ page[i] \in Raced
          /\ \A i \in DOMAIN page : page[i] > lastID => page[i] \in Raced
      BY <2>1 DEF LogInv, PageIsRight
    <2>4. IsSuffix(messages, pushed) /\ Len(messages) <= LogCapacity
      BY <2>1, SuffixPlaces DEF LogInv, LogIsNewest
    <2>5. ASSUME NEW n \in 1..LogCapacity
          PROVE  LET newest == rpc_loadlog(0, n)
                 IN /\ IsSuffix(newest, pushed)
                    /\ Len(newest) = (IF n < Len(messages) THEN n ELSE Len(messages))
      <3>1. PICK newest : newest = rpc_loadlog(0, n)
        OBVIOUS
      <3>2. /\ IsSuffix(newest, pushed)
            /\ Len(newest) = IF n < Len(messages) THEN n ELSE Len(messages)
        BY <3>1, TheNewestAreShown
      <3> QED BY <3>1, <3>2
    <2> QED BY <2>2, <2>3, <2>4, <2>5 DEF LogIsReadOnce
  <1> QED BY <1>1, LogInvCorrect, PTL

-----------------------------------------------------------------------------
(* PostProcessor.                                                          *)
PostSpec == PostInit /\ [][PostNext]_postVars

Repaired == {"RepairComplete", "RepairFailed"}
BeforeUnpacking == {"Queued", "ParRenaming", "ParVerifying", "ParRepairing", "Renaming", "Unpacking"}
BeforeMoving == BeforeUnpacking \union {"Extracting", "Cleanup", "Moving"}

(* The names that files of a download may bear: those it came with, those  *)
(* of the recovery set and those of the NZB.                               *)
FoundNames == UNION {DOMAIN download.dir : download \in Downloads}
NamesOfNzb == {NzbFile[Extension[n]] : n \in Obfuscated}
DownloadNames == FoundNames \union Range(Protected) \union NamesOfNzb

ArchiveNames == {n \in DownloadNames : Extension[n] \in {"rar", "7z", "zip"}}

(* No archive has a file in it by such a name, which it would overwrite.   *)
ArchivesBringNewNames ==
    \A n \in ArchiveNames :
        Unpacked[n] \in DownloadNames => should_remove(Unpacked[n])

(* A content is still there: in the working directory, or from the move on *)
(* at the destination, where no entry still to be moved overwrites it, by  *)
(* a name that neither the cleanup nor an archive touches.                 *)
KeptAs(m, content) ==
    /\ m \in DownloadNames /\ ~should_remove(m)
    /\ \/ m \in DOMAIN dir /\ dir[m] = content
       \/ stage \notin BeforeMoving /\ m \in DOMAIN dest /\ dest[m] = content /\ m \notin pending

ParStages ==
    /\ stage \in {"Queued", "ParRenaming", "ParVerifying"} => par_result = "None"
    /\ stage = "ParRepairing" => par_result = "RepairNeeded"
    /\ stage # "MovingFiles" => pending = {}

FilesAreKept ==
    par_result \notin Repaired =>
        /\ stage \in BeforeUnpacking => DOMAIN dir \subseteq DownloadNames
        /\ archives \subseteq ArchiveNames /\ pending \subseteq DOMAIN dir
        /\ \A n \in DOMAIN start : should_remove(n) \/ \E m : KeptAs(m, start[n])

PostInv == ParStages /\ FilesAreKept

(* A repair that comes to nothing else leaves the files as they are.       *)
LEMMA OnlyRepairsWrite ==
    ASSUME NEW rs, NEW disk, native_repair(rs, disk).result \notin Repaired
    PROVE  native_repair(rs, disk).disk = disk
  <1>1. PICK verify : verify = verify_recovery_set(rs, disk)
    OBVIOUS
  <1>2. PICK report : report = repair_recovery_set(rs, verify, disk)
    OBVIOUS
  <1>3. CASE all_ok(verify)
    <2>1. native_repair(rs, disk) = Report("AllFilesOk", disk)
      BY <1>1, <1>2, <1>3 DEF native_repair
    <2> QED BY <2>1 DEF Report
  <1>4. CASE ~all_ok(verify) /\ report.result = "Ok"
    <2>1. native_repair(rs, disk)
            = Report(IF all_ok(verify_recovery_set(rs, report.disk))
                     THEN "RepairComplete" ELSE "RepairFailed", report.disk)
      BY <1>1, <1>2, <1>4 DEF native_repair
    <2> QED BY <2>1 DEF Report, Repaired
  <1>5. CASE ~all_ok(verify) /\ report.result = "NotEnoughRecoverySlices"
    <2>1. native_repair(rs, disk) = Report("RepairNeeded", disk)
      BY <1>1, <1>2, <1>5 DEF native_repair
    <2> QED BY <2>1 DEF Report
  <1>6. CASE ~all_ok(verify) /\ report.result \notin {"Ok", "NotEnoughRecoverySlices"}
    <2>1. native_repair(rs, disk) = Report("RepairFailed", disk)
      BY <1>1, <1>2, <1>6 DEF native_repair
    <2> QED BY <2>1 DEF Report, Repaired
  <1> QED BY <1>3, <1>4, <1>5, <1>6

LEMMA PostInitially == PostInit => PostInv
  <1> SUFFICES ASSUME PostInit PROVE PostInv
    OBVIOUS
  <1>1. PICK download \in Downloads : dir = download.dir
    BY DEF PostInit
  <1>2. DOMAIN dir \subseteq DownloadNames
    BY <1>1 DEF DownloadNames, FoundNames
  <1>3. start = dir /\ stage = "Queued" /\ archives = {} /\ pending = {} /\ par_result = "None"
    BY DEF PostInit
  <1>4. \A n \in DOMAIN start : should_remove(n) \/ KeptAs(n, start[n])
    BY <1>2, <1>3 DEF KeptAs
  <1> QED BY <1>2, <1>3, <1>4 DEF PostInv, ParStages, FilesAreKept

(* A rename to a name that is free, of the same extension, loses no file.  *)
LEMMA RenamesKeep ==
    ASSUME PostInv, par_result \notin Repaired, stage \in BeforeUnpacking,
           NEW n \in DOMAIN dir, NEW to \in DownloadNames, to \notin DOMAIN dir,
           Extension[to] = Extension[n],
           dir' = Renamed(n, to), stage' \in BeforeUnpacking,
           UNCHANGED <<dest, pending, start, par_result>>
    PROVE  /\ DOMAIN dir' \subseteq DownloadNames
           /\ \A k \in DOMAIN start' : should_remove(k) \/ \E m : KeptAs(m, start[k])'
  <1>1. /\ DOMAIN dir' = (DOMAIN dir \ {n}) \union {to} /\ dir'[to] = dir[n]
        /\ \A m \in DOMAIN dir \ {n} : dir'[m] = dir[m]
    BY DEF Renamed
  <1>2. DOMAIN dir \subseteq DownloadNames
    BY DEF PostInv, FilesAreKept
  <1>3. ASSUME NEW k \in DOMAIN start, ~should_remove(k)
        PROVE  \E m : KeptAs(m, start[k])'
    <2>1. PICK m : KeptAs(m, start[k])
      BY <1>3 DEF PostInv, FilesAreKept
    <2>2. m \in DownloadNames /\ ~should_remove(m) /\ m \in DOMAIN dir /\ dir[m] = start[k]
      BY <2>1 DEF KeptAs, BeforeMoving
    <2>3. CASE m = n
      <3>1. ~should_remove(to)
        BY <2>2, <2>3 DEF should_remove
      <3>2. KeptAs(to, start[k])'
        BY <1>1, <2>2, <2>3, <3>1 DEF KeptAs, should_remove, DownloadNames
      <3> QED BY <3>2
    <2>4. CASE m # n
      <3>1. KeptAs(m, start[k])'
        BY <1>1, <2>2, <2>4 DEF KeptAs, should_remove, DownloadNames
      <3> QED BY <3>1
    <2> QED BY <2>3, <2>4
  <1> QED BY <1>1, <1>2, <1>3

(* What a PAR2 file renames a file to is the name of a protected file.     *)
LEMMA FirstThatFits ==
    ASSUME NEW n, NEW fits, fits = {i \in DOMAIN Parsed.files : MayRename(n, Parsed.files[i])},
           fits # {}, NEW first, first = CHOOSE i \in fits : \A j \in fits : i <= j
    PROVE  /\ MayRename(n, Parsed.files[first])
           /\ Parsed.files[first].name \in Range(Protected)
  <1> DEFINE names == Selected(Protected, rs_packets.descriptions)
  <1>1. names \in Seq(Names) /\ Range(names) \subseteq Range(Protected)
    BY PostAssumption, SelectedElements
  <1>2. Parsed.files = [i \in DOMAIN names |-> Entry(names[i], rs_packets.ifscs)]
    BY DEF Parsed, RecoverySet
  <1> HIDE DEF names
  <1>3. fits \in SUBSET Nat
    BY <1>1, <1>2
  <1>4. \E i \in fits : \A j \in fits : i <= j
    BY <1>3, LeastNatural
  <1>5. first \in fits
    BY <1>4
  <1>6. first \in DOMAIN Parsed.files /\ MayRename(n, Parsed.files[first])
    BY <1>5
  <1>7. first \in DOMAIN names
    <2>1. DOMAIN Parsed.files = DOMAIN names
      BY <1>2
    <2> QED BY <1>6, <2>1
  <1>8. Parsed.files[first] = Entry(names[first], rs_packets.ifscs)
    BY <1>2, <1>7
  <1>9. Parsed.files[first].name = names[first]
    BY <1>8 DEF Entry
  <1>10. names[first] \in Range(Protected)
    BY <1>1, <1>7 DEF Range
  <1> QED BY <1>6, <1>9, <1>10

LEMMA DeobfuscationKeeps ==
    ASSUME PostInv, deobfuscate_files
    PROVE  PostInv'
  <1> DEFINE fits(n) == {i \in DOMAIN Parsed.files : MayRename(n, Parsed.files[i])}
             first(n) == CHOOSE i \in fits(n) : \A j \in fits(n) : i <= j
  <1>1. PICK n \in DOMAIN dir : fits(n) # {} /\ dir' = Renamed(n, Parsed.files[first(n)].name)
    BY DEF deobfuscate_files
  <1>2. PICK i : i = first(n)
    OBVIOUS
  <1>3. MayRename(n, Parsed.files[i]) /\ Parsed.files[i].name \in Range(Protected)
    BY <1>1, <1>2, FirstThatFits
  <1>4. PICK to : to = Parsed.files[i].name
    OBVIOUS
  <1> HIDE DEF fits, first
  <1>5. /\ to \in DownloadNames /\ to \notin DOMAIN dir /\ Extension[to] = Extension[n]
        /\ dir' = Renamed(n, to)
    <2>1. MayRename(n, Parsed.files[i]) /\ to \in Range(Protected)
      BY <1>3, <1>4
    <2>2. to \notin DOMAIN dir /\ Extension[to] = Extension[n]
      BY <1>4, <2>1 DEF MayRename
    <2>3. to \in DownloadNames
      BY <2>1 DEF DownloadNames
    <2> QED BY <1>1, <1>2, <1>4, <2>2, <2>3
  <1>6. /\ stage = "ParRenaming" /\ stage' = stage
        /\ UNCHANGED <<dest, pending, start, par_result, archives>>
    BY DEF deobfuscate_files, results
  <1>7. ParStages' /\ par_result = "None" /\ pending = {}
    BY <1>6 DEF PostInv, ParStages
  <1>8. /\ DOMAIN dir' \subseteq DownloadNames
        /\ \A k \in DOMAIN start' : should_remove(k) \/ \E m : KeptAs(m, start[k])'
    BY <1>5, <1>6, <1>7, RenamesKeep DEF BeforeUnpacking, Repaired
  <1>9. archives \subseteq ArchiveNames
    BY <1>7 DEF PostInv, FilesAreKept, Repaired
  <1>10. FilesAreKept'
    BY <1>6, <1>7, <1>8, <1>9 DEF FilesAreKept, ArchiveNames, DownloadNames, should_remove
  <1> QED BY <1>7, <1>10 DEF PostInv

(* A step that leaves the files, the destination and what is to be moved.  *)
LEMMA NothingMoves ==
    ASSUME PostInv, UNCHANGED <<dir, dest, pending, start, archives>>, ParStages',
           par_result' \notin Repaired => par_result \notin Repaired,
           stage' \in BeforeUnpacking => stage \in BeforeUnpacking,
           stage' \in BeforeMoving => stage \in BeforeMoving
    PROVE  PostInv'
  <1> SUFFICES ASSUME par_result' \notin Repaired PROVE FilesAreKept'
    BY DEF PostInv, FilesAreKept
  <1>1. /\ stage \in BeforeUnpacking => DOMAIN dir \subseteq DownloadNames
        /\ archives \subseteq ArchiveNames /\ pending \subseteq DOMAIN dir
        /\ \A n \in DOMAIN start : should_remove(n) \/ \E m : KeptAs(m, start[n])
    BY DEF PostInv, FilesAreKept
  <1>2. ASSUME NEW n \in DOMAIN start, NEW m, KeptAs(m, start[n]) PROVE KeptAs(m, start[n])'
    BY <1>2 DEF KeptAs, DownloadNames, should_remove
  <1> QED BY <1>1, <1>2 DEF FilesAreKept, ArchiveNames, DownloadNames, should_remove

LEMMA RepairKeeps ==
    ASSUME PostInv, par_repair
    PROVE  PostInv'
  <1>1. PICK report : report = native_repair(Parsed, dir)
    OBVIOUS
  <1>2. /\ stage = "ParRepairing" /\ stage' = "Renaming"
        /\ par_result' = report.result /\ dir' = report.disk
        /\ UNCHANGED <<dest, pending, start, archives>>
    BY <1>1, Zenon DEF par_repair
  <1>3. ParStages' /\ par_result = "RepairNeeded"
    BY <1>2 DEF PostInv, ParStages
  <1>4. CASE par_result' \in Repaired
    BY <1>3, <1>4 DEF PostInv, FilesAreKept
  <1>5. CASE par_result' \notin Repaired
    <2>1. dir' = dir
      BY <1>1, <1>2, <1>5, OnlyRepairsWrite
    <2>2. /\ stage \in BeforeUnpacking /\ stage \in BeforeMoving /\ par_result \notin Repaired
      BY <1>2, <1>3 DEF BeforeUnpacking, BeforeMoving, Repaired
    <2> QED BY <1>2, <1>3, <2>1, <2>2, NothingMoves
  <1> QED BY <1>4, <1>5

LEMMA NzbNameKeeps ==
    ASSUME PostInv, deobfuscate_by_nzb_name
    PROVE  PostInv'
  <1> DEFINE obfuscated == DOMAIN dir \intersect Obfuscated
             target(n) == NzbFile[Extension[n]]
             only == CHOOSE n \in obfuscated : TRUE
  <1>1. /\ stage = "Renaming" /\ stage' = "Unpacking" /\ archives' = {}
        /\ UNCHANGED <<dest, pending, start, par_result>>
    BY DEF deobfuscate_by_nzb_name
  <1>2. ParStages' /\ pending' = {}
    BY <1>1 DEF PostInv, ParStages
  <1>3. dir' = IF Cardinality(obfuscated) = 1 /\ \A n \in obfuscated : target(n) \notin DOMAIN dir
               THEN Renamed(only, target(only)) ELSE dir
    BY DEF deobfuscate_by_nzb_name
  <1> SUFFICES ASSUME par_result' \notin Repaired PROVE FilesAreKept'
    BY <1>2 DEF PostInv, FilesAreKept
  <1>4. stage \in BeforeUnpacking /\ stage' \in BeforeUnpacking /\ par_result \notin Repaired
    BY <1>1 DEF BeforeUnpacking
  <1>5. /\ DOMAIN dir' \subseteq DownloadNames
        /\ \A k \in DOMAIN start' : should_remove(k) \/ \E m : KeptAs(m, start[k])'
    <2>1. CASE Cardinality(obfuscated) = 1 /\ \A n \in obfuscated : target(n) \notin DOMAIN dir
      <3>1. obfuscated # {}
        <4>1. Cardinality({}) = 0
          BY FS_EmptySet
        <4> QED BY <2>1, <4>1
      <3>2. only \in obfuscated
        BY <3>1
      <3>3. PICK n, to : n = only /\ to = target(only)
        OBVIOUS
      <3>4. /\ n \in DOMAIN dir /\ n \in Obfuscated /\ to = NzbFile[Extension[n]]
            /\ to \notin DOMAIN dir /\ dir' = Renamed(n, to)
        BY <1>3, <2>1, <3>2, <3>3
      <3> HIDE DEF obfuscated, target, only
      <3>5. Extension[to] = Extension[n]
        BY <3>4, PostAssumption
      <3>6. to \in {NzbFile[Extension[k]] : k \in Obfuscated}
        BY <3>4
      <3>7. to \in DownloadNames
        BY <3>6 DEF DownloadNames, NamesOfNzb
      <3> QED BY <1>1, <1>4, <3>4, <3>5, <3>7, RenamesKeep
    <2>2. CASE ~(Cardinality(obfuscated) = 1 /\ \A n \in obfuscated : target(n) \notin DOMAIN dir)
      <3>1. dir' = dir
        BY <1>3, <2>2
      <3>2. /\ DOMAIN dir \subseteq DownloadNames
            /\ \A n \in DOMAIN start : should_remove(n) \/ \E m : KeptAs(m, start[n])
        BY <1>4 DEF PostInv, FilesAreKept
      <3>3. ASSUME NEW n \in DOMAIN start, NEW m, KeptAs(m, start[n]) PROVE KeptAs(m, start[n])'
        BY <1>1, <1>4, <3>1, <3>3 DEF KeptAs, DownloadNames, should_remove, BeforeMoving
      <3> QED BY <1>1, <3>1, <3>2, <3>3
    <2> QED BY <2>1, <2>2
  <1> QED BY <1>1, <1>2, <1>5 DEF FilesAreKept, ArchiveNames, DownloadNames, should_remove

LEMMA UnpackingKeeps ==
    ASSUME PostInv, ArchivesBringNewNames, NEW n \in archives, unpack(n)
    PROVE  PostInv'
  <1>1. /\ stage = "Extracting" /\ stage' \in {"Extracting", "Cleanup", "Moving"}
        /\ archives' \subseteq archives /\ UNCHANGED <<dest, pending, start, par_result>>
    BY DEF unpack, AfterUnpacking
  <1>2. ParStages' /\ pending' = {}
    BY <1>1 DEF PostInv, ParStages
  <1> SUFFICES ASSUME par_result' \notin Repaired PROVE FilesAreKept'
    BY <1>2 DEF PostInv, FilesAreKept
  <1>3. par_result \notin Repaired /\ archives \subseteq ArchiveNames
    BY <1>1 DEF PostInv, FilesAreKept
  <1>4. ASSUME NEW k \in DOMAIN start, NEW m, KeptAs(m, start[k]) PROVE KeptAs(m, start[k])'
    <2>1. m \in DownloadNames /\ ~should_remove(m) /\ m \in DOMAIN dir /\ dir[m] = start[k]
      BY <1>1, <1>4 DEF KeptAs, BeforeMoving
    <2>2. m # Unpacked[n]
      BY <1>3, <2>1 DEF ArchivesBringNewNames
    <2>3. m \in DOMAIN dir' /\ dir'[m] = dir[m]
      BY <2>1, <2>2 DEF unpack
    <2> QED BY <1>1, <2>1, <2>3 DEF KeptAs, DownloadNames, should_remove
  <1>5. \A k \in DOMAIN start : should_remove(k) \/ \E m : KeptAs(m, start[k])
    BY <1>3 DEF PostInv, FilesAreKept
  <1> QED BY <1>1, <1>2, <1>3, <1>4, <1>5
      DEF FilesAreKept, ArchiveNames, DownloadNames, should_remove, BeforeUnpacking

LEMMA CleanupKeeps ==
    ASSUME PostInv, cleanup_archives
    PROVE  PostInv'
  <1>1. PICK gone \in SUBSET {n \in DOMAIN dir : should_remove(n)} : dir' = Without(gone)
    BY DEF cleanup_archives
  <1>2. /\ stage = "Cleanup" /\ stage' = "Moving"
        /\ UNCHANGED <<dest, pending, start, par_result, archives>>
    BY DEF cleanup_archives, results
  <1>3. ParStages' /\ pending' = {}
    BY <1>2 DEF PostInv, ParStages
  <1>4. ASSUME NEW k \in DOMAIN start, NEW m, KeptAs(m, start[k]) PROVE KeptAs(m, start[k])'
    <2>1. m \in DownloadNames /\ ~should_remove(m) /\ m \in DOMAIN dir /\ dir[m] = start[k]
      BY <1>2, <1>4 DEF KeptAs, BeforeMoving
    <2>2. m \in DOMAIN dir' /\ dir'[m] = dir[m]
      BY <1>1, <2>1 DEF Without
    <2> QED BY <1>2, <2>1, <2>2 DEF KeptAs, DownloadNames, should_remove
  <1> QED BY <1>2, <1>3, <1>4
      DEF PostInv, FilesAreKept, ArchiveNames, DownloadNames, should_remove, BeforeUnpacking

LEMMA MoveBegins ==
    ASSUME PostInv, BeginMove
    PROVE  PostInv'
  <1>1. /\ stage = "Moving" /\ UNCHANGED <<dir, dest, start, par_result, archives>>
        /\ \/ stage' \in {"Extensions", "Reporting"} /\ pending' = pending
           \/ stage' = "MovingFiles" /\ pending' = DOMAIN dir
    BY DEF BeginMove, AfterMoving
  <1>2. ParStages' /\ pending' \subseteq DOMAIN dir /\ pending = {}
    BY <1>1 DEF PostInv, ParStages
  <1>3. ASSUME NEW k \in DOMAIN start, NEW m, KeptAs(m, start[k]) PROVE KeptAs(m, start[k])'
    <2>1. m \in DownloadNames /\ ~should_remove(m) /\ m \in DOMAIN dir /\ dir[m] = start[k]
      BY <1>1, <1>3 DEF KeptAs, BeforeMoving
    <2> QED BY <1>1, <2>1 DEF KeptAs, DownloadNames, should_remove
  <1> QED BY <1>1, <1>2, <1>3
      DEF PostInv, FilesAreKept, ArchiveNames, DownloadNames, should_remove, BeforeUnpacking

LEMMA MovingKeeps ==
    ASSUME PostInv, NEW n \in pending, move_path(n)
    PROVE  PostInv'
  <1>1. /\ stage = "MovingFiles" /\ stage' \in {"MovingFiles", "Extensions", "Reporting"}
        /\ pending' = pending \ {n} /\ UNCHANGED <<start, par_result, archives>>
        /\ stage' # "MovingFiles" => pending' = {}
    BY DEF move_path, AfterMoving
  <1>2. /\ n \in DOMAIN dest' /\ dest'[n] = dir[n]
        /\ \A m \in DOMAIN dest : m # n => m \in DOMAIN dest' /\ dest'[m] = dest[m]
    BY DEF move_path
  <1>3. \A m \in DOMAIN dir : m # n => m \in DOMAIN dir' /\ dir'[m] = dir[m]
    BY DEF move_path, Without
  <1>4. ParStages'
    BY <1>1 DEF PostInv, ParStages
  <1> SUFFICES ASSUME par_result' \notin Repaired PROVE FilesAreKept'
    BY <1>4 DEF PostInv, FilesAreKept
  <1>5. /\ par_result \notin Repaired /\ archives \subseteq ArchiveNames
        /\ pending \subseteq DOMAIN dir
        /\ \A k \in DOMAIN start : should_remove(k) \/ \E m : KeptAs(m, start[k])
    BY <1>1 DEF PostInv, FilesAreKept
  <1>6. pending' \subseteq DOMAIN dir'
    BY <1>1, <1>3, <1>5
  <1>7. stage' \notin BeforeMoving /\ stage' \notin BeforeUnpacking /\ stage \notin BeforeMoving
    BY <1>1 DEF BeforeMoving, BeforeUnpacking
  <1>8. ASSUME NEW k \in DOMAIN start, NEW m, KeptAs(m, start[k]) PROVE KeptAs(m, start[k])'
    <2>1. m \in DownloadNames /\ ~should_remove(m)
      BY <1>8 DEF KeptAs
    <2>2. \/ m \in DOMAIN dir' /\ dir'[m] = start[k]
          \/ m \in DOMAIN dest' /\ dest'[m] = start[k] /\ m \notin pending'
      BY <1>1, <1>2, <1>3, <1>8 DEF KeptAs
    <2> QED BY <1>1, <1>7, <2>1, <2>2 DEF KeptAs, DownloadNames, should_remove
  <1> QED BY <1>1, <1>5, <1>6, <1>7, <1>8 DEF FilesAreKept, ArchiveNames, DownloadNames, should_remove

LEMMA FailedMoveKeeps ==
    ASSUME PostInv, MoveFails
    PROVE  PostInv'
  <1>1. /\ stage = "MovingFiles" /\ stage' \in {"Extensions", "Reporting"} /\ pending' = {}
        /\ UNCHANGED <<dir, dest, start, par_result, archives>>
    BY DEF MoveFails, AfterMoving
  <1>2. stage' \notin BeforeMoving /\ stage' \notin BeforeUnpacking
    BY <1>1 DEF BeforeMoving, BeforeUnpacking
  <1>3. ASSUME NEW k \in DOMAIN start, NEW m, KeptAs(m, start[k]) PROVE KeptAs(m, start[k])'
    BY <1>1, <1>2, <1>3 DEF KeptAs, DownloadNames, should_remove
  <1> QED BY <1>1, <1>2, <1>3
      DEF PostInv, ParStages, FilesAreKept, ArchiveNames, DownloadNames, should_remove

LEMMA DetectionKeeps ==
    ASSUME PostInv, detect_archives
    PROVE  PostInv'
  <1>1. /\ stage = "Unpacking" /\ stage' \in {"Cleanup", "Moving", "Extracting"}
        /\ archives' \subseteq {n \in DOMAIN dir : Extension[n] \in {"rar", "7z", "zip"}}
        /\ pending' = {}
        /\ UNCHANGED <<dir, dest, start, par_result>>
    BY DEF detect_archives, AfterUnpacking, WithExtension
  <1>2. ParStages'
    BY <1>1 DEF PostInv, ParStages
  <1>3. ASSUME NEW k \in DOMAIN start, NEW m, KeptAs(m, start[k]) PROVE KeptAs(m, start[k])'
    <2>1. m \in DownloadNames /\ ~should_remove(m) /\ m \in DOMAIN dir /\ dir[m] = start[k]
      BY <1>1, <1>3 DEF KeptAs, BeforeMoving, BeforeUnpacking
    <2> QED BY <1>1, <2>1 DEF KeptAs, DownloadNames, should_remove
  <1> QED BY <1>1, <1>2, <1>3
      DEF PostInv, FilesAreKept, ArchiveNames, DownloadNames, should_remove, BeforeUnpacking

(* What is proved of the directory by induction: which of the downloaded    *)
(* files are in it at each stage.                                           *)
THEOREM PostInvCorrect == ArchivesBringNewNames /\ PostSpec => []PostInv
  <1>1. ArchivesBringNewNames /\ PostInv /\ [PostNext]_postVars => PostInv'
    <2> SUFFICES ASSUME ArchivesBringNewNames, PostInv, [PostNext]_postVars PROVE PostInv'
      OBVIOUS
    <2> USE DEF BeforeMoving, BeforeUnpacking, Repaired
    <2>1. CASE Receive \/ ParRenamed
      <3>1. ParStages' /\ stage \in {"Queued", "ParRenaming"} /\ stage' \in {"ParRenaming", "ParVerifying"}
        BY <2>1 DEF Receive, ParRenamed, PostInv, ParStages, results
      <3>2. UNCHANGED <<dir, dest, pending, start, archives, par_result>>
        BY <2>1 DEF Receive, ParRenamed, results
      <3> QED BY <3>1, <3>2, NothingMoves
    <2>2. CASE deobfuscate_files
      BY <2>2, DeobfuscationKeeps
    <2>3. CASE par_verify
      <3>1. /\ stage = "ParVerifying" /\ par_result = "None"
            /\ par_result' \in {"AllFilesOk", "RepairNeeded", "None"}
            /\ stage' = IF par_result' = "RepairNeeded" THEN "ParRepairing" ELSE "Renaming"
            /\ UNCHANGED <<dir, dest, pending, start, archives>>
        BY <2>3 DEF par_verify, native_verify, PostInv, ParStages
      <3>2. ParStages'
        BY <3>1 DEF PostInv, ParStages
      <3> QED BY <3>1, <3>2, NothingMoves
    <2>4. CASE par_repair
      BY <2>4, RepairKeeps
    <2>5. CASE deobfuscate_by_nzb_name
      BY <2>5, NzbNameKeeps
    <2>6. CASE detect_archives
      BY <2>6, DetectionKeeps
    <2>7. CASE \E n \in archives : unpack(n)
      BY <2>7, UnpackingKeeps
    <2>8. CASE cleanup_archives
      BY <2>8, CleanupKeeps
    <2>9. CASE BeginMove
      BY <2>9, MoveBegins
    <2>10. CASE \E n \in pending : move_path(n)
      BY <2>10, MovingKeeps
    <2>11. CASE MoveFails
      BY <2>11, FailedMoveKeeps
    <2>12. CASE run_post_process \/ report_done
      <3>1. /\ stage \in {"Extensions", "Reporting"} /\ stage' \in {"Reporting", "Finished"}
            /\ UNCHANGED <<dir, dest, pending, start, archives, par_result>>
        BY <2>12 DEF run_post_process, report_done, results
      <3>2. ParStages'
        BY <3>1 DEF PostInv, ParStages
      <3> QED BY <3>1, <3>2, NothingMoves
    <2>13. CASE UNCHANGED postVars
      <3>1. /\ UNCHANGED <<dir, dest, pending, start, archives, par_result, stage>> /\ ParStages'
        BY <2>13 DEF postVars, PostInv, ParStages
      <3> QED BY <3>1, NothingMoves
    <2> QED BY <2>1, <2>2, <2>3, <2>4, <2>5, <2>6, <2>7, <2>8, <2>9, <2>10, <2>11, <2>12, <2>13
        DEF PostNext
  <1>2. ArchivesBringNewNames => []ArchivesBringNewNames
    <2>1. ArchivesBringNewNames => ArchivesBringNewNames'
      BY DEF ArchivesBringNewNames, ArchiveNames, DownloadNames, should_remove
    <2> QED BY <2>1, PTL
  <1> QED BY <1>1, <1>2, PostInitially, PTL DEF PostSpec

(* No file of the download is lost on the way, if no archive brings one    *)
(* by the name of another: whatever is renamed, cleaned up, or moved, or   *)
(* fails to be moved, for every set of files and every configuration.      *)
THEOREM DownloadedFilesSurvive == ArchivesBringNewNames /\ PostSpec => []FilesSurvive
  <1>1. PostInv => FilesSurvive
    <2> SUFFICES ASSUME PostInv, stage = "Finished", par_result \notin Repaired,
                        NEW n \in DOMAIN start, ~should_remove(n)
                 PROVE  start[n] \in Range(dir) \union Range(dest)
      BY DEF FilesSurvive, Repaired
    <2>1. PICK m : KeptAs(m, start[n])
      BY DEF PostInv, FilesAreKept
    <2> QED BY <2>1 DEF KeptAs, Range
  <1> QED BY <1>1, PostInvCorrect, PTL

-----------------------------------------------------------------------------
(* Par2Set.  A content is told by its padded slices.                       *)
(* The place of a word in the slice that it is in.                         *)
InSlice(i, k) == (k - 1) * SliceSize + 1 <= i /\ i <= k * SliceSize

LEMMA SliceOfWord ==
    ASSUME NEW n \in Nat, NEW i \in 1..n
    PROVE  \E k \in 1..DivCeil(n) : k \in Nat /\ InSlice(i, k)
  <1>1. SliceSize \in Nat \ {0}
    BY PostAssumption
  <1> DEFINE k == (i + SliceSize - 1) \div SliceSize
  <1>2. k \in Int /\ k * SliceSize <= i + SliceSize - 1 /\ i + SliceSize - 1 <= k * SliceSize + SliceSize - 1
    <2>1. i + SliceSize - 1 \in Int
      BY <1>1
    <2>2. k \in Int
      BY <1>1, <2>1, Euclid
    <2> QED BY <1>1, <2>1, <2>2, QuotientIs
  <1>3. k <= DivCeil(n)
    <2>1. i + SliceSize - 1 \in Int /\ n + SliceSize - 1 \in Int /\ i + SliceSize - 1 <= n + SliceSize - 1
      BY <1>1
    <2> QED BY <1>1, <2>1, QuotientGrows DEF DivCeil
  <1>4. DivCeil(n) \in Int
    <2>1. n + SliceSize - 1 \in Int
      BY <1>1
    <2> QED BY <1>1, <2>1, Euclid DEF DivCeil
  <1> HIDE DEF k
  <1>5. k * SliceSize \in Int /\ (k - 1) * SliceSize = k * SliceSize - SliceSize
    BY <1>1, <1>2
  <1>6. InSlice(i, k)
    BY <1>1, <1>2, <1>5 DEF InSlice
  <1>7. k >= 1
    <2>1. CASE k <= 0
      <3>1. k * SliceSize <= 0
        BY <1>1, <1>2, <2>1
      <3> QED BY <1>1, <1>2, <1>5, <3>1
    <2> QED BY <1>2, <2>1
  <1> QED BY <1>2, <1>3, <1>4, <1>6, <1>7

LEMMA WordOfSlice ==
    ASSUME NEW content, IsList(content), NEW i \in 1..Len(content), NEW k \in Nat, InSlice(i, k)
    PROVE  Padded(SliceOf(content, k))[i - (k - 1) * SliceSize] = content[i]
  <1> DEFINE a == (k - 1) * SliceSize
             n == Len(content)
             upto == IF k * SliceSize < n THEN k * SliceSize ELSE n
             s == SubSeq(content, a + 1, upto)
  <1>1. SliceSize \in Nat \ {0} /\ n \in Nat
    BY PostAssumption DEF IsList
  <1>2. a \in Int /\ k * SliceSize = a + SliceSize
    BY <1>1
  <1>3. a + 1 <= i /\ i <= a + SliceSize
    BY <1>2 DEF InSlice
  <1>4. k >= 1
    <2>1. CASE k = 0
      BY <1>1, <1>3, <2>1
    <2> QED BY <2>1
  <1>5. a >= 0
    BY <1>1, <1>4
  <1>6. SliceOf(content, k) = s
    BY DEF SliceOf
  <1>7. upto \in Int /\ i <= upto /\ upto <= n /\ upto <= a + SliceSize
    <2> HIDE DEF a
    <2> QED BY <1>1, <1>2, <1>3
  <1> HIDE DEF a, upto
  <1>8. /\ Len(s) = upto - (a + 1) + 1
        /\ \A j \in 1..(upto - (a + 1) + 1) : s[j] = content[a + 1 + j - 1]
    <2>1. content \in Seq(Range(content))
      BY ListIsSequence DEF IsSequence
    <2>2. \A j \in (a + 1)..upto : content[j] \in Range(content)
      BY <1>1, <1>2, <1>5, <1>7, <2>1
    <2>3. a + 1 \in Int /\ a + 1 <= upto
      BY <1>2, <1>3, <1>7
    <2> QED BY <1>7, <2>2, <2>3, SubSeqProperties
  <1> HIDE DEF s
  <1>9. i - a \in 1..SliceSize /\ i - a <= Len(s) /\ i - a \in 1..(upto - (a + 1) + 1)
    BY <1>1, <1>2, <1>3, <1>7, <1>8
  <1>10. s[i - a] = content[i]
    <2>1. a + 1 + (i - a) - 1 = i
      BY <1>1, <1>2
    <2> QED BY <1>8, <1>9, <2>1
  <1>11. Padded(s)[i - a] = content[i]
    BY <1>9, <1>10 DEF Padded
  <1> QED BY <1>6, <1>11 DEF a

LEMMA SlicesTellContents ==
    ASSUME NEW content, IsList(content), NEW original, IsList(original),
           Len(content) = Len(original),
           \A k \in 1..DivCeil(Len(original)) : Padded(SliceOf(content, k)) = Slices(original)[k]
    PROVE  content = original
  <1>1. Len(content) \in Nat /\ Len(original) = Len(content)
    BY DEF IsList
  <1>2. ASSUME NEW i \in 1..Len(content) PROVE content[i] = original[i]
    <2>1. PICK k \in 1..DivCeil(Len(original)) : k \in Nat /\ InSlice(i, k)
      BY <1>1, SliceOfWord
    <2>2. Padded(SliceOf(content, k)) = Padded(SliceOf(original, k))
      BY DEF Slices
    <2>3. Padded(SliceOf(content, k))[i - (k - 1) * SliceSize] = content[i]
      BY <2>1, WordOfSlice
    <2>4. Padded(SliceOf(original, k))[i - (k - 1) * SliceSize] = original[i]
      BY <1>1, <2>1, WordOfSlice
    <2> QED BY <2>2, <2>3, <2>4
  <1> QED BY <1>1, <1>2, ListIsSequence, SameElements

(* What the verification says of a protected file with its checksums.      *)
LEMMA OkMeansOriginal ==
    ASSUME NEW name \in Range(Protected), NEW ifscs, name \in ifscs, NEW disk,
           name \in DOMAIN disk => IsList(disk[name])
    PROVE  verify_one_entry(Entry(name, ifscs), disk).kind = "Ok"
              <=> name \in DOMAIN disk /\ disk[name] = Original[name]
  <1> DEFINE entry == Entry(name, ifscs)
             content == disk[name]
             bad == BadSlices(entry, content, slice_count(entry))
  <1>1. entry.name = name /\ entry.length = Len(Original[name]) /\ entry.sums = Slices(Original[name])
    BY DEF Entry
  <1>2. IsList(Original[name]) /\ Len(Original[name]) \in Nat
    BY PostAssumption DEF IsList
  <1>3. /\ DOMAIN Slices(Original[name]) = 1..DivCeil(Len(Original[name]))
        /\ \A k \in 1..DivCeil(Len(Original[name])) :
              Slices(Original[name])[k] = Padded(SliceOf(Original[name], k))
    BY DEF Slices
  <1>4. slice_count(entry) = DivCeil(Len(Original[name]))
    BY <1>1 DEF slice_count
  <1>5. DivCeil(Len(Original[name])) \in Int
    <2>1. Len(Original[name]) + SliceSize - 1 \in Int /\ SliceSize \in Nat \ {0}
      BY <1>2, PostAssumption
    <2> QED BY <2>1, Euclid DEF DivCeil
  <1> HIDE DEF entry
  <1>6. bad = {k \in 1..DivCeil(Len(Original[name])) :
                  Padded(SliceOf(content, k)) # Slices(Original[name])[k]}
    <2>1. bad = {k \in DOMAIN Slices(Original[name]) : k <= DivCeil(Len(Original[name]))
                       /\ Padded(SliceOf(content, k)) # Slices(Original[name])[k]}
      BY <1>1, <1>4 DEF BadSlices
    <2> QED BY <1>3, <1>5, <2>1
  <1> HIDE DEF bad, content
  <1>7. verify_one_entry(entry, disk) =
           IF name \notin DOMAIN disk THEN [kind |-> "Missing", bad |-> AllSlices(entry)]
           ELSE IF Len(content) # Len(Original[name])
                THEN Damaged(verify_file_size_mismatch(entry, content))
                ELSE IF bad # {} THEN Damaged(bad) ELSE VerifiedOk
    BY <1>1 DEF verify_one_entry, bad, content
  <1>8. verify_one_entry(entry, disk).kind = "Ok"
           <=> name \in DOMAIN disk /\ Len(content) = Len(Original[name]) /\ bad = {}
    <2>1. \A b : Damaged(b).kind # "Ok"
      BY DEF Damaged
    <2>2. VerifiedOk.kind = "Ok"
      BY DEF VerifiedOk
    <2> QED BY <1>7, <2>1, <2>2
  <1>9. ASSUME name \in DOMAIN disk, Len(content) = Len(Original[name]), bad = {}
        PROVE  content = Original[name]
    <2>1. IsList(content)
      BY <1>9 DEF content
    <2> QED BY <1>2, <1>6, <1>9, <2>1, SlicesTellContents
  <1>10. content = Original[name] => Len(content) = Len(Original[name]) /\ bad = {}
    BY <1>3, <1>6
  <1> QED BY <1>8, <1>9, <1>10 DEF entry, content

(* A set with all its packets, as post-processing has parsed it.           *)
WholeSet(rs, ifscs) ==
    /\ Range(Protected) \subseteq ifscs
    /\ rs.files = [i \in DOMAIN Protected |-> Entry(Protected[i], ifscs)]

IntactOn(disk) == \A n \in Range(Protected) : n \in DOMAIN disk /\ disk[n] = Original[n]

LEMMA AllOkMeansIntact ==
    ASSUME NEW rs, NEW ifscs, WholeSet(rs, ifscs), NEW disk, IsDirectory(disk)
    PROVE  all_ok(verify_recovery_set(rs, disk)) <=> IntactOn(disk)
  <1> DEFINE verify == verify_recovery_set(rs, disk)
  <1>1. /\ rs.files = [i \in DOMAIN Protected |-> Entry(Protected[i], ifscs)]
        /\ Range(Protected) \subseteq ifscs
    BY DEF WholeSet
  <1>2. /\ DOMAIN verify = DOMAIN Protected
        /\ \A i \in DOMAIN Protected : verify[i] = verify_one_entry(rs.files[i], disk)
    BY <1>1 DEF verify_recovery_set
  <1> HIDE DEF verify
  <1>3. ASSUME NEW i \in DOMAIN Protected
        PROVE  verify[i].kind = "Ok"
                  <=> Protected[i] \in DOMAIN disk /\ disk[Protected[i]] = Original[Protected[i]]
    <2>1. Protected[i] \in Range(Protected)
      BY DEF Range
    <2>2. verify[i] = verify_one_entry(Entry(Protected[i], ifscs), disk)
      BY <1>1, <1>2
    <2>3. Protected[i] \in ifscs /\ (Protected[i] \in DOMAIN disk => IsList(disk[Protected[i]]))
      BY <1>1, <2>1 DEF IsDirectory
    <2>4. verify_one_entry(Entry(Protected[i], ifscs), disk).kind = "Ok"
             <=> Protected[i] \in DOMAIN disk /\ disk[Protected[i]] = Original[Protected[i]]
      BY <2>1, <2>3, OkMeansOriginal
    <2> QED BY <2>2, <2>4
  <1>4. all_ok(verify) <=> \A i \in DOMAIN Protected : verify[i].kind = "Ok"
    BY <1>2 DEF all_ok
  <1>5. (\A i \in DOMAIN Protected :
            Protected[i] \in DOMAIN disk /\ disk[Protected[i]] = Original[Protected[i]])
           <=> IntactOn(disk)
    BY DEF IntactOn, Range
  <1> QED BY <1>3, <1>4, <1>5 DEF verify

(* The slices of all files, file by file: no slice of a file comes twice.  *)
SliceIds == [file : Nat, local : Nat]
SlicesOf(rs, i) == [k \in 1..slice_count(rs.files[i]) |-> [file |-> i, local |-> k]]

LEMMA SlicesOfFile ==
    ASSUME NEW rs, NEW i \in Nat, slice_count(rs.files[i]) \in Nat
    PROVE  /\ SlicesOf(rs, i) \in Seq(SliceIds)
           /\ Len(SlicesOf(rs, i)) = slice_count(rs.files[i])
           /\ \A k \in 1..slice_count(rs.files[i]) :
                 SlicesOf(rs, i)[k].file = i /\ SlicesOf(rs, i)[k].local = k
  <1> DEFINE n == slice_count(rs.files[i])
  <1>1. n \in Nat
    OBVIOUS
  <1>2. SlicesOf(rs, i) = [k \in 1..n |-> [file |-> i, local |-> k]]
    BY DEF SlicesOf
  <1> HIDE DEF n
  <1>3. \A k \in 1..n : [file |-> i, local |-> k] \in SliceIds
    BY <1>1 DEF SliceIds
  <1>4. SlicesOf(rs, i) \in [1..n -> SliceIds]
    BY <1>2, <1>3
  <1>5. SlicesOf(rs, i) \in Seq(SliceIds) /\ Len(SlicesOf(rs, i)) = n
    BY <1>1, <1>4
  <1> QED BY <1>2, <1>5 DEF n

SlicesUpTo(F, rs, n) ==
    /\ F \in [0..n -> Seq(SliceIds)] /\ F[0] = <<>> /\ F[n] = GlobalSlices(rs)
    /\ \A i \in 1..n : F[i] = F[i - 1] \o SlicesOf(rs, i)

LEMMA GlobalSlicesPlaces ==
    ASSUME NEW rs, NEW n \in Nat, DOMAIN rs.files = 1..n,
           \A i \in 1..n : slice_count(rs.files[i]) \in Nat
    PROVE  \E F : SlicesUpTo(F, rs, n)
  <1> DEFINE s == [i \in DOMAIN rs.files |-> i]
             op(all, i) == all \o [k \in 1..slice_count(rs.files[i]) |-> [file |-> i, local |-> k]]
             V == Seq(SliceIds)
             G == [p \in V \X (1..n) |-> op(p[1], s[p[2]])]
             Is(it) == it = [t \in SUBSET DOMAIN s |->
                                IF t = {} THEN <<>> ELSE op(it[t \ {Max(t)}], s[Max(t)])]
             H == CHOOSE it : Is(it)
  <1>0. ASSUME NEW all \in V, NEW i \in 1..n PROVE op(all, i) = all \o SlicesOf(rs, i) /\ op(all, i) \in V
    <2>1. SlicesOf(rs, i) \in V /\ op(all, i) = all \o SlicesOf(rs, i)
      BY SlicesOfFile DEF SlicesOf
    <2> HIDE DEF op
    <2>2. all \o SlicesOf(rs, i) \in V
      BY <2>1
    <2> QED BY <2>1, <2>2
  <1>1. DOMAIN s = 1..n /\ \A i \in 1..n : s[i] = i
    OBVIOUS
  <1> HIDE DEF s, op
  <1>2. G \in [V \X (1..n) -> V] /\ <<>> \in V
    BY <1>0, <1>1
  <1>3. PICK f : FoldsUp(f, 1..n, V, <<>>, G, LastFirst(n))
    <2> HIDE DEF G, V
    <2> QED BY <1>2, LastFirstChooses, FoldExists, FS_Interval
  <1>4. Is(f)
    <2>1. ASSUME NEW t \in SUBSET (1..n), t # {}
          PROVE  f[t] = op(f[t \ {Max(t)}], s[Max(t)])
      <3>1. Max(t) \in 1..n
        BY <2>1, MaxIn
      <3>2. f[t \ {Max(t)}] \in V
        BY <1>3 DEF FoldsUp
      <3>3. f[t] = G[<<f[t \ {Max(t)}], Max(t)>>]
        BY <1>3, <2>1 DEF FoldsUp, LastFirst
      <3> QED BY <3>1, <3>2, <3>3
    <2> QED BY <1>1, <1>3, <2>1 DEF FoldsUp
  <1>5. Is(H)
    <2> HIDE DEF Is
    <2> QED BY <1>4
  <1>6. GlobalSlices(rs) = H[1..n]
    <2>1. GlobalSlices(rs) = H[DOMAIN s]
      BY DEF GlobalSlices, FoldLeft, MapThenFoldSet, s, op
    <2> HIDE DEF H
    <2> QED BY <1>1, <2>1
  <1>7. H[{}] = <<>>
    BY <1>5
  <1>8. ASSUME NEW i \in 1..n PROVE H[1..i] = op(H[1..(i - 1)], i)
    <2>1. 1..i \in SUBSET DOMAIN s /\ 1..i # {}
      <3>1. i \in 1..i /\ 1..i \subseteq 1..n
        OBVIOUS
      <3> QED BY <1>1, <3>1
    <2>2. Max(1..i) = i /\ (1..i) \ {Max(1..i)} = 1..(i - 1)
      BY MaxOfPrefix
    <2> HIDE DEF H
    <2> QED BY <1>1, <1>5, <2>1, <2>2
  <1> DEFINE F == [i \in 0..n |-> H[1..i]]
  <1> HIDE DEF H
  <1>9. F[0] = <<>> /\ F[n] = GlobalSlices(rs) /\ \A i \in 1..n : F[i] = op(F[i - 1], i)
    <2>1. 1..0 = {}
      OBVIOUS
    <2> QED BY <1>6, <1>7, <1>8, <2>1
  <1>10. F = [i \in 0..n |-> F[i]]
    OBVIOUS
  <1> HIDE DEF F
  <1> DEFINE U == {i \in 0..n : F[i] \in V}
  <1>11. 0 \in U
    <2>1. 0 \in 0..n /\ F[0] \in V
      <3> HIDE DEF V
      <3> QED BY <1>2, <1>9
    <2> QED BY <2>1
  <1>12. ASSUME NEW i \in 1..n, i - 1 \in U PROVE i \in U
    <2>1. F[i - 1] \in V /\ i \in 0..n
      BY <1>12
    <2> HIDE DEF V
    <2> QED BY <1>0, <1>9, <2>1
  <1>13. \A i \in 0..n : F[i] \in V
    <2> HIDE DEF U
    <2>1. 0..n \subseteq U
      BY <1>11, <1>12, InductiveInterval
    <2> QED BY <2>1 DEF U
  <1>14. \A i \in 1..n : F[i] = F[i - 1] \o SlicesOf(rs, i)
    <2> SUFFICES ASSUME NEW i \in 1..n PROVE F[i] = F[i - 1] \o SlicesOf(rs, i)
      OBVIOUS
    <2>1. i - 1 \in 0..n
      OBVIOUS
    <2>2. F[i - 1] \in V
      BY <1>13, <2>1
    <2> HIDE DEF V
    <2> QED BY <1>0, <1>9, <2>2
  <1>15. F \in [0..n -> V]
    BY <1>10, <1>13
  <1> QED BY <1>9, <1>14, <1>15 DEF SlicesUpTo

(* A slice is one of a file of the set, and listed once.                   *)
SlicesAreListed(all, rs, n) ==
    /\ all \in Seq(SliceIds)
    /\ \A g \in 1..Len(all) : all[g].file \in 1..n /\ all[g].local \in 1..slice_count(rs.files[all[g].file])
    /\ \A g, h \in 1..Len(all) : all[g] = all[h] => g = h

LEMMA ListedOnce ==
    ASSUME NEW rs, NEW n \in Nat, DOMAIN rs.files = 1..n,
           \A i \in 1..n : slice_count(rs.files[i]) \in Nat
    PROVE  SlicesAreListed(GlobalSlices(rs), rs, n)
  <1>1. PICK F : SlicesUpTo(F, rs, n)
    BY GlobalSlicesPlaces
  <1> DEFINE U == {i \in 0..n : SlicesAreListed(F[i], rs, i)}
  <1>2. 0 \in U
    <2>1. F[0] = <<>>
      BY <1>1 DEF SlicesUpTo
    <2>2. SlicesAreListed(<<>>, rs, 0)
      BY DEF SlicesAreListed
    <2>3. SlicesAreListed(F[0], rs, 0)
      BY <2>1, <2>2
    <2> QED BY <2>3
  <1>3. ASSUME NEW i \in 1..n, i - 1 \in U PROVE i \in U
    <2> DEFINE all == F[i - 1]
               t == SlicesOf(rs, i)
               c == slice_count(rs.files[i])
    <2>1. SlicesAreListed(all, rs, i - 1)
      BY <1>3
    <2>2. F[i] = all \o t
      BY <1>1 DEF SlicesUpTo
    <2>3. /\ t \in Seq(SliceIds) /\ Len(t) = c /\ c \in Nat
          /\ \A k \in 1..c : t[k].file = i /\ t[k].local = k
      BY SlicesOfFile
    <2> HIDE DEF t, c, all
    <2>4. all \in Seq(SliceIds) /\ Len(all) \in Nat
      BY <2>1 DEF SlicesAreListed
    <2>5. PICK r : r = all \o t
      OBVIOUS
    <2>6. /\ r \in Seq(SliceIds) /\ Len(r) = Len(all) + c
          /\ \A g \in 1..Len(r) : \/ g \in 1..Len(all) /\ r[g] = all[g]
                                  \/ g - Len(all) \in 1..c /\ r[g] = t[g - Len(all)]
      BY <2>3, <2>4, <2>5, ConcatProperties
    <2>7. \A g \in 1..Len(r) : \/ g \in 1..Len(all) /\ r[g] = all[g]
                               \/ g - Len(all) \in 1..c /\ r[g].file = i /\ r[g].local = g - Len(all)
      <3> SUFFICES ASSUME NEW g \in 1..Len(r), g - Len(all) \in 1..c, r[g] = t[g - Len(all)]
                   PROVE  r[g].file = i /\ r[g].local = g - Len(all)
        BY <2>6
      <3>1. t[g - Len(all)].file = i /\ t[g - Len(all)].local = g - Len(all)
        BY <2>3
      <3> QED BY <3>1
    <2>8. \A g \in 1..Len(r) : r[g].file \in 1..i /\ r[g].local \in 1..slice_count(rs.files[r[g].file])
      <3> SUFFICES ASSUME NEW g \in 1..Len(r)
                   PROVE  r[g].file \in 1..i /\ r[g].local \in 1..slice_count(rs.files[r[g].file])
        OBVIOUS
      <3>1. CASE g \in 1..Len(all) /\ r[g] = all[g]
        BY <2>1, <3>1 DEF SlicesAreListed
      <3>2. CASE g - Len(all) \in 1..c /\ r[g].file = i /\ r[g].local = g - Len(all)
        BY <3>2 DEF c
      <3> QED BY <2>7, <3>1, <3>2
    <2>9. ASSUME NEW g \in 1..Len(r), NEW h \in 1..Len(r), r[g] = r[h] PROVE g = h
      <3>1. ASSUME NEW x \in 1..Len(all) PROVE all[x].file # i
        <4>1. all[x].file \in 1..(i - 1)
          BY <2>1 DEF SlicesAreListed
        <4> QED BY <4>1
      <3>2. CASE g \in 1..Len(all) /\ r[g] = all[g] /\ h \in 1..Len(all) /\ r[h] = all[h]
        BY <2>1, <2>9, <3>2 DEF SlicesAreListed
      <3>3. CASE /\ g - Len(all) \in 1..c /\ r[g].file = i /\ r[g].local = g - Len(all)
                 /\ h - Len(all) \in 1..c /\ r[h].file = i /\ r[h].local = h - Len(all)
        <4>1. g - Len(all) = h - Len(all)
          BY <2>9, <3>3
        <4>2. g \in Int /\ h \in Int
          BY <2>6
        <4> QED BY <2>4, <4>1, <4>2
      <3> QED BY <2>7, <2>9, <3>1, <3>2, <3>3
    <2>10. SlicesAreListed(r, rs, i)
      BY <2>6, <2>8, <2>9 DEF SlicesAreListed
    <2>11. SlicesAreListed(F[i], rs, i) /\ i \in 0..n
      BY <2>2, <2>5, <2>10
    <2> QED BY <2>11
  <1>4. n \in U
    <2> HIDE DEF U
    <2>1. 0..n \subseteq U
      BY <1>2, <1>3, InductiveInterval
    <2> QED BY <2>1
  <1> QED BY <1>1, <1>4 DEF SlicesUpTo

(* What is missing: places of the list, in their order, of bad slices.     *)
IsMissing(missing, slices, verify) ==
    /\ Len(missing) \in Nat
    /\ \A p \in 1..Len(missing) :
          missing[p] \in 1..Len(slices) /\ slices[missing[p]].local \in verify[slices[missing[p]].file].bad
    /\ \A p, q \in 1..Len(missing) : missing[p] = missing[q] => p = q

LEMMA MissingPlaces ==
    ASSUME NEW rs, NEW verify, GlobalSlices(rs) \in Seq(SliceIds)
    PROVE  IsMissing(MissingGlobals(GlobalSlices(rs), verify), GlobalSlices(rs), verify)
  <1> DEFINE slices == GlobalSlices(rs)
             s == [g \in DOMAIN slices |-> g]
             T == {g \in DOMAIN slices : slices[g].local \in verify[slices[g].file].bad}
             missing == Selected(s, T)
  <1>1. MissingGlobals(GlobalSlices(rs), verify) = missing
    BY DEF MissingGlobals
  <1>2. DOMAIN slices = 1..Len(slices) /\ Len(slices) \in Nat
    OBVIOUS
  <1> HIDE DEF slices
  <1>3. s \in Seq(Nat) /\ Len(s) = Len(slices) /\ \A g \in 1..Len(slices) : s[g] = g
    BY <1>2
  <1> HIDE DEF s
  <1>4. PICK at : PlacesOf(at, s, T, missing)
    BY <1>3, SelectedOrder
  <1>5. missing \in Seq(Nat)
    BY <1>3, SelectedElements
  <1>6. Len(missing) \in Nat
    BY <1>5
  <1> HIDE DEF missing
  <1>7. ASSUME NEW p \in 1..Len(missing)
        PROVE  missing[p] = at[p] /\ missing[p] \in T /\ at[p] \in 1..Len(slices)
    BY <1>3, <1>4 DEF PlacesOf
  <1>8. ASSUME NEW p \in 1..Len(missing), NEW q \in 1..Len(missing), missing[p] = missing[q] PROVE p = q
    <2>1. at[p] = at[q] /\ at[p] \in Nat
      BY <1>2, <1>7, <1>8
    <2>2. p < q => at[p] < at[q]
      BY <1>4 DEF PlacesOf
    <2>3. q < p => at[q] < at[p]
      BY <1>4 DEF PlacesOf
    <2> QED BY <1>6, <2>1, <2>2, <2>3
  <1>9. IsMissing(missing, slices, verify)
    BY <1>6, <1>7, <1>8 DEF IsMissing
  <1> QED BY <1>1, <1>9 DEF slices

(* A slice that the verification calls bad is lost.                        *)
LEMMA BadIsLost ==
    ASSUME NEW name, NEW ifscs, name \in ifscs,
           NEW k \in 1..slice_count(Entry(name, ifscs)),
           k \in verify_one_entry(Entry(name, ifscs), dir).bad
    PROVE  k \in LostSlices(name)
  <1> DEFINE entry == Entry(name, ifscs)
             content == dir[name]
             sums == Slices(Original[name])
  <1>1. entry.name = name /\ entry.length = Len(Original[name]) /\ entry.sums = sums
    BY DEF Entry
  <1>2. DOMAIN sums = 1..DivCeil(Len(Original[name])) /\ slice_count(entry) = DivCeil(Len(Original[name]))
    BY <1>1 DEF Slices, slice_count
  <1>3. k \in DOMAIN sums /\ k \in verify_one_entry(entry, dir).bad
    BY <1>2
  <1>4. LostSlices(name) =
          {j \in DOMAIN sums : \/ name \notin DOMAIN dir \/ j > DivCeil(Len(content))
                               \/ Len(content) > Len(Original[name])
                               \/ Padded(SliceOf(content, j)) # sums[j]}
    BY DEF LostSlices
  <1>5. \A upto : k \in BadSlices(entry, content, upto) => Padded(SliceOf(content, k)) # sums[k]
    BY <1>1 DEF BadSlices
  <1>6. CASE name \notin DOMAIN dir
    BY <1>3, <1>4, <1>6
  <1>7. CASE name \in DOMAIN dir /\ Len(content) # entry.length
    <2>1. verify_one_entry(entry, dir) = Damaged(verify_file_size_mismatch(entry, content))
      BY <1>1, <1>7 DEF verify_one_entry
    <2>2. k \in verify_file_size_mismatch(entry, content)
      BY <1>3, <2>1 DEF Damaged
    <2>3. CASE Len(content) > entry.length
      BY <1>1, <1>3, <1>4, <2>3
    <2>4. CASE ~(Len(content) > entry.length)
      <3>1. k \in BadSlices(entry, content, DivCeil(Len(content))) \/ k > DivCeil(Len(content))
        BY <2>2, <2>4 DEF verify_file_size_mismatch
      <3> QED BY <1>3, <1>4, <1>5, <3>1
    <2> QED BY <2>3, <2>4
  <1>8. CASE name \in DOMAIN dir /\ Len(content) = entry.length
    <2> DEFINE bad == BadSlices(entry, content, slice_count(entry))
    <2>1. verify_one_entry(entry, dir) = IF bad # {} THEN Damaged(bad) ELSE VerifiedOk
      BY <1>1, <1>8 DEF verify_one_entry
    <2>2. k \in bad
      <3>1. CASE bad # {}
        BY <1>3, <2>1, <3>1 DEF Damaged
      <3>2. CASE bad = {}
        BY <1>3, <2>1, <3>2 DEF VerifiedOk
      <3> QED BY <3>1, <3>2
    <2> QED BY <1>3, <1>4, <1>5, <2>2
  <1> QED BY <1>6, <1>7, <1>8

LEMMA NatDivCeil ==
    ASSUME NEW n \in Nat
    PROVE  DivCeil(n) \in Nat
  <1>1. SliceSize \in Nat \ {0} /\ n + SliceSize - 1 \in Int /\ 0 \in Int /\ 0 <= n + SliceSize - 1
    BY PostAssumption
  <1>2. DivCeil(n) \in Int
    BY <1>1, Euclid DEF DivCeil
  <1>3. 0 \div SliceSize <= DivCeil(n)
    BY <1>1, QuotientGrows DEF DivCeil
  <1>4. 0 \div SliceSize = 0
    BY <1>1, QuotientIs
  <1> QED BY <1>2, <1>3, <1>4

LEMMA LostIsFinite ==
    /\ IsFiniteSet(UNION {{n} \X LostSlices(n) : n \in Range(Protected)})
    /\ SlicesNeeded \in Nat
  <1> DEFINE f == [n \in Range(Protected) |-> {n} \X LostSlices(n)]
             T == {{n} \X LostSlices(n) : n \in Range(Protected)}
  <1>1. IsFiniteSet(Range(Protected))
    BY PostAssumption, RangeCardinality
  <1>2. ASSUME NEW n \in Range(Protected) PROVE IsFiniteSet({n} \X LostSlices(n))
    <2>1. DivCeil(Len(Original[n])) \in Nat
      BY PostAssumption, NatDivCeil DEF IsList
    <2>2. LostSlices(n) \subseteq 1..DivCeil(Len(Original[n]))
      BY DEF LostSlices, Slices
    <2>3. IsFiniteSet(1..DivCeil(Len(Original[n])))
      BY <2>1, FS_Interval
    <2>4. IsFiniteSet(LostSlices(n)) /\ IsFiniteSet({n})
      BY <2>2, <2>3, FS_Subset, FS_Singleton
    <2> QED BY <2>4, FS_Product
  <1>3. f \in Surjection(Range(Protected), T)
    BY DEF Surjection
  <1>4. IsFiniteSet(T)
    BY <1>1, <1>3, FS_Surjection
  <1>5. IsFiniteSet(UNION T)
    BY <1>2, <1>4, FS_UNION
  <1> QED BY <1>5, FS_CardinalityType DEF SlicesNeeded

(* The entries of a set with all its packets.                              *)
LEMMA WholeEntries ==
    ASSUME NEW rs, NEW ifscs, WholeSet(rs, ifscs)
    PROVE  /\ Len(Protected) \in Nat /\ DOMAIN rs.files = 1..Len(Protected)
           /\ \A i \in 1..Len(Protected) :
                 /\ rs.files[i] = Entry(Protected[i], ifscs) /\ Protected[i] \in Range(Protected)
                 /\ slice_count(rs.files[i]) \in Nat /\ rs.files[i].length \in Nat
           /\ SlicesAreListed(GlobalSlices(rs), rs, Len(Protected))
  <1>1. Len(Protected) \in Nat /\ DOMAIN Protected = 1..Len(Protected)
    BY PostAssumption
  <1>2. rs.files = [i \in DOMAIN Protected |-> Entry(Protected[i], ifscs)]
    BY DEF WholeSet
  <1>3. /\ DOMAIN rs.files = 1..Len(Protected)
        /\ \A i \in 1..Len(Protected) :
              rs.files[i] = Entry(Protected[i], ifscs) /\ Protected[i] \in Range(Protected)
    BY <1>1, <1>2 DEF Range
  <1>4. ASSUME NEW i \in 1..Len(Protected)
        PROVE  slice_count(rs.files[i]) \in Nat /\ rs.files[i].length \in Nat
    <2>1. rs.files[i].length = Len(Original[Protected[i]])
      <3>1. rs.files[i] = Entry(Protected[i], ifscs)
        BY <1>3
      <3>2. Entry(Protected[i], ifscs).length = Len(Original[Protected[i]])
        BY DEF Entry
      <3> QED BY <3>1, <3>2
    <2>2. Len(Original[Protected[i]]) \in Nat
      BY <1>3, PostAssumption DEF IsList
    <2>3. DivCeil(Len(Original[Protected[i]])) \in Nat
      BY <2>2, NatDivCeil
    <2> QED BY <2>1, <2>2, <2>3 DEF slice_count
  <1>5. SlicesAreListed(GlobalSlices(rs), rs, Len(Protected))
    BY <1>1, <1>3, <1>4, ListedOnce
  <1> QED BY <1>1, <1>3, <1>4, <1>5

(* No more slices are missing than were lost.                              *)
LEMMA MissingAreLost ==
    ASSUME NEW rs, NEW ifscs, WholeSet(rs, ifscs)
    PROVE  /\ Len(MissingGlobals(GlobalSlices(rs), verify_recovery_set(rs, dir))) \in Nat
           /\ Len(MissingGlobals(GlobalSlices(rs), verify_recovery_set(rs, dir))) <= SlicesNeeded
  <1> DEFINE verify == verify_recovery_set(rs, dir)
             slices == GlobalSlices(rs)
             missing == MissingGlobals(slices, verify)
             T == UNION {{n} \X LostSlices(n) : n \in Range(Protected)}
             n == Len(Protected)
  <1>1. /\ n \in Nat /\ DOMAIN rs.files = 1..n
        /\ \A i \in 1..n : rs.files[i] = Entry(Protected[i], ifscs) /\ Protected[i] \in Range(Protected)
        /\ SlicesAreListed(slices, rs, n)
    BY WholeEntries
  <1>2. slices \in Seq(SliceIds)
    BY <1>1 DEF SlicesAreListed
  <1>3. IsMissing(missing, slices, verify)
    BY <1>2, MissingPlaces
  <1>4. \A i \in 1..n : verify[i] = verify_one_entry(rs.files[i], dir)
    BY <1>1 DEF verify_recovery_set
  <1>5. IsFiniteSet(T) /\ SlicesNeeded = Cardinality(T)
    BY LostIsFinite DEF SlicesNeeded
  <1>6. Range(Protected) \subseteq ifscs /\ \A i, j \in 1..n : Protected[i] = Protected[j] => i = j
    BY PostAssumption DEF WholeSet, IsInjective
  <1> HIDE DEF verify, slices, missing
  <1> DEFINE at(p) == slices[missing[p]]
             lost(p) == <<Protected[at(p).file], at(p).local>>
             f == [p \in 1..Len(missing) |-> lost(p)]
  <1>7. ASSUME NEW p \in 1..Len(missing)
        PROVE  /\ missing[p] \in 1..Len(slices) /\ at(p) \in SliceIds
               /\ at(p).file \in 1..n /\ at(p).local \in 1..slice_count(rs.files[at(p).file])
               /\ at(p).local \in verify[at(p).file].bad
    BY <1>1, <1>2, <1>3 DEF IsMissing, SlicesAreListed
  <1> HIDE DEF at
  <1>8. ASSUME NEW p \in 1..Len(missing) PROVE lost(p) \in T
    <2> DEFINE name == Protected[at(p).file]
               k == at(p).local
    <2>1. rs.files[at(p).file] = Entry(name, ifscs) /\ name \in Range(Protected) /\ name \in ifscs
      BY <1>1, <1>6, <1>7
    <2>2. k \in 1..slice_count(Entry(name, ifscs)) /\ k \in verify_one_entry(Entry(name, ifscs), dir).bad
      BY <1>4, <1>7, <2>1
    <2>3. k \in LostSlices(name)
      BY <2>1, <2>2, BadIsLost
    <2> QED BY <2>1, <2>3
  <1>9. ASSUME NEW p \in 1..Len(missing), NEW q \in 1..Len(missing), lost(p) = lost(q)
        PROVE  p = q
    <2>1. at(p).file = at(q).file /\ at(p).local = at(q).local
      BY <1>6, <1>7, <1>9
    <2>2. at(p) = at(q)
      BY SMTT(30), <1>7, <2>1 DEF SliceIds
    <2>3. missing[p] = missing[q]
      BY <1>1, <1>7, <2>2 DEF at, SlicesAreListed
    <2> QED BY <1>3, <2>3 DEF IsMissing
  <1> HIDE DEF lost, T
  <1>10. f \in Injection(1..Len(missing), T)
    BY <1>8, <1>9 DEF Injection, IsInjective
  <1>11. Cardinality(1..Len(missing)) <= Cardinality(T)
    BY <1>5, <1>10, FS_Injection
  <1>12. Len(missing) \in Nat /\ Cardinality(1..Len(missing)) = Len(missing)
    <2>1. Len(missing) \in Nat
      BY <1>3 DEF IsMissing
    <2>2. Cardinality(1..Len(missing)) = IF 1 > Len(missing) THEN 0 ELSE Len(missing) - 1 + 1
      BY <2>1, FS_Interval
    <2> QED BY <2>1, <2>2
  <1> QED BY <1>5, <1>11, <1>12 DEF missing, verify, slices

(* The slices that a repair writes, one at a time, leave files of words.   *)
LEMMA WrittenIsDirectory ==
    ASSUME NEW rs, NEW disk, IsDirectory(disk), NEW globals, NEW missing, NEW data, NEW k \in Nat,
           \A c \in 1..k : /\ rs.files[globals[missing[c]].file].length \in Nat
                           /\ globals[missing[c]].local \in Nat
    PROVE  IsDirectory(WriteSlices(rs, disk, globals, missing, data, k))
  <1> DEFINE s == [c \in 1..k |-> c]
             name(c) == rs.files[globals[missing[c]].file].name
             N == DOMAIN disk \union {name(c) : c \in 1..k}
             W == {0} \union (UNION {Range(disk[n]) : n \in DOMAIN disk})
                      \union {data[p[1]][p[2]] : p \in (1..k) \X (1..SliceSize)}
             V == UNION {[D -> Seq(W)] : D \in SUBSET N}
             op(dsk, c) == WriteSlice(rs, dsk, globals[missing[c]], data[c])
             G == [p \in V \X (1..k) |-> op(p[1], s[p[2]])]
             Is(it) == it = [t \in SUBSET DOMAIN s |->
                                IF t = {} THEN disk ELSE op(it[t \ {Max(t)}], s[Max(t)])]
             H == CHOOSE it : Is(it)
  <1>1. DOMAIN s = 1..k /\ \A c \in 1..k : s[c] = c
    OBVIOUS
  <1>2. disk \in V
    <2>1. ASSUME NEW n \in DOMAIN disk PROVE disk[n] \in Seq(W)
      <3>1. IsSequence(disk[n])
        BY ListIsSequence DEF IsDirectory
      <3>2. Range(disk[n]) \subseteq W
        OBVIOUS
      <3> HIDE DEF W
      <3>3. disk[n] \in Seq(Range(disk[n]))
        BY <3>1 DEF IsSequence
      <3> QED BY <3>2, <3>3
    <2> HIDE DEF W
    <2>2. disk \in [DOMAIN disk -> Seq(W)]
      BY <2>1 DEF IsDirectory
    <2>3. DOMAIN disk \in SUBSET N
      OBVIOUS
    <2> HIDE DEF N
    <2> QED BY <2>2, <2>3
  <1>3. ASSUME NEW dsk \in V, NEW c \in 1..k PROVE op(dsk, c) \in V
    <2> DEFINE g == globals[missing[c]]
               length == rs.files[g.file].length
               at == (g.local - 1) * SliceSize
               old == IF name(c) \in DOMAIN dsk THEN dsk[name(c)] ELSE <<>>
               w(i) == IF i > at /\ i <= at + SliceSize THEN data[c][i - at]
                       ELSE IF i <= Len(old) THEN old[i] ELSE 0
               content == [i \in 1..length |-> w(i)]
    <2>1. PICK D \in SUBSET N : dsk \in [D -> Seq(W)]
      OBVIOUS
    <2>2. op(dsk, c) = [n \in D \union {name(c)} |-> IF n # name(c) THEN dsk[n] ELSE content]
      BY <2>1 DEF WriteSlice
    <2>3. old \in Seq(W)
      <3> HIDE DEF W, N
      <3> QED BY <2>1
    <2>4. at \in Int /\ length \in Nat /\ SliceSize \in Nat
      BY PostAssumption
    <2>5. ASSUME NEW i \in 1..length PROVE w(i) \in W
      <3>1. CASE i > at /\ i <= at + SliceSize
        <4>1. i - at \in 1..SliceSize
          <5> HIDE DEF at, length
          <5> QED BY <2>4, <3>1
        <4>2. <<c, i - at>> \in (1..k) \X (1..SliceSize)
          BY <4>1
        <4>3. data[c][i - at] \in W
          <5> HIDE DEF at, length
          <5> QED BY <4>2
        <4> QED BY <3>1, <4>3
      <3>2. CASE ~(i > at /\ i <= at + SliceSize) /\ i <= Len(old)
        <4>1. i \in 1..Len(old)
          <5> HIDE DEF old, at, length, W
          <5>1. Len(old) \in Nat
            BY <2>3
          <5> QED BY <2>4, <3>2, <5>1
        <4>2. old[i] \in W
          <5> HIDE DEF old, W
          <5> QED BY <2>3, <4>1
        <4> QED BY <3>2, <4>2
      <3>3. CASE ~(i > at /\ i <= at + SliceSize) /\ ~(i <= Len(old))
        BY <3>3
      <3> QED BY <3>1, <3>2, <3>3
    <2> HIDE DEF w, W, length
    <2>6. content \in Seq(W)
      <3>1. content \in [1..length -> W]
        BY <2>5
      <3> HIDE DEF content
      <3> QED BY <2>4, <3>1
    <2> HIDE DEF content
    <2>7. op(dsk, c) \in [D \union {name(c)} -> Seq(W)]
      BY <2>1, <2>2, <2>6
    <2>8. D \union {name(c)} \in SUBSET N
      BY <2>1
    <2> HIDE DEF N, op
    <2> QED BY <2>7, <2>8
  <1>4. ASSUME NEW d \in V PROVE IsDirectory(d)
    <2>1. PICK D \in SUBSET N : d \in [D -> Seq(W)]
      OBVIOUS
    <2> HIDE DEF W, N
    <2>2. ASSUME NEW n \in DOMAIN d PROVE IsList(d[n])
      <3>1. d[n] \in Seq(W)
        BY <2>1
      <3> PICK c : c = d[n]
        OBVIOUS
      <3>2. Len(c) \in Nat /\ c = [i \in 1..Len(c) |-> c[i]]
        BY <3>1
      <3> QED BY <3>2 DEF IsList
    <2>3. d = [n \in DOMAIN d |-> d[n]]
      BY <2>1
    <2> QED BY <2>2, <2>3 DEF IsDirectory
  <1>5. WriteSlices(rs, disk, globals, missing, data, k) = H[DOMAIN s]
    BY DEF WriteSlices, FoldLeft, MapThenFoldSet
  <1> HIDE DEF V, op, s
  <1>6. G \in [V \X (1..k) -> V]
    BY <1>1, <1>3
  <1>7. PICK f : FoldsUp(f, 1..k, V, disk, G, LastFirst(k))
    <2> HIDE DEF G
    <2> QED BY <1>2, <1>6, LastFirstChooses, FoldExists, FS_Interval
  <1>8. Is(f)
    <2>1. ASSUME NEW t \in SUBSET (1..k), t # {}
          PROVE  f[t] = op(f[t \ {Max(t)}], s[Max(t)])
      <3>1. Max(t) \in 1..k
        BY <2>1, MaxIn
      <3>2. f[t \ {Max(t)}] \in V
        BY <1>7 DEF FoldsUp
      <3>3. f[t] = G[<<f[t \ {Max(t)}], Max(t)>>]
        BY <1>7, <2>1 DEF FoldsUp, LastFirst
      <3> QED BY <3>1, <3>2, <3>3
    <2> QED BY <1>1, <1>7, <2>1 DEF FoldsUp
  <1>9. Is(H)
    <2> HIDE DEF Is
    <2> QED BY <1>8
  <1>10. H[{}] = disk
    BY <1>9
  <1>11. ASSUME NEW i \in 1..k PROVE H[1..i] = op(H[1..(i - 1)], i)
    <2>1. 1..i \in SUBSET DOMAIN s /\ 1..i # {}
      <3>1. i \in 1..i /\ 1..i \subseteq 1..k
        OBVIOUS
      <3> QED BY <1>1, <3>1
    <2>2. Max(1..i) = i /\ (1..i) \ {Max(1..i)} = 1..(i - 1)
      BY MaxOfPrefix
    <2> HIDE DEF H
    <2> QED BY <1>1, <1>9, <2>1, <2>2
  <1> HIDE DEF H
  <1> DEFINE U == {i \in 0..k : H[1..i] \in V}
  <1>12. 0 \in U
    <2>1. 1..0 = {} /\ 0 \in 0..k
      OBVIOUS
    <2> QED BY <1>2, <1>10, <2>1
  <1>13. ASSUME NEW i \in 1..k, i - 1 \in U PROVE i \in U
    <2>1. H[1..(i - 1)] \in V /\ i \in 0..k
      BY <1>13
    <2> QED BY <1>3, <1>11, <2>1
  <1>14. k \in U
    <2> HIDE DEF U
    <2>1. 0..k \subseteq U
      BY <1>12, <1>13, InductiveInterval
    <2> QED BY <2>1
  <1>15. H[1..k] \in V
    BY <1>14
  <1> QED BY <1>1, <1>4, <1>5, <1>15

(* What a repair comes to: it leaves the disk or writes slices, and it is  *)
(* refused only for want of recovery slices.                               *)
LEMMA RepairReports ==
    ASSUME NEW rs, NEW ifscs, WholeSet(rs, ifscs), NEW disk, IsDirectory(disk),
           NEW verify, NEW report, report = repair_recovery_set(rs, verify, disk)
    PROVE  /\ IsDirectory(report.disk)
           /\ report.result = "Ok" \/ report.disk = disk
           /\ report.result = "NotEnoughRecoverySlices"
                 => Len(MissingGlobals(GlobalSlices(rs), verify)) > Len(rs.slices)
  <1> DEFINE globals == GlobalSlices(rs)
             missing == MissingGlobals(GlobalSlices(rs), verify)
             k == Len(missing)
             solved == Solved(rs, disk, globals, missing)
             written == WriteSlices(rs, disk, globals, missing, solved.rhs, k)
  <1>1. /\ DOMAIN rs.files = 1..Len(Protected)
        /\ \A i \in 1..Len(Protected) : rs.files[i].length \in Nat
        /\ SlicesAreListed(globals, rs, Len(Protected))
    BY WholeEntries
  <1>2. globals \in Seq(SliceIds)
    BY <1>1 DEF SlicesAreListed
  <1>3. IsMissing(missing, globals, verify)
    BY <1>2, MissingPlaces
  <1>4. k \in Nat /\ \A c \in 1..k : missing[c] \in 1..Len(globals)
    BY <1>3 DEF IsMissing
  <1>5. \/ report = Report("Ok", disk)
        \/ report = Report("NotEnoughRecoverySlices", disk) /\ k > Len(rs.slices)
        \/ report = Report("Io", disk)
        \/ report = Report("SingularMatrix", disk)
        \/ report = Report("Ok", written)
    BY DEF repair_recovery_set, Rebuild
  <1> HIDE DEF globals, missing, solved
  <1>6. ASSUME NEW c \in 1..k
        PROVE  rs.files[globals[missing[c]].file].length \in Nat /\ globals[missing[c]].local \in Nat
    <2>1. globals[missing[c]] \in SliceIds /\ globals[missing[c]].file \in 1..Len(Protected)
      BY <1>1, <1>2, <1>4 DEF SlicesAreListed
    <2> QED BY <1>1, <2>1 DEF SliceIds
  <1>7. IsDirectory(written)
    <2> HIDE DEF k
    <2> QED BY <1>4, <1>6, WrittenIsDirectory
  <1> HIDE DEF k, written
  <1>8. \/ report.result = "Ok" /\ (report.disk = disk \/ report.disk = written)
        \/ report.result = "NotEnoughRecoverySlices" /\ report.disk = disk /\ k > Len(rs.slices)
        \/ report.result \in {"Io", "SingularMatrix"} /\ report.disk = disk
    <2>1. \A r, d : Report(r, d).result = r /\ Report(r, d).disk = d
      BY DEF Report
    <2> QED BY <1>5, <2>1
  <1>9. IsDirectory(report.disk)
    BY <1>7, <1>8
  <1>10. report.result = "NotEnoughRecoverySlices" => k > Len(rs.slices)
    BY <1>8
  <1>11. report.result = "Ok" \/ report.disk = disk
    BY <1>8
  <1> QED BY <1>9, <1>10, <1>11 DEF k, missing

(* The answers that call the files whole, and what a repair says of them.  *)
RepairDone == {"AllFilesOk", "RepairComplete"}
LEMMA RepairIsSound ==
    ASSUME NEW rs, NEW ifscs, WholeSet(rs, ifscs), NEW disk, IsDirectory(disk),
           NEW repaired, repaired = native_repair(rs, disk)
    PROVE  /\ repaired.result \in RepairDone <=> IntactOn(repaired.disk)
           /\ repaired.result \in RepairDone \union {"RepairNeeded", "RepairFailed"}
           /\ repaired.result = "RepairNeeded" =>
                 /\ repaired.disk = disk
                 /\ Len(MissingGlobals(GlobalSlices(rs), verify_recovery_set(rs, disk))) > Len(rs.slices)
  <1> PICK verify : verify = verify_recovery_set(rs, disk)
    OBVIOUS
  <1> PICK report : report = repair_recovery_set(rs, verify, disk)
    OBVIOUS
  <1>1. /\ IsDirectory(report.disk) /\ (report.result = "Ok" \/ report.disk = disk)
        /\ report.result = "NotEnoughRecoverySlices" => Len(MissingGlobals(GlobalSlices(rs), verify)) > Len(rs.slices)
    BY RepairReports
  <1>2. all_ok(verify) <=> IntactOn(disk)
    BY AllOkMeansIntact
  <1>3. all_ok(verify_recovery_set(rs, report.disk)) <=> IntactOn(report.disk)
    <2> PICK after : after = report.disk
      OBVIOUS
    <2>1. IsDirectory(after)
      BY RepairReports
    <2> QED BY <2>1, AllOkMeansIntact
  <1>4. \A r, d : Report(r, d).result = r /\ Report(r, d).disk = d
    BY DEF Report
  <1>5. CASE all_ok(verify)
    <2>1. repaired = Report("AllFilesOk", disk)
      BY <1>5 DEF native_repair
    <2> QED BY <1>2, <1>4, <1>5, <2>1 DEF RepairDone
  <1>6. CASE ~all_ok(verify) /\ report.result = "Ok"
    <2>1. CASE all_ok(verify_recovery_set(rs, report.disk))
      <3>1. repaired = Report("RepairComplete", report.disk)
        BY <1>6, <2>1 DEF native_repair
      <3> QED BY <1>3, <1>4, <2>1, <3>1 DEF RepairDone
    <2>2. CASE ~all_ok(verify_recovery_set(rs, report.disk))
      <3>1. repaired = Report("RepairFailed", report.disk)
        BY <1>6, <2>2 DEF native_repair
      <3> QED BY <1>3, <1>4, <2>2, <3>1 DEF RepairDone
    <2> QED BY <2>1, <2>2
  <1>7. CASE ~all_ok(verify) /\ report.result = "NotEnoughRecoverySlices"
    <2>1. repaired = Report("RepairNeeded", disk)
      BY <1>7 DEF native_repair
    <2> QED BY <1>1, <1>2, <1>4, <1>7, <2>1 DEF RepairDone
  <1>8. CASE ~all_ok(verify) /\ report.result \notin {"Ok", "NotEnoughRecoverySlices"}
    <2>1. repaired = Report("RepairFailed", disk)
      BY <1>8 DEF native_repair
    <2> QED BY <1>2, <1>4, <1>8, <2>1 DEF RepairDone
  <1> QED BY <1>5, <1>6, <1>7, <1>8

(* The recovery set of a download with all its packets.                    *)
LEMMA PacketsAreWhole ==
    ASSUME Range(Protected) \subseteq rs_packets.descriptions \intersect rs_packets.ifscs
    PROVE  WholeSet(Parsed, rs_packets.ifscs) /\ Parsed.slices = rs_slices
  <1> DEFINE names == Selected(Protected, rs_packets.descriptions)
  <1>1. names = Protected
    BY PostAssumption, SelectedAll
  <1>2. /\ Parsed.files = [i \in DOMAIN names |-> Entry(names[i], rs_packets.ifscs)]
        /\ Parsed.slices = rs_slices
    BY DEF Parsed, RecoverySet
  <1> HIDE DEF names
  <1> QED BY <1>1, <1>2 DEF WholeSet

(* RepairInv: until the repair is done the directory holds files of words; *)
(* then its result is told by the files that it left.                      *)
BeforeRenaming == {"Queued", "ParRenaming", "ParVerifying", "ParRepairing"}
RepairInv ==
    /\ Len(rs_slices) \in Nat
    /\ stage \in BeforeRenaming => IsDirectory(dir)
    /\ SuccessMeansIntact /\ NeededMeansTooFew

LEMMA RepairInitially == PostInit => RepairInv
  <1> SUFFICES ASSUME PostInit PROVE RepairInv
    OBVIOUS
  <1>1. PICK download \in Downloads : dir = download.dir /\ rs_slices = download.slices
    BY DEF PostInit
  <1>2. IsDirectory(dir) /\ Len(rs_slices) \in Nat
    BY <1>1, PostAssumption DEF IsList
  <1>3. stage = "Queued"
    BY DEF PostInit
  <1> QED BY <1>2, <1>3 DEF RepairInv, SuccessMeansIntact, NeededMeansTooFew

LEMMA VerifyIsSound ==
    ASSUME RepairInv, par_verify
    PROVE  RepairInv'
  <1>1. /\ stage = "ParVerifying" /\ UNCHANGED <<dir, rs_packets, rs_slices>>
        /\ stage' = IF par_result' = "RepairNeeded" THEN "ParRepairing" ELSE "Renaming"
        /\ par_result' = IF ~HasPar2 THEN "AllFilesOk"
                         ELSE IF rs_packets.main THEN native_verify(Parsed, dir) ELSE "None"
    BY DEF par_verify, packets
  <1>2. IsDirectory(dir) /\ Len(rs_slices) \in Nat
    BY <1>1 DEF RepairInv, BeforeRenaming
  <1>3. ASSUME stage' = "Renaming", Complete'
        PROVE  par_result' \in RepairDone <=> IntactOn(dir')
    <2>1. Complete
      BY <1>1, <1>3 DEF Complete, HasPar2, WithExtension
    <2>2. par_result' = native_verify(Parsed, dir)
      BY <1>1, <2>1 DEF Complete
    <2>3. WholeSet(Parsed, rs_packets.ifscs)
      BY <2>1, PacketsAreWhole DEF Complete
    <2>4. all_ok(verify_recovery_set(Parsed, dir)) <=> IntactOn(dir)
      BY <1>2, <2>3, AllOkMeansIntact
    <2>5. par_result' = "AllFilesOk" <=> all_ok(verify_recovery_set(Parsed, dir))
      BY <2>2 DEF native_verify
    <2>6. par_result' \in {"AllFilesOk", "RepairNeeded"}
      BY <2>2 DEF native_verify
    <2>7. par_result' # "RepairNeeded"
      BY <1>1, <1>3
    <2> QED BY <1>1, <2>4, <2>5, <2>6, <2>7 DEF RepairDone
  <1>4. SuccessMeansIntact'
    <2> SUFFICES ASSUME stage' = "Renaming", Complete' PROVE (ParStatus' = "Success" <=> Intact')
      BY DEF SuccessMeansIntact
    <2>1. ParStatus' = "Success" <=> par_result' \in RepairDone
      BY DEF ParStatus, RepairDone
    <2>2. Intact' <=> IntactOn(dir')
      BY DEF Intact, IntactOn
    <2> QED BY <1>3, <2>1, <2>2
  <1>5. NeededMeansTooFew'
    BY <1>1 DEF NeededMeansTooFew
  <1> QED BY <1>1, <1>2, <1>4, <1>5 DEF RepairInv

LEMMA RepairKeepsInv ==
    ASSUME RepairInv, par_repair
    PROVE  RepairInv'
  <1>1. PICK repaired : repaired = native_repair(Parsed, dir)
    OBVIOUS
  <1>2. /\ stage = "ParRepairing" /\ stage' = "Renaming" /\ UNCHANGED <<rs_packets, rs_slices>>
        /\ par_result' = repaired.result /\ dir' = repaired.disk
    BY <1>1, Zenon DEF par_repair, packets
  <1>3. IsDirectory(dir) /\ Len(rs_slices) \in Nat
    BY <1>2 DEF RepairInv, BeforeRenaming
  <1>4. ASSUME Complete'
        PROVE  /\ par_result' \in RepairDone <=> IntactOn(dir')
               /\ par_result' = "RepairNeeded" =>
                     /\ dir' = dir
                     /\ Len(MissingGlobals(GlobalSlices(Parsed), verify_recovery_set(Parsed, dir))) > Len(rs_slices)
               /\ WholeSet(Parsed, rs_packets.ifscs)
    <2>1. Range(Protected) \subseteq rs_packets.descriptions \intersect rs_packets.ifscs
      BY <1>2, <1>4 DEF Complete
    <2>2. WholeSet(Parsed, rs_packets.ifscs) /\ Parsed.slices = rs_slices
      BY <2>1, PacketsAreWhole
    <2> QED BY <1>1, <1>2, <1>3, <2>2, RepairIsSound
  <1>5. SuccessMeansIntact'
    <2> SUFFICES ASSUME Complete' PROVE (ParStatus' = "Success" <=> Intact')
      BY DEF SuccessMeansIntact
    <2>1. ParStatus' = "Success" <=> par_result' \in RepairDone
      BY DEF ParStatus, RepairDone
    <2>2. Intact' <=> IntactOn(dir')
      BY DEF Intact, IntactOn
    <2> QED BY <1>4, <2>1, <2>2
  <1>6. NeededMeansTooFew'
    <2> SUFFICES ASSUME Complete', par_result' = "RepairNeeded"
                 PROVE  SlicesNeeded' > Len(rs_slices')
      BY DEF NeededMeansTooFew
    <2>1. /\ dir' = dir /\ WholeSet(Parsed, rs_packets.ifscs)
          /\ Len(MissingGlobals(GlobalSlices(Parsed), verify_recovery_set(Parsed, dir))) > Len(rs_slices)
      BY <1>4
    <2>2. PICK k : k = Len(MissingGlobals(GlobalSlices(Parsed), verify_recovery_set(Parsed, dir)))
      OBVIOUS
    <2>3. k \in Nat /\ k <= SlicesNeeded
      BY <2>1, <2>2, MissingAreLost
    <2>4. SlicesNeeded \in Nat
      BY LostIsFinite
    <2>5. SlicesNeeded' = SlicesNeeded
      BY <2>1 DEF SlicesNeeded, LostSlices
    <2>6. SlicesNeeded > Len(rs_slices)
      BY <1>3, <2>1, <2>2, <2>3, <2>4
    <2> QED BY <1>2, <2>5, <2>6
  <1> QED BY <1>2, <1>3, <1>5, <1>6 DEF RepairInv, BeforeRenaming

LEMMA RenamedIsDirectory ==
    ASSUME IsDirectory(dir), NEW from \in DOMAIN dir, NEW to
    PROVE  IsDirectory(Renamed(from, to))
  BY DEF IsDirectory, Renamed

LEMMA RepairInvKept ==
    ASSUME RepairInv, [PostNext]_postVars
    PROVE  RepairInv'
  <1>1. ASSUME rs_slices' = rs_slices, stage' # "Renaming",
               stage' \in BeforeRenaming => stage \in BeforeRenaming /\ IsDirectory(dir')
        PROVE  RepairInv'
    BY <1>1 DEF RepairInv, SuccessMeansIntact, NeededMeansTooFew
  <1>2. CASE Receive
    <2>1. stage = "Queued" /\ stage' = "ParRenaming" /\ dir' = dir /\ rs_slices' = rs_slices
      BY <1>2 DEF Receive, packets
    <2> QED BY <1>1, <2>1 DEF RepairInv, BeforeRenaming
  <1>3. CASE deobfuscate_files
    <2>1. stage = "ParRenaming" /\ stage' = stage /\ rs_slices' = rs_slices
      BY <1>3 DEF deobfuscate_files, packets
    <2>2. PICK from, to : from \in DOMAIN dir /\ dir' = Renamed(from, to)
      BY <1>3 DEF deobfuscate_files
    <2>3. IsDirectory(dir')
      BY <2>1, <2>2, RenamedIsDirectory DEF RepairInv, BeforeRenaming
    <2> QED BY <1>1, <2>1, <2>3 DEF BeforeRenaming
  <1>4. CASE ParRenamed
    <2>1. stage = "ParRenaming" /\ stage' = "ParVerifying" /\ dir' = dir /\ rs_slices' = rs_slices
      BY <1>4 DEF ParRenamed, packets
    <2> QED BY <1>1, <2>1 DEF RepairInv, BeforeRenaming
  <1>5. CASE par_verify \/ par_repair
    BY <1>5, VerifyIsSound, RepairKeepsInv
  <1>6. CASE /\ rs_slices' = rs_slices /\ stage' \notin BeforeRenaming /\ stage' # "Renaming"
    BY <1>1, <1>6
  <1>7. CASE UNCHANGED postVars
    <2>1. UNCHANGED <<stage, dir, rs_packets, rs_slices, par_result>>
      BY <1>7 DEF postVars
    <2>2. UNCHANGED <<Complete, ParStatus, Intact, SlicesNeeded>>
      BY <2>1 DEF Complete, HasPar2, WithExtension, ParStatus, Intact, SlicesNeeded, LostSlices
    <2> QED BY <2>1, <2>2 DEF RepairInv, SuccessMeansIntact, NeededMeansTooFew
  <1>8. ASSUME \/ deobfuscate_by_nzb_name \/ detect_archives \/ \E n \in archives : unpack(n)
               \/ cleanup_archives \/ BeginMove \/ \E n \in pending : move_path(n)
               \/ MoveFails \/ run_post_process \/ report_done
        PROVE  RepairInv'
    <2>1. rs_slices' = rs_slices
      BY <1>8 DEF deobfuscate_by_nzb_name, detect_archives, unpack, cleanup_archives, BeginMove,
                  move_path, MoveFails, run_post_process, report_done, packets
    <2>2. stage' \notin BeforeRenaming /\ stage' # "Renaming"
      BY <1>8 DEF deobfuscate_by_nzb_name, detect_archives, unpack, cleanup_archives, BeginMove,
                  move_path, MoveFails, run_post_process, report_done, AfterUnpacking, AfterMoving,
                  BeforeRenaming
    <2> QED BY <1>6, <2>1, <2>2
  <1> QED BY <1>2, <1>3, <1>4, <1>5, <1>7, <1>8 DEF PostNext

(* What the PAR2 files protect, and what is reported of it, at every step. *)
THEOREM RepairInvCorrect == PostSpec => []RepairInv
  <1> QED BY RepairInitially, RepairInvKept, PTL DEF PostSpec

(* With all its packets, a recovery set is reported good just when its     *)
(* files are what they were, found so or repaired; and it is reported to   *)
(* need more recovery slices only if more slices are lost than it has.     *)
(* Whatever the field, the sizes, the damage and the recovery slices are.  *)
THEOREM RepairsTellTheTruth == PostSpec => [](SuccessMeansIntact /\ NeededMeansTooFew)
  <1>1. RepairInv => SuccessMeansIntact /\ NeededMeansTooFew
    BY DEF RepairInv
  <1> QED BY <1>1, RepairInvCorrect, PTL

-----------------------------------------------------------------------------
(* StatusViews.                                                            *)
ViewSpec == ViewInit /\ [][ViewNext]_viewVars

ParResults == {"AllFilesOk", "RepairComplete", "RepairFailed", "RepairNeeded", "None"}
Runs == [par : ParResults, unpack : {"None", "Success", "Failure", "Password"},
         move : {"None", "Success", "Failure"}, told : {"None", "Success", "Failure"},
         ran : Seq(Nat)]
StageNames == Range(Stages)
Marks == {"None", "Good", "Bad", "Success"}
NzbEntries ==
    [id : Nat, paused : BOOLEAN, stage : StageNames \union {"None"}, progress : BOOLEAN,
     statuses : [par : {"None", "Success", "Failure"},
                 unpack : {"None", "Success", "Failure", "Password"},
                 move : {"None", "Success", "Failure"}],
     delete : {"None", "Health"}, mark : Marks,
     arts : [Arts -> {"undefined", "running", "finished", "failed"}],
     file_remaining : [ViewFiles -> Int], completed : SUBSET ViewFiles,
     remaining : Int, success : Int, failed_articles : Nat]
StageReports == [kind : {"stage"}, id : Nat, stage : StageNames]
DoneReports == [kind : {"done"}, id : Nat, run : Runs]
ProgressReports == [kind : {"progress"}, id : Nat]

ViewTypes ==
    /\ place \in {"queue", "history", "gone"} /\ nzb \in NzbEntries
    /\ in_flight \subseteq Nat \X Arts
    /\ inbox \in Seq(StageReports \union DoneReports \union ProgressReports)
    /\ job \in [id : Nat, at : StageNames \union {"none", "notified"}, run : Runs]
    /\ pollers \in [Polled -> [state : {"off", "asleep", "woken", "sent"}, id : Nat]]
    /\ truth \in [run : Runs, health : BOOLEAN, mark : Marks]

Shown == place \in {"queue", "history"}

(* The sizes are those of the articles that are not settled, or finished.  *)
Settled(z, a) == z.arts[a] \in {"finished", "failed"}
SizesOf(z) ==
    /\ z.remaining = SizeOf({a \in Arts : ~Settled(z, a)})
    /\ z.success = SizeOf({a \in Arts : z.arts[a] = "finished"})
    /\ \A f \in ViewFiles :
          z.file_remaining[f] = SizeOf({a \in Arts : ArtFile[a] = f /\ ~Settled(z, a)})

(* What is downloaded under the id of the NZB is running, and only before  *)
(* the NZB is processed.                                                   *)
Flights ==
    \A d \in in_flight :
        /\ d[1] <= nzb.id
        /\ Shown /\ d[1] = nzb.id => nzb.arts[d[2]] = "running"
        /\ place = "queue" /\ d[1] = nzb.id => nzb.stage = "None"

(* Job, reports and pollers bear ids that the NZB has had.                 *)
IdsAreOld ==
    /\ job.id <= nzb.id /\ \A i \in 1..Len(inbox) : inbox[i].id <= nzb.id
    /\ \A s \in Polled : pollers[s].id <= nzb.id

RunSoFar ==
    /\ job.at \in {"Moving", "Executing"} => job.run.unpack # "None"
    /\ job.at # "Executing" => job.run.ran = <<>>
    /\ job.at = "Executing" =>
          /\ job.run.move # "None" /\ job.run.told = ParStatusOf(job.run.par)
          /\ Len(job.run.ran) < Len(scan_script_dir)
          /\ \A i \in 1..Len(job.run.ran) : job.run.ran[i] = scan_script_dir[i]

RunIsDone(run) ==
    /\ run.unpack # "None" /\ run.move # "None" /\ run.ran = scan_script_dir
    /\ scan_script_dir # <<>> => run.told = ParStatusOf(run.par)

Own(i, kind) == inbox[i].kind = kind /\ inbox[i].id = nzb.id

(* A job that is under way is of the NZB as it is queued.                  *)
JobIsOwn ==
    Shown /\ job.at # "none" =>
        /\ place = "queue" /\ job.id = nzb.id /\ nzb.stage # "None"
        /\ RankOf(nzb.stage) <= 1 + RankOf(job.at)
        /\ \A i \in 1..Len(inbox) :
              ~Own(i, "done") /\ (Own(i, "stage") => RankOf(inbox[i].stage) <= RankOf(job.at))

(* Its reports come while it has a stage, the last of them that it is done.*)
ReportsAreOwn ==
    place = "queue" =>
        /\ nzb.stage = "None" => \A i \in 1..Len(inbox) : ~Own(i, "stage") /\ ~Own(i, "done")
        /\ nzb.stage # "None" => job.at # "none" \/ \E i \in 1..Len(inbox) : Own(i, "done")
        /\ \A i, j \in 1..Len(inbox) :
              Own(i, "done") =>
                  /\ inbox[i].run = truth.run /\ RunIsDone(truth.run)
                  /\ Own(j, "stage") \/ Own(j, "done") => j <= i

Statuses(run) == [par |-> ParStatusOf(run.par), unpack |-> run.unpack, move |-> run.move]

RecordIsTrue ==
    Shown => /\ nzb.mark = truth.mark /\ (nzb.delete = "Health" <=> truth.health)
             /\ nzb.progress => nzb.stage # "None"
             /\ place = "history" => nzb.stage = "None"
             /\ place = "history" /\ ~truth.health =>
                   nzb.statuses = Statuses(truth.run) /\ RunIsDone(truth.run)

(* Unless the health has failed, completed files have settled articles,    *)
(* and all are settled when the NZB is processed.                          *)
EnoughSettled(z, where) ==
    \/ z.failed_articles > Tolerated
    \/ /\ \A a \in Arts : ArtFile[a] \in z.completed => Settled(z, a)
       /\ where = "history" \/ z.stage # "None" => \A a \in Arts : Settled(z, a)

ViewInv ==
    /\ ViewTypes /\ Flights /\ IdsAreOld /\ RunSoFar /\ JobIsOwn /\ ReportsAreOwn /\ RecordIsTrue
    /\ Shown => SizesOf(nzb) /\ EnoughSettled(nzb, place)

LEMMA Sizes ==
    /\ \A T \in SUBSET Arts : SizeOf(T) \in Int
    /\ SizeOf({}) = 0
    /\ \A T \in SUBSET Arts, a \in Arts :
          /\ a \in T => SizeOf(T \ {a}) = SizeOf(T) - ArtSize[a]
          /\ a \notin T => SizeOf(T \union {a}) = SizeOf(T) + ArtSize[a]
    /\ \A T, U \in SUBSET Arts : T \intersect U = {} => SizeOf(T \union U) = SizeOf(T) + SizeOf(U)
  <1>1. IsFiniteSet(Arts) /\ \A a \in Arts : ArtSize[a] \in Int
    BY ViewAssumption
  <1>2. \A T : SizeOf(T) = SumOf(ArtSize, T)
    BY DEF SizeOf, SumOf
  <1>3. SizeOf({}) = 0 /\ \A T \in SUBSET Arts : SizeOf(T) \in Int
    BY <1>1, <1>2, SumIsInt
  <1>4. ASSUME NEW T \in SUBSET Arts, NEW a \in Arts, a \notin T
        PROVE  SizeOf(T \union {a}) = SizeOf(T) + ArtSize[a]
    BY <1>1, <1>2, <1>4, SumMore
  <1>5. ASSUME NEW T \in SUBSET Arts, NEW a \in Arts, a \in T
        PROVE  SizeOf(T \ {a}) = SizeOf(T) - ArtSize[a]
    <2>1. T \ {a} \in SUBSET Arts /\ a \notin T \ {a} /\ (T \ {a}) \union {a} = T
      BY <1>5
    <2>2. SizeOf((T \ {a}) \union {a}) = SizeOf(T \ {a}) + ArtSize[a]
      BY <1>4, <2>1
    <2>3. SizeOf(T) = SizeOf(T \ {a}) + ArtSize[a]
      BY <2>1, <2>2, Zenon
    <2>4. SizeOf(T \ {a}) \in Int /\ ArtSize[a] \in Int
      BY <1>1, <1>3, <2>1
    <2> QED BY <2>3, <2>4
  <1>6. ASSUME NEW T \in SUBSET Arts, NEW U \in SUBSET Arts, T \intersect U = {}
        PROVE  SizeOf(T \union U) = SizeOf(T) + SizeOf(U)
    BY <1>1, <1>2, <1>6, SumOfUnion
  <1> QED BY <1>3, <1>4, <1>5, <1>6

SettledAs(y, z, a, outcome) ==
    /\ z \in NzbEntries /\ SizesOf(z)
    /\ z.id = y.id /\ z.stage = y.stage /\ z.progress = y.progress
    /\ z.mark = y.mark /\ z.delete = y.delete /\ z.statuses = y.statuses
    /\ z.arts = [y.arts EXCEPT ![a] = outcome] /\ z.completed = y.completed
    /\ z.failed_articles \in Nat /\ y.failed_articles \in Nat
    /\ z.failed_articles >= y.failed_articles
    /\ \A b \in Arts : Settled(z, b) <=> b = a \/ Settled(y, b)

(* The sizes depend on the state of the articles only.                     *)
LEMMA SettlingSizes ==
    ASSUME NEW a \in Arts, NEW outcome \in {"finished", "failed"}, NEW z,
           z = SettledEntry(a, outcome), nzb \in NzbEntries, SizesOf(nzb),
           nzb.arts[a] = "running"
    PROVE  SettledAs(nzb, z, a, outcome)
  <1> DEFINE Open == {b \in Arts : ~Settled(nzb, b)}
             Had == {b \in Arts : nzb.arts[b] = "finished"}
             OpenOf(f) == {b \in Arts : ArtFile[b] = f /\ ~Settled(nzb, b)}
  <1>1. /\ nzb.arts \in [Arts -> {"undefined", "running", "finished", "failed"}]
        /\ nzb.file_remaining \in [ViewFiles -> Int] /\ nzb.remaining \in Int
        /\ nzb.success \in Int /\ nzb.failed_articles \in Nat /\ ArtFile[a] \in ViewFiles
        /\ ArtSize[a] \in Int
    BY ViewAssumption DEF NzbEntries, ViewFiles
  <1>2. /\ z.arts = [nzb.arts EXCEPT ![a] = outcome]
        /\ z.file_remaining = [nzb.file_remaining EXCEPT ![ArtFile[a]] = @ - ArtSize[a]]
        /\ z.remaining = nzb.remaining - ArtSize[a]
        /\ z.success = (IF outcome = "finished" THEN nzb.success + ArtSize[a] ELSE nzb.success)
        /\ z.failed_articles = (IF outcome = "failed" THEN nzb.failed_articles + 1
                                ELSE nzb.failed_articles)
        /\ z.id = nzb.id /\ z.stage = nzb.stage /\ z.progress = nzb.progress
        /\ z.mark = nzb.mark /\ z.delete = nzb.delete /\ z.statuses = nzb.statuses
        /\ z.completed = nzb.completed /\ z.paused = nzb.paused
    BY DEF SettledEntry, NzbEntries
  <1>3. z \in NzbEntries
    <2>1. /\ z.arts \in [Arts -> {"undefined", "running", "finished", "failed"}]
          /\ z.file_remaining \in [ViewFiles -> Int] /\ z.remaining \in Int
          /\ z.success \in Int /\ z.failed_articles \in Nat
      BY <1>1, <1>2
    <2>2. z = [nzb EXCEPT !.arts = z.arts, !.file_remaining = z.file_remaining,
                  !.remaining = z.remaining, !.success = z.success,
                  !.failed_articles = z.failed_articles]
      BY <1>1, <1>2 DEF SettledEntry, NzbEntries
    <2> QED BY <2>1, <2>2 DEF NzbEntries
  <1>4. /\ \A b \in Arts : Settled(z, b) <=> b = a \/ Settled(nzb, b)
        /\ ~Settled(nzb, a) /\ nzb.arts[a] # "finished"
        /\ \A b \in Arts : z.arts[b] = "finished" <=>
              nzb.arts[b] = "finished" \/ (b = a /\ outcome = "finished")
    BY <1>1, <1>2 DEF Settled
  <1>5. {b \in Arts : ~Settled(z, b)} = Open \ {a} /\ a \in Open /\ Open \in SUBSET Arts
    BY <1>4
  <1>6. SizeOf(Open \ {a}) = SizeOf(Open) - ArtSize[a]
    BY <1>5, Sizes
  <1>7. z.remaining = SizeOf({b \in Arts : ~Settled(z, b)})
    <2>1. nzb.remaining = SizeOf(Open)
      BY DEF SizesOf
    <2> HIDE DEF Open
    <2> QED BY <1>2, <1>5, <1>6, <2>1, Zenon
  <1>8. z.success = SizeOf({b \in Arts : z.arts[b] = "finished"})
    <2>1. nzb.success = SizeOf(Had)
      BY DEF SizesOf
    <2>2. CASE outcome = "finished"
      <3>1. {b \in Arts : z.arts[b] = "finished"} = Had \union {a} /\ a \notin Had /\ Had \in SUBSET Arts
        BY <1>4, <2>2
      <3>2. SizeOf(Had \union {a}) = SizeOf(Had) + ArtSize[a]
        BY <3>1, Sizes
      <3> HIDE DEF Had
      <3>3. z.success = nzb.success + ArtSize[a]
        BY <1>2, <2>2
      <3> QED BY <2>1, <3>1, <3>2, <3>3, Zenon
    <2>3. CASE outcome = "failed"
      <3>1. {b \in Arts : z.arts[b] = "finished"} = Had /\ z.success = nzb.success
        BY <1>2, <1>4, <2>3
      <3> HIDE DEF Had
      <3> QED BY <2>1, <3>1, Zenon
    <2> QED BY <2>2, <2>3
  <1>9. ASSUME NEW f \in ViewFiles
        PROVE  z.file_remaining[f] = SizeOf({b \in Arts : ArtFile[b] = f /\ ~Settled(z, b)})
    <2>1. nzb.file_remaining[f] = SizeOf(OpenOf(f))
      BY DEF SizesOf
    <2>2. CASE ArtFile[a] = f
      <3>1. /\ {b \in Arts : ArtFile[b] = f /\ ~Settled(z, b)} = OpenOf(f) \ {a}
            /\ a \in OpenOf(f) /\ OpenOf(f) \in SUBSET Arts
        BY <1>4, <2>2
      <3>2. SizeOf(OpenOf(f) \ {a}) = SizeOf(OpenOf(f)) - ArtSize[a]
        BY <3>1, Sizes
      <3>3. z.file_remaining[f] = nzb.file_remaining[f] - ArtSize[a]
        BY <1>1, <1>2, <2>2
      <3> HIDE DEF OpenOf
      <3> QED BY <2>1, <3>1, <3>2, <3>3, Zenon
    <2>3. CASE ArtFile[a] # f
      <3>1. {b \in Arts : ArtFile[b] = f /\ ~Settled(z, b)} = OpenOf(f)
        BY <1>4, <2>3
      <3>2. z.file_remaining[f] = nzb.file_remaining[f]
        BY <1>1, <1>2, <2>3
      <3> HIDE DEF OpenOf
      <3> QED BY <2>1, <3>1, <3>2, Zenon
    <2> QED BY <2>2, <2>3
  <1>10. z.failed_articles \in Nat /\ z.failed_articles >= nzb.failed_articles
    BY <1>1, <1>2
  <1>11. SizesOf(z)
    BY <1>7, <1>8, <1>9 DEF SizesOf
  <1> QED BY <1>1, <1>2, <1>3, <1>4, <1>10, <1>11 DEF SettledAs

LEMMA SizesOfSame ==
    ASSUME NEW y, SizesOf(y), NEW z, z.arts = y.arts, z.remaining = y.remaining,
           z.success = y.success, z.file_remaining = y.file_remaining
    PROVE  SizesOf(z)
  BY DEF SizesOf, Settled

LEMMA SizesOfAlike ==
    ASSUME NEW y, SizesOf(y), NEW z, z.remaining = y.remaining,
           z.success = y.success, z.file_remaining = y.file_remaining,
           \A a \in Arts : Settled(z, a) <=> Settled(y, a),
           \A a \in Arts : z.arts[a] = "finished" <=> y.arts[a] = "finished"
    PROVE  SizesOf(z)
  <1>1. /\ {a \in Arts : ~Settled(z, a)} = {a \in Arts : ~Settled(y, a)}
        /\ {a \in Arts : z.arts[a] = "finished"} = {a \in Arts : y.arts[a] = "finished"}
        /\ \A f : {a \in Arts : ArtFile[a] = f /\ ~Settled(z, a)}
                    = {a \in Arts : ArtFile[a] = f /\ ~Settled(y, a)}
    OBVIOUS
  <1> QED BY <1>1, Zenon DEF SizesOf

LEMMA NewEntrySizes ==
    ASSUME NEW id \in Nat, NEW done \in SUBSET Arts, NEW z, z = NewEntry(id, done)
    PROVE  z \in NzbEntries /\ SizesOf(z)
  <1>1. \A a \in Arts : z.arts[a] = IF a \in done THEN "finished" ELSE "undefined"
    BY DEF NewEntry
  <1>2. /\ {a \in Arts : ~Settled(z, a)} = Arts \ done
        /\ {a \in Arts : z.arts[a] = "finished"} = done
        /\ \A f : {a \in Arts : ArtFile[a] = f /\ ~Settled(z, a)} = OfFile(f) \ done
    BY <1>1 DEF Settled, OfFile
  <1>3. z.remaining = SizeOf(Arts \ done) /\ z.success = SizeOf(done)
        /\ \A f \in ViewFiles : z.file_remaining[f] = SizeOf(OfFile(f) \ done)
    BY DEF NewEntry
  <1>4. SizesOf(z)
    BY <1>2, <1>3, Zenon DEF SizesOf
  <1>5. \A f \in ViewFiles : OfFile(f) \ done \in SUBSET Arts
    BY DEF OfFile
  <1>6. SizeOf(Arts \ done) \in Int /\ SizeOf(done) \in Int
        /\ \A f \in ViewFiles : SizeOf(OfFile(f) \ done) \in Int
    BY <1>5, Sizes
  <1>7. z \in NzbEntries
    BY <1>6 DEF NewEntry, NzbEntries, NoStatuses, Marks
  <1> QED BY <1>4, <1>7

LEMMA StageRanks ==
    /\ StageNames = {"Queued", "ParRenaming", "ParVerifying", "ParRepairing", "Unpacking",
                     "Moving", "Executing"}
    /\ RankOf("none") = 0 /\ RankOf("notified") = 0
    /\ RankOf("Queued") = 1 /\ RankOf("ParRenaming") = 2 /\ RankOf("ParVerifying") = 3
    /\ RankOf("ParRepairing") = 4 /\ RankOf("Unpacking") = 5 /\ RankOf("Moving") = 6
    /\ RankOf("Executing") = 7
  <1>1. /\ DOMAIN Stages = 1..7 /\ Stages[1] = "Queued" /\ Stages[2] = "ParRenaming"
        /\ Stages[3] = "ParVerifying" /\ Stages[4] = "ParRepairing" /\ Stages[5] = "Unpacking"
        /\ Stages[6] = "Moving" /\ Stages[7] = "Executing"
    BY DEF Stages
  <1>2. \A i : i \in 1..7 <=> i \in {1, 2, 3, 4, 5, 6, 7}
    OBVIOUS
  <1>3. Range(Stages) = {"Queued", "ParRenaming", "ParVerifying", "ParRepairing", "Unpacking",
                         "Moving", "Executing"}
    BY <1>1, <1>2 DEF Range
  <1>4. ASSUME NEW k \in 1..7, \A i \in 1..7 : Stages[i] = Stages[k] => i = k
        PROVE  RankOf(Stages[k]) = k
    <2>1. Stages[k] \in Range(Stages)
      BY <1>1 DEF Range
    <2> DEFINE r == CHOOSE i \in DOMAIN Stages : Stages[i] = Stages[k]
    <2>2. r \in DOMAIN Stages /\ Stages[r] = Stages[k]
      BY <1>1
    <2>3. r = k
      BY <1>1, <1>4, <2>2
    <2> QED BY <2>1, <2>3 DEF RankOf
  <1>5. \A i, k \in 1..7 : Stages[i] = Stages[k] => i = k
    BY <1>1, <1>2
  <1>6. \A k \in 1..7 : RankOf(Stages[k]) = k
    BY <1>4, <1>5
  <1>7. RankOf("none") = 0 /\ RankOf("notified") = 0
    BY <1>3 DEF RankOf
  <1>8. 1 \in 1..7 /\ 2 \in 1..7 /\ 3 \in 1..7 /\ 4 \in 1..7 /\ 5 \in 1..7 /\ 6 \in 1..7 /\ 7 \in 1..7
    OBVIOUS
  <1>9. /\ RankOf("Queued") = 1 /\ RankOf("ParRenaming") = 2 /\ RankOf("ParVerifying") = 3
        /\ RankOf("ParRepairing") = 4 /\ RankOf("Unpacking") = 5 /\ RankOf("Moving") = 6
        /\ RankOf("Executing") = 7
    BY <1>1, <1>6, <1>8, Zenon
  <1> QED BY <1>3, <1>7, <1>9 DEF StageNames

LEMMA RankIsNatural == \A at \in StageNames \union {"none", "notified"} : RankOf(at) \in 0..7
  BY StageRanks

LEMMA Scripts == scan_script_dir \in Seq(Nat)
  <1>1. [i \in DOMAIN ScriptDir |-> i] \in Seq(Nat)
    BY ViewAssumption
  <1> QED BY <1>1, SelectedElements DEF scan_script_dir

LEMMA ViewInitially == ViewInit => ViewInv
  <1> SUFFICES ASSUME ViewInit PROVE ViewInv
    OBVIOUS
  <1>1. PICK done \in {{}, {CHOOSE a \in Arts : TRUE}} : nzb = NewEntry(1, done)
    BY DEF ViewInit
  <1>2. done \in SUBSET Arts
    BY <1>1, ViewAssumption
  <1>3. nzb \in NzbEntries /\ SizesOf(nzb)
    BY <1>1, <1>2, NewEntrySizes
  <1>4. /\ nzb.id = 1 /\ nzb.stage = "None" /\ nzb.mark = "None" /\ nzb.delete = "None"
        /\ nzb.progress = FALSE
    BY <1>1 DEF NewEntry
  <1>5. /\ place = "queue" /\ in_flight = {} /\ inbox = <<>> /\ Len(inbox) = 0 /\ job = NoJob
        /\ truth = NothingYet /\ pollers = [s \in Polled |-> NoPoller]
    BY DEF ViewInit
  <1>6. NoRun \in Runs
    BY DEF NoRun, Runs, ParResults
  <1>7. ViewTypes
    BY <1>3, <1>5, <1>6 DEF ViewTypes, NoJob, NoPoller, NothingYet, Marks
  <1>8. Flights /\ IdsAreOld /\ RunSoFar /\ JobIsOwn /\ ReportsAreOwn /\ RecordIsTrue
    BY <1>4, <1>5 DEF Flights, IdsAreOld, RunSoFar, JobIsOwn, ReportsAreOwn, RecordIsTrue, NoJob,
                      NoPoller, NoRun, NothingYet, Own
  <1>9. EnoughSettled(nzb, place)
    <2>1. ASSUME NEW a \in Arts, ArtFile[a] \in nzb.completed PROVE Settled(nzb, a)
      <3>1. OfFile(ArtFile[a]) \subseteq done
        BY <1>1, <2>1 DEF NewEntry
      <3>2. a \in done
        BY <3>1 DEF OfFile
      <3> QED BY <1>1, <3>2 DEF NewEntry, Settled
    <2> QED BY <1>4, <1>5, <2>1 DEF EnoughSettled
  <1> QED BY <1>3, <1>7, <1>8, <1>9 DEF ViewInv

(* What does not change the id and the stage of the NZB.                   *)
LEMMA SamePipeline ==
    ASSUME IdsAreOld, RunSoFar, JobIsOwn, ReportsAreOwn,
           UNCHANGED <<place, inbox, job, pollers, truth>>,
           nzb'.id = nzb.id, nzb'.stage = nzb.stage
    PROVE  IdsAreOld' /\ RunSoFar' /\ JobIsOwn' /\ ReportsAreOwn'
  <1>1. IdsAreOld'
    BY DEF IdsAreOld
  <1>2. JobIsOwn'
    BY DEF JobIsOwn, Own, Shown
  <1>3. ReportsAreOwn'
    BY DEF ReportsAreOwn, Own, RunIsDone
  <1>4. RunSoFar'
    BY DEF RunSoFar
  <1> QED BY <1>1, <1>2, <1>3, <1>4

LEMMA AssigningViews ==
    ASSUME ViewInv, NEW a \in Arts, AssignArticle(a)
    PROVE  ViewInv'
  <1>1. /\ place = "queue" /\ nzb.stage = "None" /\ nzb.arts[a] = "undefined"
        /\ nzb' = [nzb EXCEPT !.arts[a] = "running"]
        /\ in_flight' = in_flight \union {<<nzb.id, a>>}
        /\ UNCHANGED <<place, inbox, job, pollers, truth>>
    BY DEF AssignArticle, Pipeline
  <1>2. nzb \in NzbEntries /\ nzb.id \in Nat
    BY DEF ViewInv, ViewTypes, NzbEntries
  <1>3. /\ nzb' \in NzbEntries /\ nzb'.id = nzb.id /\ nzb'.stage = nzb.stage
        /\ nzb'.mark = nzb.mark /\ nzb'.delete = nzb.delete /\ nzb'.progress = nzb.progress
        /\ nzb'.statuses = nzb.statuses /\ nzb'.arts = [nzb.arts EXCEPT ![a] = "running"]
        /\ nzb'.remaining = nzb.remaining /\ nzb'.success = nzb.success
        /\ nzb'.file_remaining = nzb.file_remaining /\ nzb'.completed = nzb.completed
        /\ nzb'.failed_articles = nzb.failed_articles
        /\ nzb.arts \in [Arts -> {"undefined", "running", "finished", "failed"}]
    BY <1>1, <1>2 DEF NzbEntries
  <1>4. ViewTypes'
    BY <1>1, <1>2, <1>3 DEF ViewInv, ViewTypes
  <1>5. Flights'
    BY <1>1, <1>2, <1>3 DEF ViewInv, ViewTypes, Flights, Shown
  <1>6. IdsAreOld' /\ RunSoFar' /\ JobIsOwn' /\ ReportsAreOwn'
    BY <1>1, <1>3, SamePipeline DEF ViewInv
  <1>7. RecordIsTrue'
    BY <1>1, <1>3 DEF ViewInv, RecordIsTrue, Shown
  <1>8. SizesOf(nzb') /\ EnoughSettled(nzb', place')
    <2>1. /\ \A b \in Arts : Settled(nzb', b) <=> Settled(nzb, b)
          /\ \A b \in Arts : nzb'.arts[b] = "finished" <=> nzb.arts[b] = "finished"
      BY <1>1, <1>3 DEF Settled
    <2>2. SizesOf(nzb)
      BY <1>1 DEF ViewInv, Shown
    <2>3. SizesOf(nzb')
      BY <1>3, <2>1, <2>2, SizesOfAlike
    <2> QED BY <1>1, <1>3, <2>1, <2>3 DEF ViewInv, Shown, EnoughSettled
  <1> QED BY <1>4, <1>5, <1>6, <1>7, <1>8 DEF ViewInv

(* Articles of a file are in the files of the NZB.                         *)
LEMMA CompletedSettles ==
    ASSUME NEW z \in NzbEntries, NEW y, y = Completed(z)
    PROVE  /\ y \in NzbEntries
           /\ \/ z.failed_articles > Tolerated
              \/ (\A a \in Arts : ArtFile[a] \in z.completed => Settled(z, a)) =>
                    \A a \in Arts : ArtFile[a] \in y.completed => Settled(z, a)
           /\ y.completed = ViewFiles => \A a \in Arts : ArtFile[a] \in y.completed
           /\ y.id = z.id /\ y.stage = z.stage /\ y.progress = z.progress /\ y.mark = z.mark
           /\ y.delete = z.delete /\ y.statuses = z.statuses /\ y.arts = z.arts
           /\ y.remaining = z.remaining /\ y.success = z.success
           /\ y.file_remaining = z.file_remaining /\ y.failed_articles = z.failed_articles
  <1> DEFINE new == {f \in ViewFiles : \A a \in OfFile(f) : z.arts[a] \in {"finished", "failed"}}
  <1>1. y = [z EXCEPT !.completed = z.completed \union new]
    BY DEF Completed
  <1>2. new \subseteq ViewFiles /\ z.completed \subseteq ViewFiles
    BY DEF NzbEntries
  <1>3. \A a \in Arts : ArtFile[a] \in new => Settled(z, a)
    BY DEF OfFile, Settled
  <1>4. \A a \in Arts : ArtFile[a] \in ViewFiles
    BY DEF ViewFiles
  <1> HIDE DEF new
  <1>5. y.completed = z.completed \union new /\ y \in NzbEntries
    BY <1>1, <1>2 DEF NzbEntries
  <1>6. /\ y.id = z.id /\ y.stage = z.stage /\ y.progress = z.progress /\ y.mark = z.mark
        /\ y.delete = z.delete /\ y.statuses = z.statuses /\ y.arts = z.arts
        /\ y.remaining = z.remaining /\ y.success = z.success
        /\ y.file_remaining = z.file_remaining /\ y.failed_articles = z.failed_articles
    BY <1>1 DEF NzbEntries
  <1> QED BY <1>3, <1>4, <1>5, <1>6

LEMMA SettlingViews ==
    ASSUME ViewInv, NEW id, NEW a, NEW outcome \in {"finished", "failed"},
           ArticleSettled(id, a, outcome)
    PROVE  ViewInv'
  <1>1. /\ <<id, a>> \in in_flight /\ in_flight' = in_flight \ {<<id, a>>}
        /\ in_flight \subseteq Nat \X Arts
    BY DEF ArticleSettled, ViewInv, ViewTypes
  <1>2. CASE place # "queue" \/ id # nzb.id
    <2>1. UNCHANGED <<place, nzb, inbox, job, pollers, truth>>
      BY <1>2 DEF ArticleSettled, Pipeline
    <2>2. ViewTypes' /\ Flights' /\ RecordIsTrue'
      BY <1>1, <2>1 DEF ViewInv, ViewTypes, Flights, RecordIsTrue, Shown
    <2>3. IdsAreOld' /\ RunSoFar' /\ JobIsOwn' /\ ReportsAreOwn'
      BY <2>1, SamePipeline DEF ViewInv
    <2>4. Shown' => SizesOf(nzb') /\ EnoughSettled(nzb', place')
      BY <2>1 DEF ViewInv, Shown, SizesOf, EnoughSettled, Settled
    <2> QED BY <2>2, <2>3, <2>4 DEF ViewInv
  <1>3. CASE place = "queue" /\ id = nzb.id
    <2>1. /\ nzb.arts[a] = "running" /\ nzb.stage = "None" /\ a \in Arts
          /\ nzb \in NzbEntries /\ SizesOf(nzb) /\ EnoughSettled(nzb, "queue")
          /\ nzb.id \in Nat /\ Shown
      BY <1>1, <1>3 DEF ViewInv, ViewTypes, Flights, Shown, NzbEntries
    <2>0. PICK z : z = SettledEntry(a, outcome)
      OBVIOUS
    <2>00. PICK done : done = Completed(z)
      OBVIOUS
    <2>2. z = SettledEntry(a, outcome) /\ done = Completed(z)
      BY <2>0, <2>00
    <2>3. /\ z \in NzbEntries /\ SizesOf(z)
          /\ z.id = nzb.id /\ z.stage = nzb.stage /\ z.progress = nzb.progress
          /\ z.mark = nzb.mark /\ z.delete = nzb.delete /\ z.statuses = nzb.statuses
          /\ z.arts = [nzb.arts EXCEPT ![a] = outcome] /\ z.completed = nzb.completed
          /\ z.failed_articles \in Nat /\ nzb.failed_articles \in Nat
          /\ z.failed_articles >= nzb.failed_articles
          /\ \A b \in Arts : Settled(z, b) <=> b = a \/ Settled(nzb, b)
      <3>1. /\ a \in Arts /\ outcome \in {"finished", "failed"} /\ z = SettledEntry(a, outcome)
            /\ nzb \in NzbEntries /\ SizesOf(nzb) /\ nzb.arts[a] = "running"
        BY <2>1, <2>0
      <3>2. SettledAs(nzb, z, a, outcome)
        BY ONLY <3>1, SettlingSizes
      <3> QED BY <3>2 DEF SettledAs
    <2>4. /\ done \in NzbEntries
          /\ \/ z.failed_articles > Tolerated
             \/ (\A b \in Arts : ArtFile[b] \in z.completed => Settled(z, b)) =>
                   \A b \in Arts : ArtFile[b] \in done.completed => Settled(z, b)
          /\ done.completed = ViewFiles => \A b \in Arts : ArtFile[b] \in done.completed
          /\ done.id = z.id /\ done.stage = z.stage /\ done.progress = z.progress
          /\ done.mark = z.mark /\ done.delete = z.delete /\ done.statuses = z.statuses
          /\ done.arts = z.arts /\ done.remaining = z.remaining /\ done.success = z.success
          /\ done.file_remaining = z.file_remaining
          /\ done.failed_articles = z.failed_articles
      BY <2>2, <2>3, CompletedSettles
    <2>5. \A d \in in_flight' :
             d[1] <= nzb.id /\ (d[1] = nzb.id => d[2] # a /\ d[2] \in Arts /\ z.arts[d[2]] = "running")
      <3>1. \A d \in in_flight : d[1] <= nzb.id /\ (d[1] = nzb.id => nzb.arts[d[2]] = "running")
        BY <2>1 DEF ViewInv, Flights
      <3>2. nzb.arts \in [Arts -> {"undefined", "running", "finished", "failed"}]
        BY <2>1 DEF NzbEntries
      <3>3. ASSUME NEW d \in in_flight', d[1] = nzb.id
            PROVE  d[2] # a /\ d[2] \in Arts /\ z.arts[d[2]] = "running"
        <4>1. d = <<d[1], d[2]>> /\ d[2] \in Arts /\ d \in in_flight /\ d # <<id, a>>
          BY <1>1
        <4>2. d[2] # a
          BY <1>3, <3>3, <4>1
        <4> QED BY <2>3, <3>1, <3>2, <3>3, <4>1, <4>2
      <3> QED BY <1>1, <3>1, <3>3
    <2>6. job.at = "none" /\ \A i \in 1..Len(inbox) : ~Own(i, "stage") /\ ~Own(i, "done")
      BY <1>3, <2>1 DEF ViewInv, JobIsOwn, ReportsAreOwn
    <2>7. nzb.progress = FALSE
      BY <2>1 DEF ViewInv, RecordIsTrue, NzbEntries
    <2>8. CASE z.failed_articles > Tolerated
      <3>1. /\ place' = "history" /\ nzb' = [z EXCEPT !.delete = "Health"]
            /\ truth' = [truth EXCEPT !.health = TRUE] /\ UNCHANGED <<inbox, job, pollers>>
        BY <1>3, <2>2, <2>8 DEF ArticleSettled, Pipeline
      <3>2. /\ nzb' \in NzbEntries /\ nzb'.delete = "Health" /\ nzb'.id = nzb.id
            /\ nzb'.stage = "None" /\ nzb'.progress = FALSE /\ nzb'.mark = nzb.mark
            /\ nzb'.arts = z.arts /\ nzb'.remaining = z.remaining /\ nzb'.success = z.success
            /\ nzb'.file_remaining = z.file_remaining
            /\ nzb'.failed_articles = z.failed_articles
        BY <2>1, <2>3, <2>7, <3>1 DEF NzbEntries
      <3>3. truth'.health = TRUE /\ truth'.mark = truth.mark /\ truth' \in [run : Runs, health : BOOLEAN, mark : Marks]
        BY <3>1 DEF ViewInv, ViewTypes
      <3>4. ViewTypes'
        BY <1>1, <3>1, <3>2, <3>3 DEF ViewInv, ViewTypes
      <3>5. Flights'
        BY <2>5, <3>1, <3>2 DEF Flights
      <3>6. IdsAreOld' /\ RunSoFar' /\ JobIsOwn' /\ ReportsAreOwn'
        BY <2>6, <3>1, <3>2 DEF ViewInv, IdsAreOld, RunSoFar, JobIsOwn, ReportsAreOwn
      <3>7. RecordIsTrue'
        BY <2>1, <3>1, <3>2, <3>3 DEF ViewInv, RecordIsTrue
      <3>8. SizesOf(nzb')
        BY <2>3, <3>2, SizesOfSame
      <3>9. EnoughSettled(nzb', place')
        BY <2>8, <3>2 DEF EnoughSettled
      <3> QED BY <3>4, <3>5, <3>6, <3>7, <3>8, <3>9 DEF ViewInv
    <2>9. CASE ~(z.failed_articles > Tolerated) /\ done.completed = ViewFiles
      <3>1. /\ nzb' = QueuedForPost(done) /\ job' = Notified(nzb.id)
            /\ UNCHANGED <<place, inbox, pollers, truth>>
        BY <1>3, <2>2, <2>9 DEF ArticleSettled
      <3>2. /\ nzb' \in NzbEntries /\ nzb'.id = nzb.id /\ nzb'.delete = nzb.delete
            /\ nzb'.stage = "Queued" /\ nzb'.progress = FALSE /\ nzb'.mark = nzb.mark
            /\ nzb'.arts = z.arts /\ nzb'.remaining = z.remaining /\ nzb'.success = z.success
            /\ nzb'.file_remaining = z.file_remaining /\ nzb'.completed = done.completed
            /\ nzb'.failed_articles = z.failed_articles
        <4>1. nzb' = [done EXCEPT !.stage = "Queued", !.progress = FALSE]
          BY <3>1 DEF QueuedForPost
        <4>2. "Queued" \in StageNames
          BY StageRanks
        <4>3. nzb' \in NzbEntries
          BY <2>4, <4>1, <4>2 DEF NzbEntries
        <4>4. /\ nzb'.id = done.id /\ nzb'.delete = done.delete /\ nzb'.stage = "Queued"
              /\ nzb'.progress = FALSE /\ nzb'.mark = done.mark /\ nzb'.arts = done.arts
              /\ nzb'.remaining = done.remaining /\ nzb'.success = done.success
              /\ nzb'.file_remaining = done.file_remaining /\ nzb'.completed = done.completed
              /\ nzb'.failed_articles = done.failed_articles
          BY <2>4, <4>1 DEF NzbEntries
        <4> QED BY <2>3, <2>4, <4>3, <4>4
      <3>3. \A b \in Arts : Settled(z, b)
        <4>1. \A b \in Arts : ArtFile[b] \in z.completed => Settled(z, b)
          BY <2>1, <2>3, <2>9, ViewAssumption DEF EnoughSettled
        <4> QED BY <2>4, <2>9, <4>1
      <3>4. /\ job' \in [id : Nat, at : StageNames \union {"none", "notified"}, run : Runs]
            /\ job'.id = nzb.id /\ job'.at = "notified" /\ job'.run = NoRun
            /\ job'.run.ran = <<>>
        BY <2>1, <3>1 DEF Notified, NoRun, Runs, ParResults
      <3>5. ViewTypes'
        BY <1>1, <3>1, <3>2, <3>4 DEF ViewInv, ViewTypes
      <3>6. Flights'
        <4>1. \A d \in in_flight' : d[1] # nzb.id
          BY <2>5, <3>3 DEF Settled
        <4> QED BY <2>5, <3>1, <3>2, <4>1 DEF Flights
      <3>7. IdsAreOld' /\ RunSoFar' /\ JobIsOwn' /\ ReportsAreOwn'
        <4>1. \A i \in 1..Len(inbox) : ~Own(i, "stage")' /\ ~Own(i, "done")'
          BY <2>6, <3>1, <3>2 DEF Own
        <4>2. IdsAreOld'
          BY <2>1, <3>1, <3>2, <3>4 DEF ViewInv, IdsAreOld
        <4>3. JobIsOwn'
          <5>2. RankOf("Queued") <= 1 + RankOf("notified")
            BY StageRanks
          <5> QED BY <1>3, <3>1, <3>2, <3>4, <4>1, <5>2, Zenon DEF JobIsOwn
        <4>4. ReportsAreOwn'
          BY <3>1, <3>2, <3>4, <4>1 DEF ReportsAreOwn
        <4>5. RunSoFar'
          BY <3>4 DEF RunSoFar
        <4> QED BY <4>2, <4>3, <4>4, <4>5
      <3>8. RecordIsTrue'
        BY <1>3, <3>1, <3>2 DEF ViewInv, RecordIsTrue, Shown
      <3>9. SizesOf(nzb')
        BY <2>3, <3>2, SizesOfSame
      <3>10. EnoughSettled(nzb', place')
        <4>1. \A b \in Arts : Settled(nzb', b)
          BY <3>2, <3>3 DEF Settled
        <4> QED BY <4>1 DEF EnoughSettled
      <3> QED BY <3>5, <3>6, <3>7, <3>8, <3>9, <3>10 DEF ViewInv
    <2>10. CASE ~(z.failed_articles > Tolerated) /\ done.completed # ViewFiles
      <3>1. nzb' = done /\ UNCHANGED <<place, inbox, job, pollers, truth>>
        BY <1>3, <2>2, <2>10 DEF ArticleSettled, Pipeline
      <3>2. ViewTypes'
        BY <1>1, <2>4, <3>1 DEF ViewInv, ViewTypes
      <3>3. Flights'
        BY ZenonT(60), <2>1, <2>3, <2>4, <2>5, <3>1 DEF Flights
      <3>4. IdsAreOld' /\ RunSoFar' /\ JobIsOwn' /\ ReportsAreOwn'
        BY <2>3, <2>4, <3>1, SamePipeline DEF ViewInv
      <3>5. RecordIsTrue'
        BY <2>3, <2>4, <3>1 DEF ViewInv, RecordIsTrue, Shown
      <3>6. SizesOf(nzb')
        BY <2>3, <2>4, <3>1, SizesOfSame
      <3>7. EnoughSettled(nzb', place')
        <4>1. \A b \in Arts : ArtFile[b] \in z.completed => Settled(z, b)
          BY <2>1, <2>3, <2>10, ViewAssumption DEF EnoughSettled
        <4>2. \A b \in Arts : ArtFile[b] \in done.completed => Settled(done, b)
          BY <2>4, <2>10, <4>1 DEF Settled
        <4> QED BY <1>3, <2>1, <2>3, <2>4, <3>1, <4>2 DEF EnoughSettled
      <3> QED BY <3>2, <3>3, <3>4, <3>5, <3>6, <3>7 DEF ViewInv
    <2> QED BY <2>8, <2>9, <2>10
  <1> QED BY <1>2, <1>3

Reports == StageReports \union DoneReports \union ProgressReports

(* The job goes on: its report is the newest, and of its stage.            *)
LEMMA ProceedingViews ==
    ASSUME ViewInv, NEW from \in StageNames \union {"notified"}, NEW to \in StageNames,
           NEW run \in Runs, Proceed(from, to, run), RankOf(from) <= RankOf(to),
           to \in {"Moving", "Executing"} => run.unpack # "None",
           run.ran = <<>>,
           to = "Executing" => /\ run.move # "None" /\ run.told = ParStatusOf(run.par)
                               /\ scan_script_dir # <<>>
    PROVE  ViewInv'
  <1>1. /\ job.at = from /\ job' = [job EXCEPT !.at = to, !.run = run]
        /\ inbox' = Append(inbox, [kind |-> "stage", id |-> job.id, stage |-> to])
        /\ UNCHANGED <<place, nzb, in_flight, truth>>
    BY DEF Proceed, StageReport
  <1>2. /\ job \in [id : Nat, at : StageNames \union {"none", "notified"}, run : Runs]
        /\ inbox \in Seq(Reports) /\ nzb \in NzbEntries /\ nzb.id \in Nat
        /\ nzb.stage \in StageNames \union {"None"} /\ job.id <= nzb.id
    BY DEF ViewInv, ViewTypes, Reports, NzbEntries, IdsAreOld
  <1>3. from # "none" /\ to # "none"
    BY StageRanks
  <1>4. /\ job'.id = job.id /\ job'.at = to /\ job'.run = run /\ job.id \in Nat
        /\ job' \in [id : Nat, at : StageNames \union {"none", "notified"}, run : Runs]
    BY <1>1, <1>2
  <1> DEFINE r == [kind |-> "stage", id |-> job.id, stage |-> to]
  <1>5. r \in Reports /\ r.kind = "stage" /\ r.id = job.id /\ r.stage = to
    BY <1>4 DEF Reports, StageReports
  <1>6. /\ inbox' \in Seq(Reports) /\ Len(inbox') = Len(inbox) + 1 /\ Len(inbox) \in Nat
        /\ inbox'[Len(inbox) + 1] = r /\ \A i \in 1..Len(inbox) : inbox'[i] = inbox[i]
        /\ \A i \in 1..Len(inbox') : i \in 1..Len(inbox) \/ i = Len(inbox) + 1
    BY <1>1, <1>2, <1>5, Appended
  <1> HIDE DEF r
  <1>7. /\ pollers' \in [Polled -> [state : {"off", "asleep", "woken", "sent"}, id : Nat]]
        /\ \A s \in Polled : pollers'[s].id <= nzb.id
    <2>1. /\ pollers \in [Polled -> [state : {"off", "asleep", "woken", "sent"}, id : Nat]]
          /\ \A s \in Polled : pollers[s].id <= nzb.id
      BY DEF ViewInv, ViewTypes, IdsAreOld
    <2>2. PICK stopped : /\ stopped = IF from \in Polled THEN Stopped(from) ELSE pollers
                         /\ pollers' = IF to \in Polled
                                         THEN [stopped EXCEPT ![to] = [state |-> "asleep", id |-> job.id]]
                                         ELSE stopped
      BY DEF Proceed
    <2>3. NoPoller \in [state : {"off", "asleep", "woken", "sent"}, id : Nat] /\ NoPoller.id = 0
      BY DEF NoPoller
    <2>4. /\ stopped \in [Polled -> [state : {"off", "asleep", "woken", "sent"}, id : Nat]]
          /\ \A s \in Polled : stopped[s].id <= nzb.id
      BY <1>2, <2>1, <2>2, <2>3 DEF Stopped
    <2> QED BY <1>2, <1>4, <2>2, <2>4
  <1>8. ViewTypes'
    BY <1>1, <1>4, <1>6, <1>7 DEF ViewInv, ViewTypes, Reports
  <1>9. Flights' /\ RecordIsTrue'
    BY <1>1 DEF ViewInv, Flights, RecordIsTrue, Shown
  <1>10. IdsAreOld'
    <2>1. \A i \in 1..Len(inbox') : inbox'[i].id <= nzb.id
      BY <1>2, <1>5, <1>6 DEF ViewInv, IdsAreOld
    <2> QED BY <1>1, <1>2, <1>4, <1>7, <2>1 DEF IdsAreOld
  <1>11. RunSoFar'
    <2>1. Len(scan_script_dir) \in Nat /\ (scan_script_dir # <<>> => Len(scan_script_dir) > 0)
      BY Scripts
    <2>2. Len(run.ran) = 0
      OBVIOUS
    <2> QED BY <1>4, <2>1, <2>2 DEF RunSoFar
  <1>12. \A i \in 1..Len(inbox') :
            /\ (Own(i, "done")' => i \in 1..Len(inbox) /\ Own(i, "done"))
            /\ (Own(i, "stage")' => \/ i \in 1..Len(inbox) /\ Own(i, "stage") /\ inbox'[i] = inbox[i]
                                    \/ inbox'[i].stage = to)
    BY <1>1, <1>5, <1>6 DEF Own
  <1>13. JobIsOwn'
    <2>1. ASSUME Shown'
          PROVE  /\ place = "queue" /\ job.id = nzb.id /\ nzb.stage # "None"
                 /\ RankOf(nzb.stage) <= 1 + RankOf(to)
                 /\ \A i \in 1..Len(inbox') :
                       ~Own(i, "done")' /\ (Own(i, "stage")' => RankOf(inbox'[i].stage) <= RankOf(to))
      <3>1. /\ place = "queue" /\ job.id = nzb.id /\ nzb.stage # "None"
            /\ RankOf(nzb.stage) <= 1 + RankOf(from)
            /\ \A i \in 1..Len(inbox) :
                  ~Own(i, "done") /\ (Own(i, "stage") => RankOf(inbox[i].stage) <= RankOf(from))
        BY <1>1, <1>3, <2>1 DEF ViewInv, JobIsOwn, Shown
      <3>2. RankOf(from) \in Nat /\ RankOf(to) \in Nat /\ RankOf(nzb.stage) \in Nat
        BY <1>2, <3>1, RankIsNatural
      <3>3. ASSUME NEW i \in 1..Len(inbox), Own(i, "stage") PROVE RankOf(inbox[i].stage) <= RankOf(to)
        <4>1. inbox[i] \in Reports /\ inbox[i].kind = "stage"
          BY <1>2, <3>3 DEF Own
        <4>2. inbox[i].stage \in StageNames
          BY <4>1 DEF Reports, StageReports, DoneReports, ProgressReports
        <4>3. RankOf(inbox[i].stage) \in Nat
          BY <4>2, RankIsNatural
        <4> QED BY <3>1, <3>2, <3>3, <4>3
      <3>4. RankOf(nzb.stage) <= 1 + RankOf(to)
        BY <3>1, <3>2
      <3>5. ASSUME NEW i \in 1..Len(inbox')
            PROVE  ~Own(i, "done")' /\ (Own(i, "stage")' => RankOf(inbox'[i].stage) <= RankOf(to))
        BY <1>12, <3>1, <3>2, <3>3
      <3> QED BY <3>1, <3>4, <3>5
    <2> QED BY <1>1, <1>4, <2>1 DEF JobIsOwn
  <1>14. ReportsAreOwn'
    <2> SUFFICES ASSUME place = "queue" PROVE ReportsAreOwn'
      BY <1>1 DEF ReportsAreOwn
    <2>1. nzb.stage # "None" /\ \A i \in 1..Len(inbox) : ~Own(i, "done")
      BY <1>1, <1>3 DEF ViewInv, JobIsOwn, Shown
    <2>2. \A i \in 1..Len(inbox') : ~Own(i, "done")'
      BY <1>12, <2>1
    <2> QED BY <1>1, <1>3, <1>4, <2>1, <2>2 DEF ReportsAreOwn
  <1>15. Shown' => SizesOf(nzb') /\ EnoughSettled(nzb', place')
    BY <1>1 DEF ViewInv, Shown, SizesOf, EnoughSettled, Settled
  <1> QED BY <1>8, <1>9, <1>10, <1>11, <1>13, <1>14, <1>15 DEF ViewInv

(* The job is done: its last report says what the stages came to.          *)
LEMMA FinishingViews ==
    ASSUME ViewInv, NEW from \in StageNames, NEW run \in Runs, Finish(from, run), RunIsDone(run)
    PROVE  ViewInv'
  <1>1. /\ job.at = from /\ job' = NoJob /\ truth' = [truth EXCEPT !.run = run]
        /\ inbox' = Append(inbox, [kind |-> "done", id |-> job.id, run |-> run])
        /\ UNCHANGED <<place, nzb, in_flight, pollers>>
    BY DEF Finish, DoneReport
  <1>2. /\ job \in [id : Nat, at : StageNames \union {"none", "notified"}, run : Runs]
        /\ inbox \in Seq(Reports) /\ nzb \in NzbEntries /\ nzb.id \in Nat
        /\ job.id <= nzb.id /\ job.id \in Nat
        /\ truth \in [run : Runs, health : BOOLEAN, mark : Marks]
    BY DEF ViewInv, ViewTypes, Reports, NzbEntries, IdsAreOld
  <1>3. from # "none"
    BY StageRanks
  <1>4. NoRun \in Runs /\ NoRun.ran = <<>>
    BY DEF NoRun, Runs, ParResults
  <1>5. /\ job' \in [id : Nat, at : StageNames \union {"none", "notified"}, run : Runs]
        /\ job'.id = 0 /\ job'.at = "none" /\ job'.run = NoRun
        /\ truth' \in [run : Runs, health : BOOLEAN, mark : Marks]
        /\ truth'.run = run /\ truth'.health = truth.health /\ truth'.mark = truth.mark
    BY <1>1, <1>2, <1>4 DEF NoJob
  <1> DEFINE r == [kind |-> "done", id |-> job.id, run |-> run]
  <1>6. r \in Reports /\ r.kind = "done" /\ r.id = job.id /\ r.run = run
    BY <1>2 DEF Reports, DoneReports
  <1>7. /\ inbox' \in Seq(Reports) /\ Len(inbox') = Len(inbox) + 1 /\ Len(inbox) \in Nat
        /\ inbox'[Len(inbox) + 1] = r /\ \A i \in 1..Len(inbox) : inbox'[i] = inbox[i]
        /\ \A i \in 1..Len(inbox') : i \in 1..Len(inbox) \/ i = Len(inbox) + 1
    BY <1>1, <1>2, <1>6, Appended
  <1> HIDE DEF r
  <1>8. ViewTypes'
    BY <1>1, <1>5, <1>7 DEF ViewInv, ViewTypes, Reports
  <1>9. Flights'
    BY <1>1 DEF ViewInv, Flights, Shown
  <1>10. IdsAreOld'
    <2>1. \A i \in 1..Len(inbox') : inbox'[i].id <= nzb.id
      BY <1>2, <1>6, <1>7 DEF ViewInv, IdsAreOld
    <2> QED BY <1>1, <1>2, <1>5, <2>1 DEF ViewInv, IdsAreOld
  <1>11. RunSoFar'
    BY <1>4, <1>5 DEF RunSoFar
  <1>12. JobIsOwn'
    BY <1>5 DEF JobIsOwn
  <1>13. Shown => /\ place = "queue" /\ job.id = nzb.id /\ nzb.stage # "None"
                  /\ \A i \in 1..Len(inbox) : ~Own(i, "done")
    BY <1>1, <1>3 DEF ViewInv, JobIsOwn
  <1>14. ReportsAreOwn'
    <2> SUFFICES ASSUME place = "queue" PROVE ReportsAreOwn'
      BY <1>1 DEF ReportsAreOwn
    <2>1. /\ job.id = nzb.id /\ nzb.stage # "None"
          /\ \A i \in 1..Len(inbox) : ~(inbox[i].kind = "done" /\ inbox[i].id = nzb.id)
      BY <1>13 DEF Shown, Own
    <2>0. PICK n : n = Len(inbox) + 1
      OBVIOUS
    <2>2. Own(n, "done")' /\ n \in 1..Len(inbox')
      BY <2>0, <1>1, <1>6, <1>7, <2>1 DEF Own
    <2>3. ASSUME NEW i \in 1..Len(inbox'), NEW j \in 1..Len(inbox'), Own(i, "done")'
          PROVE  inbox'[i].run = truth'.run /\ j <= i
      <3>1. i = Len(inbox) + 1
        BY <1>1, <1>7, <2>1, <2>3 DEF Own
      <3>2. inbox'[i].run = run
        BY <1>6, <1>7, <3>1
      <3> QED BY <1>5, <1>7, <3>1, <3>2
    <2>4. RunIsDone(truth'.run)
      BY <1>5, Zenon
    <2>5. RunIsDone(truth.run)'
      BY <2>4 DEF RunIsDone, scan_script_dir
    <2>6. \E i \in 1..Len(inbox') : Own(i, "done")'
      BY <2>2
    <2>7. \A i, j \in 1..Len(inbox') :
             Own(i, "done")' =>
                 /\ inbox'[i].run = truth'.run /\ RunIsDone(truth.run)'
                 /\ Own(j, "stage")' \/ Own(j, "done")' => j <= i
      BY <2>3, <2>5
    <2> QED BY <1>1, <2>1, <2>6, <2>7 DEF ReportsAreOwn
  <1>15. RecordIsTrue'
    BY <1>1, <1>5, <1>13 DEF ViewInv, RecordIsTrue, Shown
  <1>16. Shown' => SizesOf(nzb') /\ EnoughSettled(nzb', place')
    BY <1>1 DEF ViewInv, Shown, SizesOf, EnoughSettled, Settled
  <1> QED BY <1>8, <1>9, <1>10, <1>11, <1>12, <1>14, <1>15, <1>16 DEF ViewInv

LEMMA ProcessingViews ==
    ASSUME ViewInv, process
    PROVE  ViewInv'
  <1>1. job \in [id : Nat, at : StageNames \union {"none", "notified"}, run : Runs] /\ RunSoFar
    BY DEF ViewInv, ViewTypes
  <1>2. job.run \in Runs /\ (job.at # "Executing" => job.run.ran = <<>>)
    BY <1>1 DEF RunSoFar
  <1>3. PICK s : s = job.run
    OBVIOUS
  <1>4. /\ s \in Runs /\ [s EXCEPT !.par = "RepairNeeded"] \in Runs
        /\ \A result \in ParResults : [s EXCEPT !.par = result] \in Runs
                                      /\ [s EXCEPT !.par = result].ran = s.ran
        /\ \A result \in {"Success", "Failure", "Password"} :
              LET u == [s EXCEPT !.unpack = result]
              IN u \in Runs /\ u.ran = s.ran /\ u.unpack = result
    BY <1>2, <1>3 DEF Runs, ParResults
  <1>5. CASE \/ Proceed("notified", "Queued", s) \/ Proceed("Queued", "ParRenaming", s)
             \/ Proceed("ParRenaming", "ParVerifying", s)
    <2>1. PICK from \in {"notified", "Queued", "ParRenaming"},
               to \in {"Queued", "ParRenaming", "ParVerifying"} :
             Proceed(from, to, s) /\ RankOf(from) <= RankOf(to)
      BY <1>5, StageRanks
    <2>2. job.at = from
      BY <2>1 DEF Proceed
    <2>3. s.ran = <<>> /\ to # "Moving" /\ to # "Executing"
      BY <1>2, <1>3, <2>1, <2>2
    <2>4. from \in StageNames \union {"notified"} /\ to \in StageNames
      BY <2>1, StageRanks
    <2> QED BY <1>4, <2>1, <2>3, <2>4, ProceedingViews
  <1>8. CASE \E result \in ParResults :
                \/ Proceed("ParVerifying", "ParRepairing", [s EXCEPT !.par = result])
                \/ Proceed("ParVerifying", "Unpacking", [s EXCEPT !.par = result])
                \/ Proceed("ParRepairing", "Unpacking", [s EXCEPT !.par = result])
    <2>1. PICK result \in ParResults :
                \/ Proceed("ParVerifying", "ParRepairing", [s EXCEPT !.par = result])
                \/ Proceed("ParVerifying", "Unpacking", [s EXCEPT !.par = result])
                \/ Proceed("ParRepairing", "Unpacking", [s EXCEPT !.par = result])
      BY <1>8
    <2>2. PICK u : u = [s EXCEPT !.par = result]
      OBVIOUS
    <2>3. u \in Runs /\ u.ran = s.ran
      BY <1>4, <2>2
    <2>4. PICK from \in {"ParVerifying", "ParRepairing"}, to \in {"ParRepairing", "Unpacking"} :
             Proceed(from, to, u) /\ (from = to => FALSE)
      BY <2>1, <2>2
    <2>5. job.at = from
      BY <2>4 DEF Proceed
    <2>6. u.ran = <<>>
      BY <1>2, <1>3, <2>3, <2>4, <2>5
    <2>7. from \in StageNames /\ to \in StageNames /\ RankOf(from) <= RankOf(to)
          /\ to # "Moving" /\ to # "Executing"
      BY <2>4, StageRanks
    <2> QED BY <2>3, <2>4, <2>6, <2>7, ProceedingViews
  <1>9. CASE \E result \in {"Success", "Failure", "Password"} :
                Proceed("Unpacking", "Moving", [s EXCEPT !.unpack = result])
    <2>1. PICK result \in {"Success", "Failure", "Password"} :
                Proceed("Unpacking", "Moving", [s EXCEPT !.unpack = result])
      BY <1>9
    <2>2. PICK u : u = [s EXCEPT !.unpack = result]
      OBVIOUS
    <2>3. u \in Runs /\ u.ran = s.ran /\ u.unpack # "None"
      BY <1>4, <2>2
    <2>4. Proceed("Unpacking", "Moving", u)
      BY <2>1, <2>2
    <2>5. u.ran = <<>>
      BY <1>2, <1>3, <2>3, <2>4 DEF Proceed
    <2> QED BY <2>3, <2>4, <2>5, ProceedingViews, StageRanks
  <1>10. CASE \E result \in {"Success", "Failure"} :
                LET run == [s EXCEPT !.move = result]
                IN IF scan_script_dir = <<>> THEN Finish("Moving", run)
                   ELSE Proceed("Moving", "Executing", [run EXCEPT !.told = ParStatusOf(run.par)])
    <2>0. PICK result \in {"Success", "Failure"} :
                LET run == [s EXCEPT !.move = result]
                IN IF scan_script_dir = <<>> THEN Finish("Moving", run)
                   ELSE Proceed("Moving", "Executing", [run EXCEPT !.told = ParStatusOf(run.par)])
      BY <1>10
    <2>1. PICK run :
                /\ run = [s EXCEPT !.move = result]
                /\ IF scan_script_dir = <<>> THEN Finish("Moving", run)
                   ELSE Proceed("Moving", "Executing", [run EXCEPT !.told = ParStatusOf(run.par)])
      BY <2>0
    <2>2. job.at = "Moving"
      BY <2>1 DEF Finish, Proceed
    <2>3. s.unpack # "None" /\ s.ran = <<>>
      BY <1>1, <1>3, <2>2 DEF RunSoFar
    <2>4. /\ run \in Runs /\ run.ran = <<>> /\ run.unpack # "None" /\ run.move # "None"
          /\ run.par \in ParResults
      BY <1>4, <2>1, <2>3 DEF Runs
    <2>5. CASE scan_script_dir = <<>>
      BY <2>1, <2>4, <2>5, FinishingViews, StageRanks DEF RunIsDone
    <2>6. CASE scan_script_dir # <<>>
      <3>1. PICK u : u = [run EXCEPT !.told = ParStatusOf(run.par)]
        OBVIOUS
      <3>2. ParStatusOf(run.par) \in {"None", "Success", "Failure"}
        BY <2>4 DEF ParStatusOf, ParResults
      <3>3. /\ u \in Runs /\ u.ran = <<>> /\ u.unpack # "None" /\ u.move # "None"
            /\ u.told = ParStatusOf(run.par) /\ u.par = run.par
        BY <2>4, <3>1, <3>2 DEF Runs
      <3>4. Proceed("Moving", "Executing", u)
        BY <2>1, <2>6, <3>1
      <3>5. u.told = ParStatusOf(u.par)
        BY <3>3, Zenon
      <3> QED BY <2>6, <3>3, <3>4, <3>5, ProceedingViews, StageRanks
    <2> QED BY <2>5, <2>6
  <1> QED BY <1>3, <1>5, <1>8, <1>9, <1>10 DEF process, ParResults

LEMMA ExtendingViews ==
    ASSUME ViewInv, run_extensions
    PROVE  ViewInv'
  <1>1. /\ job \in [id : Nat, at : StageNames \union {"none", "notified"}, run : Runs] /\ RunSoFar
        /\ job.at = "Executing" /\ job.run \in Runs
    BY DEF ViewInv, ViewTypes, run_extensions
  <1>2. PICK s, n, run : /\ s = job.run.ran /\ n = scan_script_dir[Len(s) + 1]
                         /\ run = [job.run EXCEPT !.ran = Append(s, n)]
    OBVIOUS
  <1>3. IF Len(run.ran) = Len(scan_script_dir) THEN Finish("Executing", run)
        ELSE /\ job' = [job EXCEPT !.run = run]
             /\ UNCHANGED <<place, nzb, in_flight, inbox, pollers, truth>>
    BY <1>2 DEF run_extensions
  <1>4. /\ s \in Seq(Nat) /\ Len(s) < Len(scan_script_dir) /\ job.run.unpack # "None"
        /\ job.run.move # "None" /\ job.run.told = ParStatusOf(job.run.par)
        /\ \A i \in 1..Len(s) : s[i] = scan_script_dir[i]
    BY <1>1, <1>2 DEF RunSoFar, Runs
  <1>5. scan_script_dir \in Seq(Nat) /\ n \in Nat
    <2>1. scan_script_dir \in Seq(Nat)
      BY Scripts
    <2>2. Len(s) + 1 \in 1..Len(scan_script_dir)
      BY <1>4, <2>1
    <2> QED BY <1>2, <2>1, <2>2
  <1>6. PICK t : t = Append(s, n)
    OBVIOUS
  <1>7. /\ t \in Seq(Nat) /\ Len(t) = Len(s) + 1 /\ Len(t) <= Len(scan_script_dir)
        /\ \A i \in 1..Len(t) : t[i] = scan_script_dir[i]
    <2>1. /\ t \in Seq(Nat) /\ Len(t) = Len(s) + 1 /\ Len(s) \in Nat /\ t[Len(s) + 1] = n
          /\ \A i \in 1..Len(s) : t[i] = s[i]
          /\ \A i \in 1..Len(t) : i \in 1..Len(s) \/ i = Len(s) + 1
      BY <1>4, <1>5, <1>6, Appended
    <2>2. Len(t) <= Len(scan_script_dir)
      BY <1>4, <1>5, <2>1
    <2> QED BY <1>2, <1>4, <2>1, <2>2
  <1>8. /\ run \in Runs /\ run.ran = t /\ run.unpack # "None" /\ run.move # "None"
        /\ run.told = job.run.told /\ run.par = job.run.par
    BY <1>1, <1>2, <1>4, <1>6, <1>7 DEF Runs
  <1>9. CASE Len(run.ran) = Len(scan_script_dir)
    <2>1. run.ran = scan_script_dir
      BY <1>5, <1>7, <1>8, <1>9
    <2>2. RunIsDone(run)
      BY <1>4, <1>8, <2>1, Zenon DEF RunIsDone
    <2>3. Finish("Executing", run) /\ "Executing" \in StageNames
      BY <1>3, <1>9, StageRanks
    <2> QED BY <1>8, <2>2, <2>3, FinishingViews
  <1>10. CASE Len(run.ran) # Len(scan_script_dir)
    <2>1. /\ job' = [job EXCEPT !.run = run]
          /\ UNCHANGED <<place, nzb, in_flight, inbox, pollers, truth>>
      BY <1>3, <1>10
    <2>2. /\ job'.id = job.id /\ job'.at = job.at /\ job'.run = run
          /\ job' \in [id : Nat, at : StageNames \union {"none", "notified"}, run : Runs]
      BY <1>1, <1>8, <2>1
    <2>3. ViewTypes' /\ Flights' /\ IdsAreOld' /\ RecordIsTrue'
      BY <2>1, <2>2 DEF ViewInv, ViewTypes, Flights, IdsAreOld, RecordIsTrue, Shown
    <2>4. RunSoFar'
      <3>1. Len(t) < Len(scan_script_dir)
        BY <1>5, <1>7, <1>8, <1>10
      <3>2. run.told = ParStatusOf(run.par)
        BY <1>4, <1>8, Zenon
      <3> QED BY <1>1, <1>7, <1>8, <2>2, <3>1, <3>2 DEF RunSoFar
    <2>5. JobIsOwn' /\ ReportsAreOwn'
      BY <2>1, <2>2 DEF ViewInv, JobIsOwn, ReportsAreOwn, Own, Shown
    <2>6. Shown' => SizesOf(nzb') /\ EnoughSettled(nzb', place')
      BY <2>1 DEF ViewInv, Shown, SizesOf, EnoughSettled, Settled
    <2> QED BY <2>3, <2>4, <2>5, <2>6 DEF ViewInv
  <1> QED BY <1>9, <1>10

LEMMA WakingViews ==
    ASSUME ViewInv, NEW s \in Polled, PollerWakes(s)
    PROVE  ViewInv'
  <1>1. /\ pollers' = [pollers EXCEPT ![s].state = "woken"]
        /\ UNCHANGED <<place, nzb, in_flight, inbox, job, truth>>
    BY DEF PollerWakes
  <1>2. /\ pollers' \in [Polled -> [state : {"off", "asleep", "woken", "sent"}, id : Nat]]
        /\ \A p \in Polled : pollers'[p].id = pollers[p].id
    BY <1>1 DEF ViewInv, ViewTypes
  <1>3. ViewTypes' /\ Flights' /\ RecordIsTrue' /\ RunSoFar'
    BY <1>1, <1>2 DEF ViewInv, ViewTypes, Flights, RecordIsTrue, RunSoFar, Shown
  <1>4. IdsAreOld'
    BY <1>1, <1>2 DEF ViewInv, IdsAreOld
  <1>5. JobIsOwn' /\ ReportsAreOwn'
    BY <1>1 DEF ViewInv, JobIsOwn, ReportsAreOwn, Own, Shown, RunIsDone
  <1>6. Shown' => SizesOf(nzb') /\ EnoughSettled(nzb', place')
    BY <1>1 DEF ViewInv, Shown, SizesOf, EnoughSettled, Settled
  <1> QED BY <1>3, <1>4, <1>5, <1>6 DEF ViewInv

(* A report of a poller, which may be of an id the NZB had before.         *)
LEMMA SendingViews ==
    ASSUME ViewInv, NEW s \in Polled, PollerSends(s)
    PROVE  ViewInv'
  <1>1. /\ pollers' = [pollers EXCEPT ![s] =
                          IF job.at = s /\ job.id = @.id THEN [@ EXCEPT !.state = "sent"]
                          ELSE NoPoller]
        /\ inbox' = Append(inbox, [kind |-> "progress", id |-> pollers[s].id])
        /\ UNCHANGED <<place, nzb, in_flight, job, truth>>
    BY DEF PollerSends
  <1>2. /\ inbox \in Seq(Reports) /\ nzb \in NzbEntries /\ nzb.id \in Nat
        /\ pollers \in [Polled -> [state : {"off", "asleep", "woken", "sent"}, id : Nat]]
        /\ pollers[s].id \in Nat /\ \A p \in Polled : pollers[p].id <= nzb.id
    BY DEF ViewInv, ViewTypes, Reports, NzbEntries, IdsAreOld
  <1>3. NoPoller \in [state : {"off", "asleep", "woken", "sent"}, id : Nat] /\ NoPoller.id = 0
    BY DEF NoPoller
  <1>4. /\ pollers' \in [Polled -> [state : {"off", "asleep", "woken", "sent"}, id : Nat]]
        /\ \A p \in Polled : pollers'[p].id <= nzb.id
    BY <1>1, <1>2, <1>3
  <1> DEFINE r == [kind |-> "progress", id |-> pollers[s].id]
  <1>5. r \in Reports /\ r.kind = "progress" /\ r.id = pollers[s].id
    BY <1>2 DEF Reports, ProgressReports
  <1>6. /\ inbox' \in Seq(Reports) /\ Len(inbox') = Len(inbox) + 1 /\ Len(inbox) \in Nat
        /\ inbox'[Len(inbox) + 1] = r /\ \A i \in 1..Len(inbox) : inbox'[i] = inbox[i]
        /\ \A i \in 1..Len(inbox') : i \in 1..Len(inbox) \/ i = Len(inbox) + 1
    BY <1>1, <1>2, <1>5, Appended
  <1> HIDE DEF r
  <1>7. ViewTypes' /\ Flights' /\ RecordIsTrue' /\ RunSoFar'
    BY <1>1, <1>4, <1>6 DEF ViewInv, ViewTypes, Flights, RecordIsTrue, RunSoFar, Reports, Shown
  <1>8. IdsAreOld'
    <2>1. \A i \in 1..Len(inbox') : inbox'[i].id <= nzb.id
      BY <1>2, <1>5, <1>6 DEF ViewInv, IdsAreOld
    <2> QED BY <1>1, <1>4, <2>1 DEF ViewInv, IdsAreOld
  <1>9. /\ \A i \in 1..Len(inbox) : /\ i \in 1..Len(inbox') /\ inbox'[i] = inbox[i]
                                    /\ (Own(i, "done")' <=> Own(i, "done"))
                                    /\ (Own(i, "stage")' <=> Own(i, "stage"))
        /\ \A i \in 1..Len(inbox') : Own(i, "done")' \/ Own(i, "stage")' => i \in 1..Len(inbox)
    BY <1>1, <1>5, <1>6 DEF Own
  <1>10. JobIsOwn'
    BY <1>1, <1>9 DEF ViewInv, JobIsOwn, Shown
  <1>11. ReportsAreOwn'
    <2> SUFFICES ASSUME place = "queue" PROVE ReportsAreOwn'
      BY <1>1 DEF ReportsAreOwn
    <2>1. ReportsAreOwn
      BY DEF ViewInv
    <2>2. nzb'.stage = "None" => \A i \in 1..Len(inbox') : ~Own(i, "stage")' /\ ~Own(i, "done")'
      BY <1>1, <1>9, <2>1 DEF ReportsAreOwn
    <2>3. nzb'.stage # "None" => job'.at # "none" \/ \E i \in 1..Len(inbox') : Own(i, "done")'
      BY <1>1, <1>9, <2>1 DEF ReportsAreOwn
    <2>4. ASSUME NEW i \in 1..Len(inbox'), NEW j \in 1..Len(inbox'), Own(i, "done")'
          PROVE  /\ inbox'[i].run = truth'.run /\ RunIsDone(truth.run)
                 /\ Own(j, "stage")' \/ Own(j, "done")' => j <= i
      BY <1>1, <1>9, <2>1, <2>4 DEF ReportsAreOwn
    <2> QED BY <1>1, <2>2, <2>3, <2>4 DEF ReportsAreOwn, RunIsDone
  <1>12. Shown' => SizesOf(nzb') /\ EnoughSettled(nzb', place')
    BY <1>1 DEF ViewInv, Shown, SizesOf, EnoughSettled, Settled
  <1> QED BY <1>7, <1>8, <1>10, <1>11, <1>12 DEF ViewInv

(* Taking a report leaves the claims on those behind it.                   *)
LEMMA ReportsBehind ==
    ASSUME ViewInv, inbox # <<>>, inbox' = Tail(inbox), nzb'.id = nzb.id
    PROVE  /\ inbox' \in Seq(Reports) /\ inbox[1] \in Reports /\ Head(inbox) = inbox[1]
           /\ 1 \in 1..Len(inbox) /\ Len(inbox) \in Nat /\ Len(inbox') \in Nat
           /\ \A i \in 1..Len(inbox') :
                 /\ i + 1 \in 1..Len(inbox) /\ inbox'[i] = inbox[i + 1]
                 /\ \A kind : Own(i, kind)' =>
                       \E k \in 1..Len(inbox) : k = i + 1 /\ Own(k, kind)
           /\ \A k \in 1..Len(inbox) : \A kind :
                 Own(k, kind) => k = 1 \/ \E i \in 1..Len(inbox') : i = k - 1 /\ Own(i, kind)'
  <1>1. inbox \in Seq(Reports)
    BY DEF ViewInv, ViewTypes, Reports
  <1>2. /\ inbox' \in Seq(Reports) /\ Len(inbox) \in Nat /\ Len(inbox') = Len(inbox) - 1
        /\ 1 \in 1..Len(inbox) /\ inbox[1] \in Reports /\ Head(inbox) = inbox[1]
        /\ \A i \in 1..Len(inbox') : i + 1 \in 1..Len(inbox) /\ inbox'[i] = inbox[i + 1]
        /\ \A i \in 1..Len(inbox) : i = 1 \/ (i - 1 \in 1..Len(inbox') /\ inbox'[i - 1] = inbox[i])
    BY <1>1, HeadTaken
  <1>3. ASSUME NEW i \in 1..Len(inbox'), NEW kind, Own(i, kind)'
        PROVE  \E k \in 1..Len(inbox) : k = i + 1 /\ Own(k, kind)
    <2>1. PICK k : k = i + 1
      OBVIOUS
    <2>2. k \in 1..Len(inbox) /\ inbox'[i] = inbox[k]
      BY <1>2, <2>1
    <2>3. Own(k, kind)
      BY <1>3, <2>2 DEF Own
    <2> QED BY <2>1, <2>2, <2>3
  <1>4. ASSUME NEW k \in 1..Len(inbox), NEW kind, Own(k, kind), k # 1
        PROVE  \E i \in 1..Len(inbox') : i = k - 1 /\ Own(i, kind)'
    <2>1. PICK i : i = k - 1
      OBVIOUS
    <2>2. i \in 1..Len(inbox') /\ inbox'[i] = inbox[k]
      BY <1>2, <1>4, <2>1
    <2>3. Own(i, kind)'
      BY <1>4, <2>2 DEF Own
    <2> QED BY <2>1, <2>2, <2>3
  <1>5. Len(inbox') \in Nat
    BY <1>2
  <1> QED BY <1>2, <1>3, <1>4, <1>5

LEMMA TakingViews ==
    ASSUME ViewInv, TakeReport
    PROVE  ViewInv'
  <1>1. /\ inbox # <<>> /\ inbox' = Tail(inbox) /\ UNCHANGED <<in_flight, job, pollers, truth>>
    BY DEF TakeReport
  <1>2. PICK report : report = Head(inbox)
    OBVIOUS
  <1>3. /\ inbox \in Seq(Reports) /\ nzb \in NzbEntries /\ nzb.id \in Nat
        /\ Len(inbox) \in Nat /\ report = inbox[1] /\ report \in Reports
        /\ inbox' \in Seq(Reports) /\ 1 \in 1..Len(inbox)
        /\ \A i \in 1..Len(inbox') : i + 1 \in 1..Len(inbox) /\ inbox'[i] = inbox[i + 1]
    <2>1. inbox \in Seq(Reports) /\ nzb \in NzbEntries /\ nzb.id \in Nat
      BY DEF ViewInv, ViewTypes, Reports, NzbEntries
    <2> QED BY <1>1, <1>2, <2>1, HeadTaken
  <1>4. nzb'.id = nzb.id /\ nzb' \in NzbEntries
    <2>1. CASE place # "queue" \/ report.id # nzb.id
      BY <1>2, <1>3, <2>1 DEF TakeReport
    <2>2. CASE place = "queue" /\ report.id = nzb.id /\ report.kind = "stage"
      <3>1. nzb' = [nzb EXCEPT !.stage = report.stage, !.progress = FALSE]
        BY <1>2, <2>2 DEF TakeReport, update_post_stage
      <3>2. report.stage \in StageNames
        BY <1>3, <2>2 DEF Reports, StageReports, DoneReports, ProgressReports
      <3> QED BY <1>3, <3>1, <3>2 DEF NzbEntries
    <2>3. CASE place = "queue" /\ report.id = nzb.id /\ report.kind = "progress"
      <3>1. nzb' = [nzb EXCEPT !.progress = (nzb.stage # "None")]
        BY <1>2, <2>3 DEF TakeReport, update_post_progress
      <3> QED BY <1>3, <3>1 DEF NzbEntries
    <2>4. CASE place = "queue" /\ report.id = nzb.id /\ report.kind = "done"
      <3>1. nzb' = [nzb EXCEPT !.stage = "None", !.progress = FALSE,
                       !.statuses = [par |-> ParStatusOf(report.run.par),
                                     unpack |-> report.run.unpack, move |-> report.run.move]]
        BY <1>2, <2>4 DEF TakeReport, FinishedEntry
      <3>2. report.run \in Runs
        BY <1>3, <2>4 DEF Reports, StageReports, DoneReports, ProgressReports
      <3>3. /\ ParStatusOf(report.run.par) \in {"None", "Success", "Failure"}
            /\ report.run.unpack \in {"None", "Success", "Failure", "Password"}
            /\ report.run.move \in {"None", "Success", "Failure"}
        BY <3>2 DEF Runs, ParResults, ParStatusOf
      <3> QED BY <1>3, <3>1, <3>3 DEF NzbEntries
    <2>5. report.kind \in {"stage", "progress", "done"}
      BY <1>3 DEF Reports, StageReports, DoneReports, ProgressReports
    <2> QED BY <2>1, <2>2, <2>3, <2>4, <2>5
  <1>5. place' \in {"queue", "history", "gone"}
    <2>1. report.kind \in {"stage", "progress", "done"}
      BY <1>3 DEF Reports, StageReports, DoneReports, ProgressReports
    <2>2. place' = place \/ place' = "history"
      BY <1>2, <2>1 DEF TakeReport
    <2> QED BY <2>2 DEF ViewInv, ViewTypes
  <1>6. ViewTypes'
    BY <1>1, <1>3, <1>4, <1>5 DEF ViewInv, ViewTypes, Reports
  <1>7. IdsAreOld' /\ RunSoFar'
    <2>1. \A i \in 1..Len(inbox') : inbox'[i].id <= nzb.id
      BY <1>3 DEF ViewInv, IdsAreOld
    <2> QED BY <1>1, <1>4, <2>1 DEF ViewInv, IdsAreOld, RunSoFar
  <1>8. /\ \A i \in 1..Len(inbox') :
              /\ i + 1 \in 1..Len(inbox) /\ inbox'[i] = inbox[i + 1]
              /\ \A kind : Own(i, kind)' => \E k \in 1..Len(inbox) : k = i + 1 /\ Own(k, kind)
        /\ \A k \in 1..Len(inbox) : \A kind :
              Own(k, kind) => k = 1 \/ \E i \in 1..Len(inbox') : i = k - 1 /\ Own(i, kind)'
    BY <1>1, <1>4, ReportsBehind
  <1>9. ASSUME nzb.stage # "None", nzb'.stage # "None", place' = "queue", place = "queue",
               ~Own(1, "done")
        PROVE  ReportsAreOwn'
    <2>1. job.at # "none" \/ \E i \in 1..Len(inbox) : Own(i, "done")
      BY <1>9 DEF ViewInv, ReportsAreOwn
    <2>2. job.at # "none" \/ \E i \in 1..Len(inbox') : Own(i, "done")'
      BY <1>8, <1>9, <2>1
    <2>3. ASSUME NEW i \in 1..Len(inbox'), NEW j \in 1..Len(inbox'), Own(i, "done")'
          PROVE  /\ inbox'[i].run = truth'.run /\ RunIsDone(truth.run)'
                 /\ Own(j, "stage")' \/ Own(j, "done")' => j <= i
      <3>1. PICK k, l : /\ k \in 1..Len(inbox) /\ k = i + 1 /\ inbox'[i] = inbox[k] /\ Own(k, "done")
                        /\ l \in 1..Len(inbox) /\ l = j + 1
                        /\ (Own(j, "stage")' => Own(l, "stage"))
                        /\ (Own(j, "done")' => Own(l, "done"))
        BY <1>8, <2>3
      <3>2. /\ inbox[k].run = truth.run /\ RunIsDone(truth.run)
            /\ Own(l, "stage") \/ Own(l, "done") => l <= k
        BY <1>9, <3>1 DEF ViewInv, ReportsAreOwn
      <3>3. l <= k => j <= i
        BY <3>1
      <3>4. RunIsDone(truth.run)'
        BY <1>1, <3>2 DEF RunIsDone, scan_script_dir
      <3> QED BY <1>1, <3>1, <3>2, <3>3, <3>4
    <2> QED BY <1>1, <1>9, <2>2, <2>3 DEF ReportsAreOwn
  <1>10. CASE place # "queue" \/ report.id # nzb.id
    <2>1. UNCHANGED <<place, nzb>>
      BY <1>2, <1>10 DEF TakeReport
    <2>2. Flights' /\ RecordIsTrue'
      BY <1>1, <2>1 DEF ViewInv, Flights, RecordIsTrue, Shown
    <2>3. place = "queue" => \A kind : ~Own(1, kind)
      BY <1>3, <1>10 DEF Own
    <2>4. JobIsOwn'
      <3>1. ASSUME NEW i \in 1..Len(inbox'), Shown, job.at # "none"
            PROVE  /\ ~Own(i, "done")'
                   /\ (Own(i, "stage")' => RankOf(inbox'[i].stage) <= RankOf(job.at))
        BY <1>8, <3>1 DEF ViewInv, JobIsOwn
      <3> QED BY <1>1, <2>1, <3>1 DEF ViewInv, JobIsOwn, Shown
    <2>5. ReportsAreOwn'
      <3>1. CASE place = "queue" /\ nzb.stage # "None"
        BY <1>9, <2>1, <2>3, <3>1
      <3>2. CASE place = "queue" /\ nzb.stage = "None"
        <4>1. \A i \in 1..Len(inbox) : ~Own(i, "stage") /\ ~Own(i, "done")
          BY <3>2 DEF ViewInv, ReportsAreOwn
        <4>2. \A i \in 1..Len(inbox') : ~Own(i, "stage")' /\ ~Own(i, "done")'
          BY <1>8, <4>1
        <4> QED BY <2>1, <3>2, <4>2 DEF ReportsAreOwn
      <3>3. CASE place # "queue"
        BY <2>1, <3>3 DEF ReportsAreOwn
      <3> QED BY <3>1, <3>2, <3>3
    <2>6. Shown' => SizesOf(nzb') /\ EnoughSettled(nzb', place')
      BY <2>1 DEF ViewInv, Shown, SizesOf, EnoughSettled, Settled
    <2> QED BY <1>6, <1>7, <2>2, <2>4, <2>5, <2>6 DEF ViewInv
  <1>11. CASE place = "queue" /\ report.id = nzb.id /\ report.kind = "stage"
    <2>1. /\ nzb' = [nzb EXCEPT !.stage = report.stage, !.progress = FALSE] /\ place' = place
      BY <1>2, <1>11 DEF TakeReport, update_post_stage
    <2>2. report.stage \in StageNames
      BY <1>3, <1>11 DEF Reports, StageReports, DoneReports, ProgressReports
    <2>3. /\ nzb'.stage = report.stage /\ nzb'.progress = FALSE /\ nzb'.mark = nzb.mark
          /\ nzb'.delete = nzb.delete /\ nzb'.statuses = nzb.statuses /\ nzb'.arts = nzb.arts
          /\ nzb'.remaining = nzb.remaining /\ nzb'.success = nzb.success
          /\ nzb'.file_remaining = nzb.file_remaining /\ nzb'.completed = nzb.completed
          /\ nzb'.failed_articles = nzb.failed_articles
      BY <1>3, <2>1 DEF NzbEntries
    <2>4. Own(1, "stage") /\ ~Own(1, "done") /\ nzb.stage # "None" /\ report.stage # "None"
      <3>1. Own(1, "stage") /\ ~Own(1, "done")
        BY <1>3, <1>11 DEF Own
      <3>2. nzb.stage # "None"
        BY <1>3, <1>11, <3>1 DEF ViewInv, ReportsAreOwn
      <3> QED BY <2>2, <3>1, <3>2, StageRanks
    <2>5. Flights'
      BY <1>1, <1>4, <1>11, <2>1, <2>3, <2>4 DEF ViewInv, Flights, Shown
    <2>6. RecordIsTrue'
      BY <1>1, <1>11, <2>1, <2>3 DEF ViewInv, RecordIsTrue, Shown
    <2>7. JobIsOwn'
      <3> SUFFICES ASSUME job.at # "none" PROVE JobIsOwn'
        BY <1>1 DEF JobIsOwn
      <3>1. /\ job.id = nzb.id /\ RankOf(report.stage) <= RankOf(job.at)
            /\ \A i \in 1..Len(inbox) :
                  ~Own(i, "done") /\ (Own(i, "stage") => RankOf(inbox[i].stage) <= RankOf(job.at))
        BY <1>3, <1>11, <2>4 DEF ViewInv, JobIsOwn, Shown
      <3>2. RankOf(report.stage) \in Nat /\ RankOf(job.at) \in Nat
        BY <2>2, RankIsNatural DEF ViewInv, ViewTypes
      <3>3. RankOf(report.stage) <= 1 + RankOf(job.at)
        BY <3>1, <3>2
      <3>4. ASSUME NEW i \in 1..Len(inbox')
            PROVE  /\ ~Own(i, "done")'
                   /\ (Own(i, "stage")' => RankOf(inbox'[i].stage) <= RankOf(job.at))
        BY <1>8, <3>1
      <3> QED BY <1>1, <1>4, <1>11, <2>1, <2>3, <2>4, <3>1, <3>3, <3>4 DEF JobIsOwn
    <2>8. ReportsAreOwn'
      BY <1>9, <1>11, <2>1, <2>3, <2>4
    <2>9. SizesOf(nzb)
      BY <1>11 DEF ViewInv, Shown
    <2>10. SizesOf(nzb')
      BY <2>3, <2>9, SizesOfSame
    <2>11. EnoughSettled(nzb', place')
      BY <1>11, <2>3, <2>4 DEF ViewInv, Shown, EnoughSettled, Settled
    <2> QED BY <1>6, <1>7, <2>5, <2>6, <2>7, <2>8, <2>10, <2>11 DEF ViewInv
  <1>12. CASE place = "queue" /\ report.id = nzb.id /\ report.kind = "progress"
    <2>1. nzb' = [nzb EXCEPT !.progress = (nzb.stage # "None")] /\ place' = place
      BY <1>2, <1>12 DEF TakeReport, update_post_progress
    <2>2. /\ nzb'.stage = nzb.stage /\ (nzb'.progress => nzb.stage # "None")
          /\ nzb'.mark = nzb.mark
          /\ nzb'.delete = nzb.delete /\ nzb'.statuses = nzb.statuses /\ nzb'.arts = nzb.arts
          /\ nzb'.remaining = nzb.remaining /\ nzb'.success = nzb.success
          /\ nzb'.file_remaining = nzb.file_remaining /\ nzb'.completed = nzb.completed
          /\ nzb'.failed_articles = nzb.failed_articles
      BY <1>3, <2>1 DEF NzbEntries
    <2>3. ~Own(1, "stage") /\ ~Own(1, "done")
      BY <1>3, <1>12 DEF Own
    <2>4. Flights'
      BY <1>1, <1>4, <1>12, <2>1, <2>2 DEF ViewInv, Flights, Shown
    <2>5. RecordIsTrue'
      BY <1>1, <1>12, <2>1, <2>2 DEF ViewInv, RecordIsTrue, Shown
    <2>6. JobIsOwn'
      <3>1. ASSUME NEW i \in 1..Len(inbox'), job.at # "none"
            PROVE  /\ ~Own(i, "done")'
                   /\ (Own(i, "stage")' => RankOf(inbox'[i].stage) <= RankOf(job.at))
        BY <1>8, <1>12, <3>1 DEF ViewInv, JobIsOwn, Shown
      <3> QED BY <1>1, <1>4, <1>12, <2>1, <2>2, <3>1 DEF ViewInv, JobIsOwn, Shown
    <2>7. ReportsAreOwn'
      <3>1. CASE nzb.stage # "None"
        BY <1>9, <1>12, <2>1, <2>2, <2>3, <3>1
      <3>2. CASE nzb.stage = "None"
        <4>1. \A i \in 1..Len(inbox) : ~Own(i, "stage") /\ ~Own(i, "done")
          BY <1>12, <3>2 DEF ViewInv, ReportsAreOwn
        <4>2. \A i \in 1..Len(inbox') : ~Own(i, "stage")' /\ ~Own(i, "done")'
          BY <1>8, <4>1
        <4> QED BY <2>2, <3>2, <4>2 DEF ReportsAreOwn
      <3> QED BY <3>1, <3>2
    <2>8. SizesOf(nzb) /\ EnoughSettled(nzb, place)
      BY <1>12 DEF ViewInv, Shown
    <2>9. SizesOf(nzb')
      BY <2>2, <2>8, SizesOfSame
    <2>10. EnoughSettled(nzb', place')
      BY <2>1, <2>2, <2>8 DEF EnoughSettled, Settled
    <2> QED BY <1>6, <1>7, <2>4, <2>5, <2>6, <2>7, <2>9, <2>10 DEF ViewInv
  <1>13. CASE place = "queue" /\ report.id = nzb.id /\ report.kind = "done"
    <2>1. /\ nzb' = [nzb EXCEPT !.stage = "None", !.progress = FALSE,
                        !.statuses = [par |-> ParStatusOf(report.run.par),
                                      unpack |-> report.run.unpack, move |-> report.run.move]]
          /\ place' = "history"
      BY <1>2, <1>13 DEF TakeReport, FinishedEntry
    <2>2. /\ nzb'.stage = "None" /\ nzb'.progress = FALSE /\ nzb'.mark = nzb.mark
          /\ nzb'.delete = nzb.delete /\ nzb'.statuses = Statuses(report.run)
          /\ nzb'.arts = nzb.arts
          /\ nzb'.remaining = nzb.remaining /\ nzb'.success = nzb.success
          /\ nzb'.file_remaining = nzb.file_remaining /\ nzb'.completed = nzb.completed
          /\ nzb'.failed_articles = nzb.failed_articles
      BY <1>3, <2>1 DEF NzbEntries, Statuses
    <2>3. Own(1, "done") /\ nzb.stage # "None" /\ report.run = truth.run /\ RunIsDone(truth.run)
      <3>1. Own(1, "done")
        BY <1>3, <1>13 DEF Own
      <3> QED BY <1>3, <1>13, <3>1 DEF ViewInv, ReportsAreOwn
    <2>4. job.at = "none"
      BY <1>3, <1>13, <2>3 DEF ViewInv, JobIsOwn, Shown
    <2>5. Flights'
      BY <1>1, <1>4, <1>13, <2>1, <2>2 DEF ViewInv, Flights, Shown
    <2>6. RecordIsTrue'
      <3>1. nzb'.statuses = Statuses(truth.run)
        BY <2>2, <2>3, Zenon
      <3>2. Statuses(truth.run)' = Statuses(truth.run) /\ RunIsDone(truth.run)'
        BY <1>1, <2>3 DEF Statuses, RunIsDone, scan_script_dir
      <3>3. nzb.mark = truth.mark /\ (nzb.delete = "Health" <=> truth.health)
        BY <1>13 DEF ViewInv, RecordIsTrue, Shown
      <3> QED BY <1>1, <2>1, <2>2, <3>1, <3>2, <3>3 DEF RecordIsTrue
    <2>7. JobIsOwn' /\ ReportsAreOwn'
      BY <1>1, <2>1, <2>4 DEF JobIsOwn, ReportsAreOwn
    <2>8. SizesOf(nzb) /\ EnoughSettled(nzb, place)
      BY <1>13 DEF ViewInv, Shown
    <2>9. SizesOf(nzb')
      BY <2>2, <2>8, SizesOfSame
    <2>10. EnoughSettled(nzb', place')
      BY <2>1, <2>2, <2>3, <2>8 DEF EnoughSettled, Settled
    <2> QED BY <1>6, <1>7, <2>5, <2>6, <2>7, <2>9, <2>10 DEF ViewInv
  <1>14. report.kind \in {"stage", "progress", "done"}
    BY <1>3 DEF Reports, StageReports, DoneReports, ProgressReports
  <1> QED BY <1>10, <1>11, <1>12, <1>13, <1>14

LEMMA PausingViews ==
    ASSUME ViewInv, PauseGroup
    PROVE  ViewInv'
  <1>1. /\ place = "queue" /\ nzb' = [nzb EXCEPT !.paused = TRUE]
        /\ UNCHANGED <<place, in_flight, inbox, job, pollers, truth>>
    BY DEF PauseGroup, Pipeline
  <1>2. nzb \in NzbEntries
    BY DEF ViewInv, ViewTypes
  <1>3. /\ nzb' \in NzbEntries /\ nzb'.id = nzb.id /\ nzb'.stage = nzb.stage
        /\ nzb'.progress = nzb.progress /\ nzb'.mark = nzb.mark
        /\ nzb'.delete = nzb.delete /\ nzb'.statuses = nzb.statuses /\ nzb'.arts = nzb.arts
        /\ nzb'.remaining = nzb.remaining /\ nzb'.success = nzb.success
        /\ nzb'.file_remaining = nzb.file_remaining /\ nzb'.completed = nzb.completed
        /\ nzb'.failed_articles = nzb.failed_articles
    BY <1>1, <1>2 DEF NzbEntries
  <1>4. ViewTypes' /\ Flights' /\ RecordIsTrue'
    BY <1>1, <1>3 DEF ViewInv, ViewTypes, Flights, RecordIsTrue, Shown
  <1>5. IdsAreOld' /\ RunSoFar' /\ JobIsOwn' /\ ReportsAreOwn'
    BY <1>1, <1>3, SamePipeline DEF ViewInv
  <1>6. SizesOf(nzb) /\ EnoughSettled(nzb, place)
    BY <1>1 DEF ViewInv, Shown
  <1>7. SizesOf(nzb')
    BY <1>3, <1>6, SizesOfSame
  <1>8. EnoughSettled(nzb', place')
    BY <1>1, <1>3, <1>6 DEF EnoughSettled, Settled
  <1> QED BY <1>4, <1>5, <1>7, <1>8 DEF ViewInv

LEMMA DeletingViews ==
    ASSUME ViewInv, DeleteGroup
    PROVE  ViewInv'
  <1>1. /\ place' = "gone" /\ nzb' = NewEntry(nzb.id, {})
        /\ UNCHANGED <<in_flight, inbox, job, pollers, truth>>
    BY DEF DeleteGroup, Pipeline
  <1>2. nzb.id \in Nat
    BY DEF ViewInv, ViewTypes, NzbEntries
  <1>3. PICK id, z : id = nzb.id /\ z = NewEntry(id, {})
    OBVIOUS
  <1>4. z \in NzbEntries
    BY <1>2, <1>3, NewEntrySizes
  <1>5. nzb' = z /\ z.id = nzb.id
    BY <1>1, <1>3 DEF NewEntry
  <1>6. ViewTypes' /\ Flights' /\ IdsAreOld' /\ RunSoFar'
    BY <1>1, <1>4, <1>5 DEF ViewInv, ViewTypes, Flights, IdsAreOld, RunSoFar, Shown
  <1>7. JobIsOwn' /\ ReportsAreOwn' /\ RecordIsTrue'
    BY <1>1 DEF JobIsOwn, ReportsAreOwn, RecordIsTrue, Shown
  <1>8. ~Shown'
    BY <1>1 DEF Shown
  <1> QED BY <1>6, <1>7, <1>8 DEF ViewInv

(* An NZB that leaves the history has an id of which nothing is on the way.*)
LEMMA ReturningViews ==
    ASSUME ViewInv, NEW z, FromHistory(z), z \in NzbEntries, z.id = nzb.id, SizesOf(z),
           EnoughSettled(z, "queue"), z.progress => z.stage # "None",
           truth' \in [run : Runs, health : BOOLEAN, mark : Marks],
           z.mark = truth'.mark, z.delete = "Health" <=> truth'.health,
           \/ z.stage = "None" /\ job' = job
           \/ z.stage = "Queued" /\ job' = Notified(nzb.id + 1)
    PROVE  ViewInv'
  <1>1. /\ place = "history" /\ place' = "queue"
        /\ nzb' = [z EXCEPT !.id = z.id + 1, !.paused = FALSE]
        /\ UNCHANGED <<in_flight, inbox, pollers>>
    BY DEF FromHistory
  <1>2. nzb.id \in Nat /\ job.at = "none"
    BY <1>1 DEF ViewInv, ViewTypes, NzbEntries, JobIsOwn, Shown
  <1>18. nzb' \in NzbEntries
    <2>1. z.id + 1 \in Nat
      BY <1>2
    <2> QED BY <1>1, <2>1 DEF NzbEntries
  <1>3. /\ nzb' \in NzbEntries /\ nzb'.id = nzb.id + 1 /\ nzb'.stage = z.stage
        /\ nzb'.progress = z.progress /\ nzb'.mark = z.mark
        /\ nzb'.delete = z.delete /\ nzb'.statuses = z.statuses /\ nzb'.arts = z.arts
        /\ nzb'.remaining = z.remaining /\ nzb'.success = z.success
        /\ nzb'.file_remaining = z.file_remaining /\ nzb'.completed = z.completed
        /\ nzb'.failed_articles = z.failed_articles
    BY <1>1, <1>18 DEF NzbEntries
  <1>4. /\ job' \in [id : Nat, at : StageNames \union {"none", "notified"}, run : Runs]
        /\ job'.id <= nzb.id + 1
        /\ z.stage # "None" => job'.at = "notified" /\ job'.id = nzb.id + 1 /\ z.stage = "Queued"
        /\ z.stage = "None" => job'.at = "none"
        /\ RunSoFar'
    <2>1. CASE z.stage = "None" /\ job' = job
      <3>1. job \in [id : Nat, at : StageNames \union {"none", "notified"}, run : Runs]
            /\ job.id <= nzb.id /\ RunSoFar
        BY DEF ViewInv, ViewTypes, IdsAreOld
      <3>2. job.id <= nzb.id + 1
        BY <1>2, <3>1
      <3>3. RunSoFar'
        BY <2>1, <3>1 DEF RunSoFar
      <3> QED BY <1>2, <2>1, <3>1, <3>2, <3>3
    <2>2. CASE z.stage = "Queued" /\ job' = Notified(nzb.id + 1)
      <3>1. NoRun \in Runs /\ NoRun.ran = <<>>
        BY DEF NoRun, Runs, ParResults
      <3>2. /\ job' \in [id : Nat, at : StageNames \union {"none", "notified"}, run : Runs]
            /\ job'.id = nzb.id + 1 /\ job'.at = "notified" /\ job'.run.ran = <<>>
        BY <1>2, <2>2, <3>1 DEF Notified
      <3>3. RunSoFar'
        BY <3>2 DEF RunSoFar
      <3> QED BY <1>2, <2>2, <3>2, <3>3
    <2> QED BY <2>1, <2>2
  <1>5. ViewTypes'
    BY <1>1, <1>3, <1>4 DEF ViewInv, ViewTypes
  <1>6. Flights'
    <2>1. in_flight \subseteq Nat \X Arts /\ \A d \in in_flight : d[1] <= nzb.id
      BY DEF ViewInv, ViewTypes, Flights
    <2>2. \A d \in in_flight : d[1] <= nzb.id + 1 /\ d[1] # nzb.id + 1
      BY <1>2, <2>1
    <2> QED BY <1>1, <1>3, <2>2 DEF Flights
  <1>7. /\ inbox \in Seq(Reports) /\ \A i \in 1..Len(inbox) : inbox[i].id <= nzb.id
        /\ pollers \in [Polled -> [state : {"off", "asleep", "woken", "sent"}, id : Nat]]
        /\ \A s \in Polled : pollers[s].id <= nzb.id
    BY DEF ViewInv, ViewTypes, IdsAreOld, Reports
  <1>8. \A i \in 1..Len(inbox) : inbox[i].id \in Nat
    BY <1>7 DEF Reports, StageReports, DoneReports, ProgressReports
  <1>9. \A i \in 1..Len(inbox) : inbox[i].id <= nzb.id + 1 /\ inbox[i].id # nzb.id + 1
    BY <1>2, <1>7, <1>8
  <1>10. \A s \in Polled : pollers[s].id <= nzb.id + 1
    BY <1>2, <1>7
  <1>11. IdsAreOld'
    BY <1>1, <1>3, <1>4, <1>9, <1>10 DEF IdsAreOld
  <1>12. \A i \in 1..Len(inbox') : \A kind : ~Own(i, kind)'
    BY <1>1, <1>3, <1>9 DEF Own
  <1>13. JobIsOwn'
    <2>1. RankOf("Queued") <= 1 + RankOf("notified")
      BY StageRanks
    <2>2. CASE z.stage # "None"
      BY <1>1, <1>3, <1>4, <1>12, <2>1, <2>2, Zenon DEF JobIsOwn
    <2>3. CASE z.stage = "None"
      BY <1>4, <2>3 DEF JobIsOwn
    <2> QED BY <2>2, <2>3
  <1>14. ReportsAreOwn'
    <2>1. z.stage # "None" => job'.at # "none"
      BY <1>4
    <2> QED BY <1>3, <1>12, <2>1 DEF ReportsAreOwn
  <1>15. RecordIsTrue'
    BY <1>1, <1>3 DEF RecordIsTrue
  <1>16. SizesOf(nzb')
    BY <1>3, SizesOfSame
  <1>17. EnoughSettled(nzb', place')
    BY <1>1, <1>3 DEF EnoughSettled, Settled
  <1> QED BY <1>4, <1>5, <1>6, <1>11, <1>13, <1>14, <1>15, <1>16, <1>17 DEF ViewInv

(* What the history holds.                                                 *)
LEMMA OfHistory ==
    ASSUME ViewInv, place = "history"
    PROVE  /\ nzb \in NzbEntries /\ SizesOf(nzb) /\ EnoughSettled(nzb, "history")
           /\ nzb.stage = "None" /\ nzb.progress = FALSE
           /\ nzb.mark = truth.mark /\ (nzb.delete = "Health" <=> truth.health)
           /\ truth \in [run : Runs, health : BOOLEAN, mark : Marks]
  <1>1. nzb \in NzbEntries /\ truth \in [run : Runs, health : BOOLEAN, mark : Marks]
    BY DEF ViewInv, ViewTypes
  <1>2. nzb.stage = "None" /\ (nzb.progress => nzb.stage # "None") /\ nzb.progress \in BOOLEAN
    BY <1>1 DEF ViewInv, RecordIsTrue, Shown, NzbEntries
  <1>3. nzb.mark = truth.mark /\ (nzb.delete = "Health" <=> truth.health)
    BY DEF ViewInv, RecordIsTrue, Shown
  <1>4. SizesOf(nzb) /\ EnoughSettled(nzb, "history")
    BY DEF ViewInv, Shown
  <1> QED BY <1>1, <1>2, <1>3, <1>4

LEMMA HistoryReturnViews ==
    ASSUME ViewInv, history_return
    PROVE  ViewInv'
  <1>1. FromHistory(nzb) /\ job' = job /\ truth' = truth /\ place = "history"
    BY DEF history_return, FromHistory
  <1>2. EnoughSettled(nzb, "queue")
    BY <1>1, OfHistory DEF EnoughSettled
  <1> QED BY <1>1, <1>2, OfHistory, ReturningViews

LEMMA HistoryProcessViews ==
    ASSUME ViewInv, history_process
    PROVE  ViewInv'
  <1>1. PICK z : z = QueuedForPost([Unjudged(nzb) EXCEPT !.completed = ViewFiles])
    OBVIOUS
  <1>2. /\ FromHistory(z) /\ job' = Notified(nzb.id + 1) /\ truth' = NothingYet
        /\ place = "history"
    BY <1>1 DEF history_process, FromHistory
  <1>3. /\ nzb \in NzbEntries /\ SizesOf(nzb) /\ EnoughSettled(nzb, "history")
    BY <1>2, OfHistory
  <1>4. /\ z \in NzbEntries /\ z.id = nzb.id /\ z.stage = "Queued" /\ z.progress = FALSE
        /\ z.mark = "None" /\ z.delete = "None" /\ z.arts = nzb.arts
        /\ z.remaining = nzb.remaining /\ z.success = nzb.success
        /\ z.file_remaining = nzb.file_remaining
        /\ z.failed_articles = nzb.failed_articles
    BY <1>1, <1>3, StageRanks DEF NzbEntries, QueuedForPost, Unjudged, NoStatuses, Marks
  <1>5. SizesOf(z)
    BY <1>3, <1>4, SizesOfSame
  <1>6. EnoughSettled(z, "queue")
    BY <1>3, <1>4 DEF EnoughSettled, Settled
  <1>7. /\ truth' \in [run : Runs, health : BOOLEAN, mark : Marks]
        /\ truth'.mark = "None" /\ truth'.health = FALSE
    BY <1>2 DEF NothingYet, NoRun, Runs, ParResults, Marks
  <1> QED BY <1>2, <1>4, <1>5, <1>6, <1>7, ReturningViews

LEMMA HistoryRedownloadViews ==
    ASSUME ViewInv, history_redownload
    PROVE  ViewInv'
  <1>1. PICK z : z = RedownloadedEntry(nzb)
    OBVIOUS
  <1>2. FromHistory(z) /\ job' = job /\ truth' = NothingYet /\ place = "history"
    BY <1>1 DEF history_redownload, FromHistory
  <1>3. nzb \in NzbEntries /\ nzb.stage = "None" /\ nzb.progress = FALSE
    BY <1>2, OfHistory
  <1>4. /\ \A f \in ViewFiles : OfFile(f) \in SUBSET Arts
        /\ \A f \in ViewFiles : SizeOf(OfFile(f)) \in Int
        /\ SizeOf(Arts) \in Int /\ SizeOf({}) = 0
    BY Sizes DEF OfFile
  <1>5. /\ z.arts = [a \in Arts |-> "undefined"] /\ z.completed = {} /\ z.remaining = SizeOf(Arts)
        /\ z.success = 0 /\ z.file_remaining = [f \in ViewFiles |-> SizeOf(OfFile(f))]
        /\ z.id = nzb.id /\ z.stage = nzb.stage /\ z.progress = nzb.progress
        /\ z.mark = "None" /\ z.delete = "None" /\ z.failed_articles = 0
    BY <1>1, <1>3 DEF RedownloadedEntry, Unjudged, NzbEntries
  <1>6. z \in NzbEntries
    <2>1. PICK y : y = Unjudged(nzb)
      OBVIOUS
    <2>2. y \in NzbEntries
      BY <1>3, <2>1 DEF NzbEntries, Unjudged, NoStatuses, Marks
    <2>3. z = [y EXCEPT !.arts = [a \in Arts |-> "undefined"], !.completed = {},
                  !.file_remaining = [f \in ViewFiles |-> SizeOf(OfFile(f))],
                  !.remaining = SizeOf(Arts), !.success = 0, !.failed_articles = 0]
      BY <1>1, <2>1 DEF RedownloadedEntry
    <2>4. /\ [a \in Arts |-> "undefined"] \in [Arts -> {"undefined", "running", "finished", "failed"}]
          /\ [f \in ViewFiles |-> SizeOf(OfFile(f))] \in [ViewFiles -> Int]
          /\ SizeOf(Arts) \in Int /\ 0 \in Int /\ 0 \in Nat /\ {} \in SUBSET ViewFiles
      BY <1>4
    <2> QED BY <2>2, <2>3, <2>4 DEF NzbEntries
  <1>7. SizesOf(z)
    <2>1. /\ {a \in Arts : ~Settled(z, a)} = Arts /\ {a \in Arts : z.arts[a] = "finished"} = {}
          /\ \A f : {a \in Arts : ArtFile[a] = f /\ ~Settled(z, a)} = OfFile(f)
      BY <1>5 DEF Settled, OfFile
    <2>2. \A f \in ViewFiles : z.file_remaining[f] = SizeOf(OfFile(f))
      BY <1>5
    <2> QED BY <1>4, <1>5, <2>1, <2>2, Zenon DEF SizesOf
  <1>8. EnoughSettled(z, "queue")
    BY <1>3, <1>5 DEF EnoughSettled
  <1>9. /\ truth' \in [run : Runs, health : BOOLEAN, mark : Marks]
        /\ truth'.mark = "None" /\ truth'.health = FALSE
    BY <1>2 DEF NothingYet, NoRun, Runs, ParResults, Marks
  <1> QED BY <1>2, <1>3, <1>5, <1>6, <1>7, <1>8, <1>9, ReturningViews

LEMMA MarkingViews ==
    ASSUME ViewInv, NEW given \in {"Good", "Bad", "Success"}, history_mark(given)
    PROVE  ViewInv'
  <1>1. /\ place = "history" /\ nzb' = [nzb EXCEPT !.mark = given]
        /\ truth' = [truth EXCEPT !.mark = given]
        /\ UNCHANGED <<place, in_flight, inbox, job, pollers>>
    BY DEF history_mark, Pipeline
  <1>2. nzb \in NzbEntries /\ truth \in [run : Runs, health : BOOLEAN, mark : Marks]
    BY DEF ViewInv, ViewTypes
  <1>3. /\ nzb' \in NzbEntries /\ nzb'.id = nzb.id /\ nzb'.stage = nzb.stage
        /\ nzb'.progress = nzb.progress /\ nzb'.mark = given
        /\ nzb'.delete = nzb.delete /\ nzb'.statuses = nzb.statuses /\ nzb'.arts = nzb.arts
        /\ nzb'.remaining = nzb.remaining /\ nzb'.success = nzb.success
        /\ nzb'.file_remaining = nzb.file_remaining /\ nzb'.completed = nzb.completed
        /\ nzb'.failed_articles = nzb.failed_articles
    BY <1>1, <1>2 DEF NzbEntries, Marks
  <1>4. /\ truth' \in [run : Runs, health : BOOLEAN, mark : Marks]
        /\ truth'.mark = given /\ truth'.run = truth.run /\ truth'.health = truth.health
    BY <1>1, <1>2 DEF Marks
  <1>5. ViewTypes' /\ Flights'
    BY <1>1, <1>3, <1>4 DEF ViewInv, ViewTypes, Flights, Shown
  <1>6. RecordIsTrue'
    <2>1. /\ nzb.stage = "None" /\ (nzb.progress => nzb.stage # "None")
          /\ (nzb.delete = "Health" <=> truth.health)
          /\ ~truth.health => nzb.statuses = Statuses(truth.run) /\ RunIsDone(truth.run)
      BY <1>1 DEF ViewInv, RecordIsTrue, Shown
    <2>2. Statuses(truth.run)' = Statuses(truth.run) /\ (RunIsDone(truth.run)' <=> RunIsDone(truth.run))
      BY <1>4 DEF Statuses, RunIsDone, scan_script_dir
    <2> QED BY <1>1, <1>3, <1>4, <2>1, <2>2 DEF RecordIsTrue
  <1>7. IdsAreOld' /\ RunSoFar' /\ JobIsOwn' /\ ReportsAreOwn'
    <2>1. JobIsOwn' /\ ReportsAreOwn'
      BY <1>1 DEF ViewInv, JobIsOwn, ReportsAreOwn, Shown
    <2> QED BY <1>1, <1>3, <2>1 DEF ViewInv, IdsAreOld, RunSoFar
  <1>8. SizesOf(nzb) /\ EnoughSettled(nzb, "history")
    BY <1>1, OfHistory
  <1>9. SizesOf(nzb')
    BY <1>3, <1>8, SizesOfSame
  <1>10. EnoughSettled(nzb', place')
    BY <1>1, <1>3, <1>8 DEF EnoughSettled, Settled
  <1> QED BY <1>5, <1>6, <1>7, <1>9, <1>10 DEF ViewInv

LEMMA ViewStep == ViewInv /\ [ViewNext]_viewVars => ViewInv'
  <1> SUFFICES ASSUME ViewInv, [ViewNext]_viewVars PROVE ViewInv'
    OBVIOUS
  <1>1. CASE ViewNext
    <2>1. ASSUME NEW a \in Arts, AssignArticle(a) PROVE ViewInv'
      BY <2>1, AssigningViews
    <2>2. ASSUME NEW d \in in_flight, NEW outcome \in {"finished", "failed"},
                 ArticleSettled(d[1], d[2], outcome)
          PROVE  ViewInv'
      BY <2>2, SettlingViews
    <2>3. ASSUME NEW s \in Polled, PollerWakes(s) \/ PollerSends(s) PROVE ViewInv'
      BY <2>3, WakingViews, SendingViews
    <2>4. ASSUME NEW given \in {"Good", "Bad", "Success"}, history_mark(given) PROVE ViewInv'
      BY <2>4, MarkingViews
    <2>5. process \/ run_extensions \/ TakeReport \/ PauseGroup \/ DeleteGroup => ViewInv'
      BY ProcessingViews, ExtendingViews, TakingViews, PausingViews, DeletingViews
    <2>6. history_return \/ history_process \/ history_redownload => ViewInv'
      BY HistoryReturnViews, HistoryProcessViews, HistoryRedownloadViews
    <2> QED BY <1>1, <2>1, <2>2, <2>3, <2>4, <2>5, <2>6 DEF ViewNext
  <1>2. CASE UNCHANGED viewVars
    <2>1. UNCHANGED <<place, nzb, in_flight, inbox, job, pollers, truth>>
      BY <1>2 DEF viewVars
    <2>2. ViewTypes' /\ Flights' /\ RecordIsTrue'
      BY <2>1 DEF ViewInv, ViewTypes, Flights, RecordIsTrue, Shown
    <2>3. IdsAreOld' /\ RunSoFar' /\ JobIsOwn' /\ ReportsAreOwn'
      BY <2>1, SamePipeline DEF ViewInv
    <2>4. Shown' => SizesOf(nzb') /\ EnoughSettled(nzb', place')
      BY <2>1 DEF ViewInv, Shown, SizesOf, EnoughSettled, Settled
    <2> QED BY <2>2, <2>3, <2>4 DEF ViewInv
  <1> QED BY <1>1, <1>2

(* Whatever the order of downloads, reports and requests, the claims on    *)
(* the NZB, its job and its reports hold.                                  *)
THEOREM ViewInvCorrect == ViewSpec => []ViewInv
  BY ViewInitially, ViewStep, PTL DEF ViewSpec

(* What the history shows: the mark, or the failed health, or the worst    *)
(* of the statuses.                                                        *)
LEMMA HistoryStatus ==
    ASSUME nzb \in NzbEntries
    PROVE  LET shown == format_history_status
               s == nzb.statuses
           IN IF nzb.mark # "None" THEN shown = MarkText[nzb.mark]
              ELSE IF nzb.delete = "Health" THEN shown = "FAILURE/HEALTH"
              ELSE shown \in Successes <=> /\ s.par # "Failure" /\ s.move # "Failure"
                                           /\ s.unpack \notin {"Failure", "Password"}
  <1>1. PICK marked, delete, par, unpacked, move :
           /\ marked = nzb.mark /\ delete = nzb.delete /\ par = nzb.statuses.par
           /\ unpacked = nzb.statuses.unpack /\ move = nzb.statuses.move
    OBVIOUS
  <1> DEFINE rows == <<[when |-> marked = "Bad", text |-> "FAILURE/BAD"],
              [when |-> marked = "Good", text |-> "SUCCESS/GOOD"],
              [when |-> marked = "Success", text |-> "SUCCESS/MARK"],
              [when |-> delete = "Health", text |-> "FAILURE/HEALTH"],
              [when |-> par = "Failure", text |-> "FAILURE/PAR"],
              [when |-> unpacked = "Failure", text |-> "FAILURE/UNPACK"],
              [when |-> move = "Failure", text |-> "FAILURE/MOVE"],
              [when |-> unpacked = "Password", text |-> "WARNING/PASSWORD"],
              [when |-> unpacked = "Success", text |-> "SUCCESS/UNPACK"],
              [when |-> par = "Success", text |-> "SUCCESS/PAR"],
              [when |-> TRUE, text |-> "SUCCESS/HEALTH"]>>
  <1>2. format_history_status = rows[FirstRow(rows)].text
    BY <1>1 DEF FirstRow, format_history_status, build_history_list
  <1>3. Len(rows) = 11
    OBVIOUS
  <1>4. /\ rows[1].when <=> marked = "Bad"
        /\ rows[2].when <=> marked = "Good"
        /\ rows[3].when <=> marked = "Success"
        /\ rows[4].when <=> delete = "Health"
        /\ rows[5].when <=> par = "Failure"
        /\ rows[6].when <=> unpacked = "Failure"
        /\ rows[7].when <=> move = "Failure"
        /\ rows[8].when <=> unpacked = "Password"
        /\ rows[9].when <=> unpacked = "Success"
        /\ rows[10].when <=> par = "Success"
        /\ rows[11].when
    OBVIOUS
  <1>5. /\ rows[1].text = "FAILURE/BAD" /\ rows[2].text = "SUCCESS/GOOD"
        /\ rows[3].text = "SUCCESS/MARK" /\ rows[4].text = "FAILURE/HEALTH"
        /\ rows[5].text = "FAILURE/PAR" /\ rows[6].text = "FAILURE/UNPACK"
        /\ rows[7].text = "FAILURE/MOVE" /\ rows[8].text = "WARNING/PASSWORD"
        /\ rows[9].text = "SUCCESS/UNPACK" /\ rows[10].text = "SUCCESS/PAR"
        /\ rows[11].text = "SUCCESS/HEALTH"
    OBVIOUS
  <1> HIDE DEF rows
  <1>6. PICK m \in 1..11 : /\ m = FirstRow(rows) /\ rows[m].when
                           /\ \A i \in 1..11 : rows[i].when => m <= i
    <2>1. 11 \in Nat /\ 11 \in 1..11
      OBVIOUS
    <2>2. rows[11].when
      BY <1>4
    <2>3. AppliesFirst(FirstRow(rows), rows, 11)
      BY <1>3, <2>1, <2>2, FirstThatApplies
    <2> QED BY <2>3 DEF AppliesFirst
  <1>7. \A i \in 1..11 : i \in {1, 2, 3, 4, 5, 6, 7, 8, 9, 10, 11}
    OBVIOUS
  <1>8. marked \in Marks /\ delete \in {"None", "Health"} /\ par \in {"None", "Success", "Failure"}
        /\ unpacked \in {"None", "Success", "Failure", "Password"}
        /\ move \in {"None", "Success", "Failure"}
    BY <1>1 DEF NzbEntries
  <1>9. PICK shown : shown = format_history_status /\ shown = rows[m].text
    BY <1>2, <1>6, Zenon
  <1>10. CASE marked # "None"
    <2>1. shown = MarkText[marked]
      BY <1>4, <1>5, <1>6, <1>7, <1>8, <1>9, <1>10 DEF Marks, MarkText
    <2> QED BY <1>1, <1>9, <1>10, <2>1
  <1>11. CASE marked = "None" /\ delete = "Health"
    <2>1. shown = "FAILURE/HEALTH"
      BY <1>4, <1>5, <1>6, <1>7, <1>9, <1>11
    <2> QED BY <1>1, <1>9, <1>11, <2>1
  <1>12. CASE marked = "None" /\ delete # "Health"
    <2>1. m \notin {1, 2, 3, 4}
      BY <1>4, <1>6, <1>12
    <2>2. shown \in Successes <=> m \in {9, 10, 11}
      BY <1>5, <1>7, <1>9, <2>1 DEF Successes
    <2>3. m \in {9, 10, 11} <=>
             /\ par # "Failure" /\ move # "Failure" /\ unpacked \notin {"Failure", "Password"}
      <3>1. ASSUME m \in {5, 6, 7, 8}
            PROVE  par = "Failure" \/ move = "Failure" \/ unpacked \in {"Failure", "Password"}
        BY <1>4, <1>6, <3>1
      <3>2. ASSUME m \in {9, 10, 11}
            PROVE  par # "Failure" /\ move # "Failure" /\ unpacked \notin {"Failure", "Password"}
        <4>1. ~rows[5].when /\ ~rows[6].when /\ ~rows[7].when /\ ~rows[8].when
          BY <1>6, <3>2
        <4> QED BY <1>4, <4>1
      <3> QED BY <1>7, <2>1, <3>1, <3>2
    <2> QED BY <1>1, <1>9, <1>12, <2>2, <2>3
  <1> QED BY <1>1, <1>10, <1>11, <1>12

LEMMA HistoryShown == ViewInv => HistoryIsTrue
  <1> SUFFICES ASSUME ViewInv, place = "history" PROVE HistoryIsTrue
    BY DEF HistoryIsTrue
  <1>1. /\ nzb \in NzbEntries /\ nzb.mark = truth.mark /\ (nzb.delete = "Health" <=> truth.health)
        /\ truth \in [run : Runs, health : BOOLEAN, mark : Marks]
        /\ ~truth.health => nzb.statuses = Statuses(truth.run) /\ RunIsDone(truth.run)
    BY OfHistory DEF ViewInv, RecordIsTrue, Shown
  <1>2. PICK shown, run : shown = format_history_status /\ run = truth.run
    OBVIOUS
  <1>3. IF nzb.mark # "None" THEN shown = MarkText[nzb.mark]
        ELSE IF nzb.delete = "Health" THEN shown = "FAILURE/HEALTH"
        ELSE shown \in Successes <=> /\ nzb.statuses.par # "Failure"
                                     /\ nzb.statuses.move # "Failure"
                                     /\ nzb.statuses.unpack \notin {"Failure", "Password"}
    BY <1>1, <1>2, HistoryStatus
  <1>4. rpc_history.status = shown /\ rpc_history.par_status = nzb.statuses.par
    BY <1>2 DEF rpc_history, build_history_list
  <1>5. CASE truth.mark # "None"
    BY <1>1, <1>3, <1>4, <1>5 DEF HistoryIsTrue
  <1>6. CASE truth.mark = "None" /\ truth.health
    BY <1>1, <1>3, <1>4, <1>6 DEF HistoryIsTrue
  <1>7. CASE truth.mark = "None" /\ ~truth.health
    <2>1. /\ shown \in Successes <=> /\ nzb.statuses.par # "Failure"
                                     /\ nzb.statuses.move # "Failure"
                                     /\ nzb.statuses.unpack \notin {"Failure", "Password"}
          /\ nzb.statuses = Statuses(run) /\ RunIsDone(run) /\ run \in Runs
      BY <1>1, <1>2, <1>3, <1>7
    <2>2. /\ nzb.statuses.par = ParStatusOf(run.par) /\ nzb.statuses.unpack = run.unpack
          /\ nzb.statuses.move = run.move
      BY <2>1 DEF Statuses
    <2>3. /\ run.par \in ParResults /\ run.unpack \in {"Success", "Failure", "Password"}
          /\ run.move \in {"Success", "Failure"} /\ run.ran = scan_script_dir
          /\ scan_script_dir # <<>> => run.told = ParStatusOf(run.par)
      BY <2>1 DEF RunIsDone, Runs
    <2>4. ParStatusOf(run.par) # "Failure" <=> run.par \in {"AllFilesOk", "RepairComplete", "None"}
      BY <2>3 DEF ParStatusOf, ParResults
    <2>5. (shown \in Successes) <=> /\ run.par \in {"AllFilesOk", "RepairComplete", "None"}
                                    /\ run.unpack = "Success" /\ run.move = "Success"
      BY <2>1, <2>2, <2>3, <2>4
    <2>6. scan_script_dir # <<>> => run.told = rpc_history.par_status
      BY <1>4, <2>2, <2>3, Zenon
    <2> QED BY <1>2, <1>4, <1>7, <2>3, <2>5, <2>6 DEF HistoryIsTrue
  <1> QED BY <1>1, <1>5, <1>6, <1>7

LEMMA StageShown == ViewInv => StageIsTrue
  <1> SUFFICES ASSUME ViewInv, place = "queue", nzb.stage # "None" \/ nzb.progress
               PROVE  StageIsTrue
    BY DEF StageIsTrue
  <1>1. nzb.stage # "None" /\ nzb \in NzbEntries
    BY DEF ViewInv, ViewTypes, RecordIsTrue, Shown
  <1>2. {d \in in_flight : d[1] = nzb.id} = {}
    BY <1>1 DEF ViewInv, Flights
  <1>3. rpc_listgroups.active_downloads = 0
    <2>1. Cardinality({d \in in_flight : d[1] = nzb.id}) = 0
      BY <1>2, FS_EmptySet
    <2> QED BY <2>1 DEF rpc_listgroups, build_snapshot
  <1>4. rpc_listgroups.status = nzb.stage
    BY <1>1 DEF rpc_listgroups, build_snapshot
  <1>5. CASE job.at # "none"
    <2>1. job.id = nzb.id /\ RankOf(nzb.stage) <= 1 + RankOf(job.at)
      BY <1>5 DEF ViewInv, JobIsOwn, Shown
    <2>2. RankOf(rpc_listgroups.status) <= 1 + RankOf(job.at)
      BY <1>4, <2>1
    <2> QED BY <1>3, <2>1, <2>2 DEF StageIsTrue
  <1>6. CASE job.at = "none"
    <2>1. \E i \in 1..Len(inbox) : Own(i, "done")
      BY <1>1, <1>6 DEF ViewInv, ReportsAreOwn
    <2>2. DOMAIN inbox = 1..Len(inbox)
      BY DEF ViewInv, ViewTypes
    <2>3. Finishing
      BY <2>1, <2>2 DEF Finishing, Own
    <2> QED BY <1>3, <2>3 DEF StageIsTrue
  <1> QED BY <1>5, <1>6

LEMMA SizesShown == ViewInv => SizesAgree
  <1> SUFFICES ASSUME ViewInv, place = "queue" PROVE SizesAgree
    BY DEF SizesAgree
  <1> DEFINE open == {a \in Arts : ~Settled(nzb, a)}
             failed == {a \in Arts : nzb.arts[a] = "failed"}
             finished == {a \in Arts : nzb.arts[a] = "finished"}
  <1>1. /\ nzb \in NzbEntries /\ SizesOf(nzb)
        /\ \A a \in Arts : nzb.arts[a] \in {"undefined", "running", "finished", "failed"}
    BY DEF ViewInv, ViewTypes, NzbEntries, Shown
  <1>2. nzb.remaining = SizeOf(open) /\ nzb.success = SizeOf(finished)
    BY <1>1 DEF SizesOf
  <1>3. PICK h : h = nzb.file_remaining
    OBVIOUS
  <1>4. \A f \in ViewFiles : h[f] = SumOf(ArtSize, {a \in open : ArtFile[a] = f})
    <2> TAKE f \in ViewFiles
    <2>1. {a \in Arts : ArtFile[a] = f /\ ~Settled(nzb, a)} = {a \in open : ArtFile[a] = f}
      OBVIOUS
    <2>2. h[f] = SizeOf({a \in Arts : ArtFile[a] = f /\ ~Settled(nzb, a)})
      BY <1>1, <1>3 DEF SizesOf
    <2>3. h[f] = SumOf(ArtSize, {a \in Arts : ArtFile[a] = f /\ ~Settled(nzb, a)})
      BY <2>2 DEF SizeOf, SumOf
    <2> HIDE DEF open
    <2> QED BY <2>1, <2>3, Zenon
  <1>5. /\ IsFiniteSet(Arts) /\ IsFiniteSet(open) /\ IsFiniteSet(ViewFiles)
        /\ \A a \in open : ArtSize[a] \in Int
    <2>1. IsFiniteSet(Arts) /\ \A a \in Arts : ArtSize[a] \in Int
      BY ViewAssumption
    <2>2. IsFiniteSet(open)
      BY <2>1, FS_Subset
    <2>3. IsFiniteSet({ArtFile[a] : a \in Arts})
      <3> DEFINE F == {ArtFile[a] : a \in Arts}
      <3>1. [a \in Arts |-> ArtFile[a]] \in Surjection(Arts, F)
        BY DEF Surjection
      <3> HIDE DEF F
      <3>2. IsFiniteSet(F)
        BY <2>1, <3>1, FS_Surjection
      <3> QED BY <3>2 DEF F
    <2> QED BY <2>1, <2>2, <2>3 DEF ViewFiles
  <1>6. {a \in open : ArtFile[a] \in ViewFiles} = open
    BY DEF ViewFiles
  <1>7. SumOf(h, ViewFiles) = SizeOf(open)
    <2>1. SumOf(h, ViewFiles) = SumOf(ArtSize, {a \in open : ArtFile[a] \in ViewFiles})
      <3> HIDE DEF open
      <3>1. PICK o : o = open
        OBVIOUS
      <3>2. /\ \A f \in ViewFiles : h[f] = SumOf(ArtSize, {a \in o : ArtFile[a] = f})
            /\ IsFiniteSet(o) /\ IsFiniteSet(ViewFiles) /\ \A a \in o : ArtSize[a] \in Int
        BY <1>4, <1>5, <3>1, Zenon
      <3>3. SumsOfGroups(h, ViewFiles, ArtSize, o, ArtFile)
        BY <3>2, Zenon DEF SumsOfGroups
      <3>4. SumOf(h, ViewFiles) = SumOf(ArtSize, OfGroups(o, ArtFile, ViewFiles))
        BY ONLY <3>2, <3>3, SumByGroups
      <3>5. OfGroups(o, ArtFile, ViewFiles) = {a \in o : ArtFile[a] \in ViewFiles}
        BY DEF OfGroups
      <3> QED BY <3>1, <3>4, <3>5, Zenon
    <2>2. SumOf(ArtSize, open) = SizeOf(open)
      BY DEF SumOf, SizeOf
    <2> HIDE DEF open
    <2> QED BY <1>6, <2>1, <2>2, Zenon
  <1>8. SumOf(rpc_listfiles, ViewFiles) = SizeOf(open)
    <2>1. PICK v : v = rpc_listfiles
      OBVIOUS
    <2>2. \A f \in ViewFiles : v[f] = h[f]
      BY <1>3, <2>1 DEF rpc_listfiles, build_file_list
    <2>3. \A f \in ViewFiles : h[f] \in Int
      BY <1>1, <1>3 DEF NzbEntries
    <2>4. SumOf(v, ViewFiles) = SumOf(h, ViewFiles)
      BY <1>5, <2>2, <2>3, SumOfSame
    <2> HIDE DEF open
    <2> QED BY <1>7, <2>1, <2>4, Zenon
  <1>9. SizeOf(Arts) = SizeOf(open) + SizeOf(finished) + SizeOf(failed)
    <2>1. /\ open \in SUBSET Arts /\ failed \in SUBSET Arts /\ finished \in SUBSET Arts
          /\ open \intersect finished = {} /\ (open \union finished) \intersect failed = {}
          /\ (open \union finished) \in SUBSET Arts
          /\ (open \union finished) \union failed = Arts
      BY <1>1 DEF Settled
    <2> HIDE DEF open, failed, finished
    <2>2. /\ SizeOf(open \union finished) = SizeOf(open) + SizeOf(finished)
          /\ SizeOf((open \union finished) \union failed) = SizeOf(open \union finished) + SizeOf(failed)
      BY <2>1, Sizes
    <2>3. SizeOf(Arts) = SizeOf(open \union finished) + SizeOf(failed)
      BY <2>1, <2>2, Zenon
    <2> QED BY <2>2, <2>3
  <1>10. rpc_listgroups.remaining_size = SizeOf(Arts) - SizeOf(finished)
    <2>1. rpc_listgroups.remaining_size = SizeOf(Arts) - nzb.success
      BY DEF rpc_listgroups, build_snapshot
    <2> HIDE DEF finished
    <2> QED BY <1>2, <2>1, Zenon
  <1>11. SizeOf(open) \in Int /\ SizeOf(finished) \in Int /\ SizeOf(failed) \in Int
    BY Sizes
  <1>12. /\ MapThenSumSet(LAMBDA f : rpc_listfiles[f], ViewFiles) = SizeOf(open)
         /\ GetStatus = SizeOf(open)
    <2> HIDE DEF open
    <2>1. MapThenSumSet(LAMBDA f : rpc_listfiles[f], ViewFiles) = SumOf(rpc_listfiles, ViewFiles)
      BY DEF SumOf
    <2> QED BY <1>2, <1>8, <2>1 DEF GetStatus
  <1>13. SizeOf(open) = rpc_listgroups.remaining_size - SizeOf(failed)
    <2> HIDE DEF open, finished, failed
    <2> QED BY <1>9, <1>10, <1>11
  <1> QED BY <1>12, <1>13 DEF SizesAgree

(* Clients are shown of an NZB what is true of it: its place among the     *)
(* stages, its sizes, and what became of it.                               *)
THEOREM ViewsAreTrue == ViewSpec => []ShownAsItIs
  <1>1. ViewInv => ShownAsItIs
    BY HistoryShown, StageShown, SizesShown DEF ShownAsItIs
  <1> QED BY <1>1, ViewInvCorrect, PTL

-----------------------------------------------------------------------------
(* Feeds.                                                                  *)
FeedSpec == FeedInit /\ [][FeedNext]_feedVars

(* What the parser of a feed has before and after every event.             *)
Parsing(p) == p = [x \in DOMAIN p |-> p[x]] /\ "items" \in DOMAIN p /\ IsSequence(p.items)

LEMMA ParsingTwo ==
    ASSUME NEW p, Parsing(p), NEW v, NEW w
    PROVE  /\ Parsing([p EXCEPT !.state = v, !.current = w])
           /\ \A i : IsSequence(i) => Parsing([p EXCEPT !.state = v, !.current = w, !.items = i])
  BY DEF Parsing

LEMMA ParsingFields ==
    ASSUME NEW p, Parsing(p), NEW v
    PROVE  /\ Parsing([p EXCEPT !.state = v]) /\ Parsing([p EXCEPT !.tag = v])
           /\ Parsing([p EXCEPT !.text = v]) /\ Parsing([p EXCEPT !.current = v])
  BY DEF Parsing

LEMMA ParsingUrl ==
    ASSUME NEW p, Parsing(p), NEW v
    PROVE  Parsing([p EXCEPT !.current.url = v])
  BY DEF Parsing

LEMMA InTagParses ==
    ASSUME NEW p, Parsing(p), NEW e
    PROVE  Parsing(InTag(p, e))
  BY DEF Parsing, InTag

LEMMA OpenParses ==
    ASSUME NEW p, Parsing(p), NEW e
    PROVE  Parsing(handle_open(p, e))
  <1>1. CASE p.state = "Root" /\ e.tag \in ItemTags
    BY <1>1 DEF handle_open, Parsing
  <1>2. CASE p.state = "InItem" /\ e.tag = "enclosure" /\ e.text # Nothing
    BY <1>2, ParsingUrl DEF handle_open
  <1>3. CASE p.state = "InItem" /\ e.tag = "link"
    BY <1>3, ParsingUrl, InTagParses DEF handle_open
  <1>4. CASE p.state = "InItem" /\ e.tag = "attr"
    BY <1>4, ParsingFields DEF handle_open
  <1>5. CASE p.state = "InItem" /\ e.tag \notin {"enclosure", "link", "attr"}
    BY <1>5, InTagParses DEF handle_open
  <1>6. CASE /\ ~(p.state = "Root" /\ e.tag \in ItemTags)
             /\ ~(p.state = "InItem" /\ e.tag = "enclosure" /\ e.text # Nothing)
             /\ ~(p.state = "InItem" /\ e.tag = "link")
             /\ ~(p.state = "InItem" /\ e.tag = "attr")
             /\ ~(p.state = "InItem" /\ e.tag \notin {"enclosure", "link", "attr"})
    <2>1. handle_open(p, e) = p
      BY <1>6 DEF handle_open
    <2> QED BY <2>1
  <1> QED BY <1>1, <1>2, <1>3, <1>4, <1>5, <1>6

LEMMA EventParses ==
    ASSUME NEW p, Parsing(p), NEW e
    PROVE  Parsing(FeedEvent(p, e))
  <1>1. CASE e.kind \in {"Start", "Empty"}
    BY <1>1, OpenParses DEF FeedEvent
  <1>2. CASE e.kind = "Text" /\ p.state = "InItemTag"
    BY <1>2, ParsingFields DEF FeedEvent
  <1>3. CASE e.kind = "End" /\ e.tag \in ItemTags
    <2> DEFINE kept == IF p.current = Nothing THEN p.items ELSE Append(p.items, p.current)
    <2>1. IsSequence(kept)
      BY AppendElements DEF Parsing
    <2>2. FeedEvent(p, e) = [p EXCEPT !.state = "Root", !.current = Nothing, !.items = kept]
      BY <1>3 DEF FeedEvent
    <2> HIDE DEF kept
    <2>3. Parsing([p EXCEPT !.state = "Root", !.current = Nothing, !.items = kept])
      BY <2>1, ParsingTwo
    <2> QED BY ONLY <2>2, <2>3, Zenon
  <1>4. CASE e.kind = "End" /\ e.tag \notin ItemTags /\ p.state = "InItemTag"
    <2>1. FeedEvent(p, e) = CloseTag(p)
      BY <1>4 DEF FeedEvent
    <2>2. \E v : CloseTag(p) = [p EXCEPT !.state = "InItem", !.current = v]
      BY DEF CloseTag
    <2>3. PICK v : CloseTag(p) = [p EXCEPT !.state = "InItem", !.current = v]
      BY <2>2
    <2>4. Parsing([p EXCEPT !.state = "InItem", !.current = v])
      BY ParsingTwo
    <2> QED BY ONLY <2>1, <2>3, <2>4, Zenon
  <1>5. CASE /\ e.kind \notin {"Start", "Empty"}
             /\ ~(e.kind = "Text" /\ p.state = "InItemTag")
             /\ ~(e.kind = "End" /\ e.tag \in ItemTags)
             /\ ~(e.kind = "End" /\ e.tag \notin ItemTags /\ p.state = "InItemTag")
    <2>1. FeedEvent(p, e) = p
      BY <1>5 DEF FeedEvent
    <2> QED BY <2>1
  <1> QED BY <1>1, <1>2, <1>3, <1>4, <1>5

(* A document is read into a sequence of items.                            *)
LEMMA ItemsOfDocument ==
    ASSUME NEW d, IsSequence(d)
    PROVE  IsSequence(parse_feed(d))
  <1> DEFINE n == Len(d)
             b == [state |-> "Root", tag |-> Nothing, text |-> Nothing, current |-> Nothing,
                   items |-> <<>>]
             op(r, x) == FeedEvent(r, x)
             Is(it) == it = [t \in SUBSET DOMAIN d |->
                                IF t = {} THEN b ELSE op(it[t \ {Max(t)}], d[Max(t)])]
             H == CHOOSE it : Is(it)
             Good(it, k) == it = [t \in SmallSets(n, k) |->
                                IF t = {} THEN b ELSE op(it[t \ {Max(t)}], d[Max(t)])]
             T == {k \in Nat : \E it : Good(it, k)}
  <1>1. n \in Nat /\ DOMAIN d = 1..n
    BY DEF IsSequence
  <1> HIDE DEF n
  <1>2. /\ \A t \in SmallSets(n, 0) : t = {}
        /\ SmallSets(n, n) = SUBSET DOMAIN d
        /\ \A k \in Nat :
              /\ SmallSets(n, k) \subseteq SmallSets(n, k + 1)
              /\ \A t \in SmallSets(n, k + 1) : t # {} => t \ {Max(t)} \in SmallSets(n, k)
    BY <1>1, SmallSetsGrow
  <1>3. 0 \in T
    <2> DEFINE g == [t \in SmallSets(n, 0) |-> b]
    <2> HIDE DEF op, b
    <2>1. Good(g, 0)
      BY <1>2
    <2> HIDE DEF Good
    <2> QED BY <2>1
  <1>4. ASSUME NEW k \in Nat, k \in T PROVE k + 1 \in T
    <2>1. PICK g : Good(g, k)
      <3> HIDE DEF Good
      <3> QED BY <1>4
    <2> DEFINE g2 == [t \in SmallSets(n, k + 1) |->
                        IF t = {} THEN b ELSE op(g[t \ {Max(t)}], d[Max(t)])]
    <2> HIDE DEF op, b
    <2>2. \A t \in SmallSets(n, k) : g2[t] = g[t]
      BY <1>2, <2>1
    <2>3. \A t \in SmallSets(n, k + 1) : t # {} => g2[t \ {Max(t)}] = g[t \ {Max(t)}]
      BY <1>2, <2>2
    <2>4. Good(g2, k + 1)
      BY <2>3
    <2> HIDE DEF Good, g2
    <2> QED BY <2>4
  <1>5. Is(H)
    <2>1. Nat \subseteq T
      <3> HIDE DEF T
      <3> QED BY <1>3, <1>4, InductiveSet
    <2>2. PICK g : Good(g, n)
      <3> HIDE DEF Good
      <3> QED BY <1>1, <2>1
    <2>3. Is(g)
      <3> HIDE DEF op, b
      <3> QED BY <1>2, <2>2
    <2> HIDE DEF Is
    <2> QED BY <2>3
  <1>6. parse_feed(d) = H[1..n].items
    <2>1. parse_feed(d) = H[DOMAIN d].items
      BY DEF parse_feed, FoldLeft, MapThenFoldSet
    <2> HIDE DEF H
    <2> QED BY <1>1, <2>1
  <1> HIDE DEF H
  <1>7. Parsing(H[1..0])
    <2>1. 1..0 = {} /\ H[{}] = b
      BY <1>5
    <2>2. Parsing(b)
      BY TupleSequences DEF Parsing
    <2> HIDE DEF b
    <2> QED BY <2>1, <2>2
  <1>8. ASSUME NEW i \in 1..n, Parsing(H[1..(i - 1)]) PROVE Parsing(H[1..i])
    <2>1. 1..i \in SUBSET DOMAIN d /\ 1..i # {}
      <3>1. i \in 1..i /\ 1..i \subseteq 1..n
        BY <1>1
      <3> QED BY <1>1, <3>1
    <2>2. Max(1..i) = i /\ (1..i) \ {Max(1..i)} = 1..(i - 1)
      BY MaxOfPrefix
    <2>3. H[1..i] = op(H[1..(i - 1)], d[i])
      <3> HIDE DEF op, b
      <3> QED BY <1>5, <2>1, <2>2
    <2> QED BY <1>8, <2>3, EventParses
  <1> DEFINE U == {i \in 0..n : Parsing(H[1..i])}
  <1>9. 0 \in U /\ \A i \in 1..n : i - 1 \in U => i \in U
    BY <1>1, <1>7, <1>8
  <1>10. n \in U
    <2> HIDE DEF U
    <2>1. 0..n \subseteq U
      BY <1>1, <1>9, InductiveInterval
    <2> QED BY <1>1, <2>1
  <1> QED BY <1>6, <1>10 DEF Parsing

(* What the history says was fetched.                                      *)
FetchedIn(history) == {k \in DOMAIN history : history[k] = "Fetched"}

(* What considering items of a feed has come to: what was accepted was not *)
(* in the history h before, and is what the history has got as fetched.    *)
Considering(feed, h, r) ==
    /\ r = [x \in DOMAIN r |-> r[x]] /\ "history" \in DOMAIN r /\ "accepted" \in DOMAIN r
    /\ IsSequence(r.accepted)
    /\ IsSequence(ItemKeys(feed, r.accepted)) /\ IsInjective(ItemKeys(feed, r.accepted))
    /\ Range(ItemKeys(feed, r.accepted)) \intersect DOMAIN h = {}
    /\ DOMAIN h \union Range(ItemKeys(feed, r.accepted)) \subseteq DOMAIN r.history
    /\ FetchedIn(r.history) = FetchedIn(h) \union Range(ItemKeys(feed, r.accepted))

LEMMA KeysAppended ==
    ASSUME NEW feed, NEW items, NEW item, IsSequence(items), IsSequence(ItemKeys(feed, items))
    PROVE  ItemKeys(feed, Append(items, item)) = Append(ItemKeys(feed, items), <<feed, item.url>>)
  <1> DEFINE s == ItemKeys(feed, Append(items, item))
             t == Append(ItemKeys(feed, items), <<feed, item.url>>)
  <1>1. /\ IsSequence(Append(items, item)) /\ Len(Append(items, item)) = Len(items) + 1
        /\ Len(items) \in Nat /\ \A i \in 1..Len(items) : Append(items, item)[i] = items[i]
        /\ Append(items, item)[Len(items) + 1] = item
    BY AppendElements
  <1>2. DOMAIN items = 1..Len(items) /\ DOMAIN Append(items, item) = 1..(Len(items) + 1)
    BY <1>1 DEF IsSequence
  <1>3. /\ s = [i \in 1..(Len(items) + 1) |-> s[i]]
        /\ \A i \in 1..Len(items) : s[i] = <<feed, items[i].url>>
        /\ s[Len(items) + 1] = <<feed, item.url>>
    BY <1>1, <1>2 DEF ItemKeys
  <1>4. Len(ItemKeys(feed, items)) = Len(items) /\ \A i \in 1..Len(items) : ItemKeys(feed, items)[i] = <<feed, items[i].url>>
    <2>1. DOMAIN ItemKeys(feed, items) = 1..Len(items)
      BY <1>2 DEF ItemKeys
    <2>2. Len(ItemKeys(feed, items)) = Len(items)
      BY <1>1, <2>1 DEF IsSequence
    <2> QED BY <1>2, <2>2 DEF ItemKeys
  <1>5. /\ IsSequence(t) /\ Len(t) = Len(items) + 1
        /\ \A i \in 1..Len(items) : t[i] = <<feed, items[i].url>>
        /\ t[Len(items) + 1] = <<feed, item.url>>
    BY <1>4, AppendElements
  <1> HIDE DEF s, t
  <1>6. t = [i \in 1..(Len(items) + 1) |-> t[i]]
    BY <1>5 DEF IsSequence
  <1>7. \A i \in 1..(Len(items) + 1) : s[i] = t[i]
    <2>1. \A i \in 1..(Len(items) + 1) : i \in 1..Len(items) \/ i = Len(items) + 1
      BY <1>1
    <2>2. \A i \in 1..Len(items) : s[i] = t[i]
      BY <1>3, <1>5, Zenon
    <2>3. s[Len(items) + 1] = t[Len(items) + 1]
      BY <1>3, <1>5, Zenon
    <2> QED BY ONLY <2>1, <2>2, <2>3, Zenon
  <1>8. s = t
    BY <1>3, <1>6, <1>7
  <1> QED BY <1>8 DEF s, t

LEMMA ConsiderKeeps ==
    ASSUME NEW feed, NEW h, NEW r, NEW item, Considering(feed, h, r)
    PROVE  Considering(feed, h, Consider(feed, r, item))
  <1> DEFINE key == <<feed, item.url>>
             action == evaluate(FilterOf[feed], item)
             seen == already_processed(r.history, feed, item)
  <1>1. CASE ~seen /\ action \in {"Accept", "Options"}
    <2> DEFINE marked == mark(r.history, feed, item, "Fetched")
               all == Append(r.accepted, item)
    <2>1. Consider(feed, r, item) = [r EXCEPT !.history = marked, !.accepted = all]
      BY <1>1 DEF Consider
    <2>2. PICK q : q = [r EXCEPT !.history = marked, !.accepted = all]
      OBVIOUS
    <2>3. /\ q = [x \in DOMAIN q |-> q[x]] /\ "history" \in DOMAIN q /\ "accepted" \in DOMAIN q
          /\ q.history = marked /\ q.accepted = all
      <3> HIDE DEF marked, all
      <3> QED BY <2>2 DEF Considering
    <2>4. key \notin DOMAIN r.history
      BY <1>1 DEF already_processed
    <2>5. /\ DOMAIN marked = DOMAIN r.history \union {key} /\ marked[key] = "Fetched"
          /\ \A k \in DOMAIN r.history : marked[k] = r.history[k]
      <3>1. PICK old : old = r.history
        OBVIOUS
      <3>2. /\ DOMAIN mark(old, feed, item, "Fetched") = DOMAIN old \union {key}
            /\ mark(old, feed, item, "Fetched")[key] = "Fetched"
            /\ \A k \in DOMAIN old : k # key => mark(old, feed, item, "Fetched")[k] = old[k]
        BY DEF mark
      <3>3. marked = mark(old, feed, item, "Fetched")
        BY <3>1
      <3> HIDE DEF marked, key
      <3> QED BY <2>4, <3>1, <3>2, <3>3
    <2>6. IsSequence(all) /\ ItemKeys(feed, all) = Append(ItemKeys(feed, r.accepted), key)
      BY AppendElements, KeysAppended DEF Considering
    <2>7. PICK ks : ks = ItemKeys(feed, r.accepted)
      OBVIOUS
    <2>8. PICK S : S = Range(ks) \union {key}
      OBVIOUS
    <2>9. ks \in Seq(S) /\ key \in S /\ IsInjective(ks) /\ key \notin Range(ks)
      BY <2>4, <2>7, <2>8 DEF Considering, IsSequence
    <2> HIDE DEF marked, all, key
    <2>10. /\ Range(Append(ks, key)) = Range(ks) \union {key} /\ IsInjective(Append(ks, key))
           /\ IsSequence(Append(ks, key))
      <3>1. /\ Range(Append(ks, key)) = Range(ks) \union {key}
            /\ IsInjective(ks) /\ key \notin Range(ks) => IsInjective(Append(ks, key))
        BY ONLY <2>9, AppendRange
      <3>2. IsSequence(ks)
        BY ONLY <2>9, AnySequence
      <3>3. IsSequence(Append(ks, key))
        BY ONLY <3>2, AppendElements
      <3> QED BY <2>9, <3>1, <3>3
    <2>11. /\ IsSequence(ItemKeys(feed, q.accepted)) /\ IsInjective(ItemKeys(feed, q.accepted))
           /\ Range(ItemKeys(feed, q.accepted)) = Range(ks) \union {key}
      BY <2>3, <2>6, <2>7, <2>10
    <2>12. FetchedIn(q.history) = FetchedIn(r.history) \union {key}
      BY <2>3, <2>4, <2>5 DEF FetchedIn
    <2>13. Considering(feed, h, q)
      BY <2>3, <2>4, <2>5, <2>6, <2>7, <2>11, <2>12 DEF Considering
    <2> QED BY <2>1, <2>2, <2>13
  <1>2. CASE ~seen /\ action = "Reject"
    <2> DEFINE marked == mark(r.history, feed, item, "Skipped")
    <2>1. Consider(feed, r, item) = [r EXCEPT !.history = marked]
      BY <1>2 DEF Consider
    <2>2. PICK q : q = [r EXCEPT !.history = marked]
      OBVIOUS
    <2>3. /\ q = [x \in DOMAIN q |-> q[x]] /\ "history" \in DOMAIN q /\ "accepted" \in DOMAIN q
          /\ q.history = marked /\ q.accepted = r.accepted
      <3> HIDE DEF marked
      <3> QED BY <2>2 DEF Considering
    <2>4. key \notin DOMAIN r.history
      BY <1>2 DEF already_processed
    <2>5. /\ DOMAIN marked = DOMAIN r.history \union {key} /\ marked[key] = "Skipped"
          /\ \A k \in DOMAIN r.history : marked[k] = r.history[k]
      <3>1. PICK old : old = r.history
        OBVIOUS
      <3>2. /\ DOMAIN mark(old, feed, item, "Skipped") = DOMAIN old \union {key}
            /\ mark(old, feed, item, "Skipped")[key] = "Skipped"
            /\ \A k \in DOMAIN old : k # key => mark(old, feed, item, "Skipped")[k] = old[k]
        BY DEF mark
      <3>3. marked = mark(old, feed, item, "Skipped")
        BY <3>1
      <3> HIDE DEF marked, key
      <3> QED BY <2>4, <3>1, <3>2, <3>3
    <2> HIDE DEF marked, key
    <2>6. FetchedIn(q.history) = FetchedIn(r.history)
      BY <2>3, <2>4, <2>5 DEF FetchedIn
    <2>7. Considering(feed, h, q)
      BY <2>3, <2>5, <2>6 DEF Considering
    <2> QED BY <2>1, <2>2, <2>7
  <1>3. CASE seen \/ (~seen /\ action \notin {"Accept", "Options", "Reject"})
    <2>1. Consider(feed, r, item) = r
      BY <1>3 DEF Consider
    <2> QED BY <2>1
  <1> QED BY <1>1, <1>2, <1>3

LEMMA NothingConsidered ==
    ASSUME NEW feed, NEW h
    PROVE  Considering(feed, h, [history |-> h, accepted |-> <<>>])
  <1>1. PICK r : r = [history |-> h, accepted |-> <<>>]
    OBVIOUS
  <1>2. /\ r = [x \in DOMAIN r |-> r[x]] /\ "history" \in DOMAIN r /\ "accepted" \in DOMAIN r
        /\ r.history = h /\ r.accepted = <<>>
    BY <1>1
  <1>3. ItemKeys(feed, <<>>) = <<>> /\ Range(<<>>) = {} /\ IsInjective(<<>>)
    BY DEF ItemKeys, Range, IsInjective
  <1>4. Considering(feed, h, r)
    BY <1>2, <1>3, TupleSequences DEF Considering
  <1> QED BY <1>1, <1>4

(* What considering a sequence of items comes to.                           *)
LEMMA ConsideredItems ==
    ASSUME NEW feed, NEW h, NEW items, IsSequence(items)
    PROVE  Considering(feed, h, Considered(feed, h, items))
  <1> DEFINE n == Len(items)
             b == [history |-> h, accepted |-> <<>>]
             op(r, x) == Consider(feed, r, x)
             Is(it) == it = [t \in SUBSET DOMAIN items |->
                                IF t = {} THEN b ELSE op(it[t \ {Max(t)}], items[Max(t)])]
             H == CHOOSE it : Is(it)
             Good(it, k) == it = [t \in SmallSets(n, k) |->
                                IF t = {} THEN b ELSE op(it[t \ {Max(t)}], items[Max(t)])]
             T == {k \in Nat : \E it : Good(it, k)}
  <1>1. n \in Nat /\ DOMAIN items = 1..n
    BY DEF IsSequence
  <1> HIDE DEF n
  <1>2. /\ \A t \in SmallSets(n, 0) : t = {}
        /\ SmallSets(n, n) = SUBSET DOMAIN items
        /\ \A k \in Nat :
              /\ SmallSets(n, k) \subseteq SmallSets(n, k + 1)
              /\ \A t \in SmallSets(n, k + 1) : t # {} => t \ {Max(t)} \in SmallSets(n, k)
    BY <1>1, SmallSetsGrow
  <1>3. 0 \in T
    <2> DEFINE g == [t \in SmallSets(n, 0) |-> b]
    <2> HIDE DEF op, b
    <2>1. Good(g, 0)
      BY <1>2
    <2> HIDE DEF Good
    <2> QED BY <2>1
  <1>4. ASSUME NEW k \in Nat, k \in T PROVE k + 1 \in T
    <2>1. PICK g : Good(g, k)
      <3> HIDE DEF Good
      <3> QED BY <1>4
    <2> DEFINE g2 == [t \in SmallSets(n, k + 1) |->
                        IF t = {} THEN b ELSE op(g[t \ {Max(t)}], items[Max(t)])]
    <2> HIDE DEF op, b
    <2>2. \A t \in SmallSets(n, k) : g2[t] = g[t]
      BY <1>2, <2>1
    <2>3. \A t \in SmallSets(n, k + 1) : t # {} => g2[t \ {Max(t)}] = g[t \ {Max(t)}]
      BY <1>2, <2>2
    <2>4. Good(g2, k + 1)
      BY <2>3
    <2> HIDE DEF Good, g2
    <2> QED BY <2>4
  <1>5. Is(H)
    <2>1. Nat \subseteq T
      <3> HIDE DEF T
      <3> QED BY <1>3, <1>4, InductiveSet
    <2>2. PICK g : Good(g, n)
      <3> HIDE DEF Good
      <3> QED BY <1>1, <2>1
    <2>3. Is(g)
      <3> HIDE DEF op, b
      <3> QED BY <1>2, <2>2
    <2> HIDE DEF Is
    <2> QED BY <2>3
  <1>6. Considered(feed, h, items) = H[1..n]
    <2>1. Considered(feed, h, items) = H[DOMAIN items]
      BY DEF Considered, FoldLeft, MapThenFoldSet
    <2> HIDE DEF H
    <2> QED BY <1>1, <2>1
  <1> HIDE DEF H
  <1>7. Considering(feed, h, H[1..0])
    <2>1. 1..0 = {} /\ H[{}] = b
      BY <1>5
    <2>2. Considering(feed, h, b)
      BY NothingConsidered
    <2> HIDE DEF b
    <2> QED BY <2>1, <2>2
  <1>8. ASSUME NEW i \in 1..n, Considering(feed, h, H[1..(i - 1)]) PROVE Considering(feed, h, H[1..i])
    <2>1. 1..i \in SUBSET DOMAIN items /\ 1..i # {}
      <3>1. i \in 1..i /\ 1..i \subseteq 1..n
        BY <1>1
      <3> QED BY <1>1, <3>1
    <2>2. Max(1..i) = i /\ (1..i) \ {Max(1..i)} = 1..(i - 1)
      BY MaxOfPrefix
    <2>3. H[1..i] = op(H[1..(i - 1)], items[i])
      <3> HIDE DEF op, b
      <3> QED BY <1>5, <2>1, <2>2
    <2> QED BY <1>8, <2>3, ConsiderKeeps
  <1> DEFINE U == {i \in 0..n : Considering(feed, h, H[1..i])}
  <1>9. 0 \in U /\ \A i \in 1..n : i - 1 \in U => i \in U
    BY <1>1, <1>7, <1>8
  <1>10. n \in U
    <2> HIDE DEF U
    <2>1. 0..n \subseteq U
      BY <1>1, <1>9, InductiveInterval
    <2> QED BY <1>1, <2>1
  <1> QED BY <1>6, <1>10

(* FeedInv: what was handed out is a sequence without repetitions, of what *)
(* the history says was fetched.                                           *)
FeedInv == IsSequence(handed_out) /\ AcceptedOnce

LEMMA FetchedKeeps ==
    ASSUME FeedInv, NEW d \in Documents, Fetched(d)
    PROVE  FeedInv'
  <1> DEFINE f == Head(work)
  <1>1. IsSequence(d)
    BY FeedAssumption, ListIsSequence
  <1>2. PICK r : r = Considered(f, feed_history, parse_feed(d))
    OBVIOUS
  <1>3. Considering(f, feed_history, r)
    <2>1. IsSequence(parse_feed(d))
      BY <1>1, ItemsOfDocument
    <2>2. Considering(f, feed_history, Considered(f, feed_history, parse_feed(d)))
      BY <2>1, ConsideredItems
    <2> QED BY <1>2, <2>2
  <1>4. PICK ks : ks = ItemKeys(f, r.accepted)
    OBVIOUS
  <1>5. feed_history' = r.history /\ handed_out' = handed_out \o ks
    BY <1>2, <1>4 DEF Fetched
  <1>6. /\ IsSequence(ks) /\ IsInjective(ks) /\ Range(ks) \intersect DOMAIN feed_history = {}
        /\ FetchedIn(r.history) = FetchedIn(feed_history) \union Range(ks)
    BY <1>3, <1>4 DEF Considering
  <1>7. /\ IsSequence(handed_out) /\ IsInjective(handed_out)
        /\ Range(handed_out) = FetchedIn(feed_history)
    BY DEF FeedInv, AcceptedOnce, FetchedIn
  <1>8. Range(handed_out) \intersect Range(ks) = {}
    BY <1>6, <1>7 DEF FetchedIn
  <1>9. PICK S : S = Range(handed_out) \union Range(ks)
    OBVIOUS
  <1>10. handed_out \in Seq(S) /\ ks \in Seq(S)
    BY <1>6, <1>7, <1>9 DEF IsSequence
  <1>11. /\ handed_out \o ks \in Seq(S) /\ IsInjective(handed_out \o ks)
         /\ Range(handed_out \o ks) = Range(handed_out) \union Range(ks)
    BY <1>6, <1>7, <1>8, <1>10, ConcatRange
  <1>12. IsSequence(handed_out')
    BY <1>5, <1>11, AnySequence
  <1>13. IsInjective(handed_out') /\ Range(handed_out') = FetchedIn(feed_history')
    BY <1>5, <1>6, <1>7, <1>11
  <1> QED BY <1>12, <1>13 DEF FeedInv, AcceptedOnce, FetchedIn

(* FeedInv in every state of the feed coordinator: fetches that fail or     *)
(* bring what cannot be read in between, documents that repeat an item.    *)
THEOREM FeedInvCorrect == FeedSpec => []FeedInv
  <1>1. FeedInit => FeedInv
    <2> SUFFICES ASSUME FeedInit PROVE FeedInv
      OBVIOUS
    <2>1. handed_out = <<>> /\ feed_history = <<>>
      BY DEF FeedInit
    <2>2. IsSequence(<<>>) /\ IsInjective(<<>>) /\ Range(<<>>) = {}
      BY TupleSequences DEF IsInjective, Range
    <2>3. {k \in DOMAIN <<>> : <<>>[k] = "Fetched"} = {}
      OBVIOUS
    <2> QED BY <2>1, <2>2, <2>3 DEF FeedInv, AcceptedOnce
  <1>2. FeedInv /\ [FeedNext]_feedVars => FeedInv'
    <2> SUFFICES ASSUME FeedInv, [FeedNext]_feedVars PROVE FeedInv'
      OBVIOUS
    <2>1. ASSUME UNCHANGED <<feed_history, handed_out>> PROVE FeedInv'
      BY <2>1 DEF FeedInv, AcceptedOnce
    <2>2. ASSUME NEW d \in Documents, Fetched(d) PROVE FeedInv'
      BY <2>2, FetchedKeeps
    <2>3. FeedTick \/ FetchFails \/ FeedUnreadable
             \/ (\E f \in FeedIds : ProcessFeed(f) \/ UpdateIsDue(f)) \/ UNCHANGED feedVars
          => UNCHANGED <<feed_history, handed_out>>
      BY DEF FeedTick, FetchFails, FeedUnreadable, ProcessFeed, UpdateIsDue, feedVars
    <2> QED BY <2>1, <2>2, <2>3 DEF FeedNext
  <1> QED BY <1>1, <1>2, PTL DEF FeedSpec

(* Every item of a feed is handed out once, and what was skipped never is. *)
THEOREM ItemsAreAcceptedOnce == FeedSpec => []AcceptedOnce
  <1>1. FeedInv => AcceptedOnce
    BY DEF FeedInv
  <1> QED BY <1>1, FeedInvCorrect, PTL

-----------------------------------------------------------------------------
(* Configuration.                                                          *)
ConfigSpec == ConfigInit /\ [][ConfigNext]_configVars

(* What a value has become after each piece.  The lemmas about folds all   *)
(* run alike: an operator cannot be passed to a lemma.                     *)
Interpolates(F, value, values) ==
    /\ F[0] = <<>> /\ F[Len(value)] = interpolate(value, values)
    /\ \A i \in 1..Len(value) : F[i] = interpolate_piece(values, F[i - 1], value[i])

LEMMA InterpolatedPlaces ==
    ASSUME NEW value, NEW values, IsSequence(value)
    PROVE  \E F : Interpolates(F, value, values)
  <1> DEFINE n == Len(value)
             op(r, x) == interpolate_piece(values, r, x)
             b == <<>>
             Is(it) == it = [t \in SUBSET DOMAIN value |->
                                IF t = {} THEN b ELSE op(it[t \ {Max(t)}], value[Max(t)])]
             H == CHOOSE it : Is(it)
             Good(it, k) == it = [t \in SmallSets(n, k) |->
                                IF t = {} THEN b ELSE op(it[t \ {Max(t)}], value[Max(t)])]
             T == {k \in Nat : \E it : Good(it, k)}
             F == [i \in 0..n |-> H[1..i]]
  <1>1. n \in Nat /\ DOMAIN value = 1..n
    BY DEF IsSequence
  <1> HIDE DEF n
  <1>2. /\ \A t \in SmallSets(n, 0) : t = {}
        /\ SmallSets(n, n) = SUBSET DOMAIN value
        /\ \A k \in Nat :
              /\ SmallSets(n, k) \subseteq SmallSets(n, k + 1)
              /\ \A t \in SmallSets(n, k + 1) : t # {} => t \ {Max(t)} \in SmallSets(n, k)
    BY <1>1, SmallSetsGrow
  <1>3. 0 \in T
    <2> DEFINE g == [t \in SmallSets(n, 0) |-> b]
    <2> HIDE DEF op, b
    <2>1. Good(g, 0)
      BY <1>2
    <2> HIDE DEF Good
    <2> QED BY <2>1
  <1>4. ASSUME NEW k \in Nat, k \in T PROVE k + 1 \in T
    <2>1. PICK g : Good(g, k)
      <3> HIDE DEF Good
      <3> QED BY <1>4
    <2> DEFINE g2 == [t \in SmallSets(n, k + 1) |->
                        IF t = {} THEN b ELSE op(g[t \ {Max(t)}], value[Max(t)])]
    <2> HIDE DEF op, b
    <2>2. \A t \in SmallSets(n, k) : g2[t] = g[t]
      BY <1>2, <2>1
    <2>3. \A t \in SmallSets(n, k + 1) : t # {} => g2[t \ {Max(t)}] = g[t \ {Max(t)}]
      BY <1>2, <2>2
    <2>4. Good(g2, k + 1)
      BY <2>3
    <2> HIDE DEF Good, g2
    <2> QED BY <2>4
  <1>5. Is(H)
    <2>1. Nat \subseteq T
      <3> HIDE DEF T
      <3> QED BY <1>3, <1>4, InductiveSet
    <2>2. PICK g : Good(g, n)
      <3> HIDE DEF Good
      <3> QED BY <1>1, <2>1
    <2>3. Is(g)
      <3> HIDE DEF op, b
      <3> QED BY <1>2, <2>2
    <2> HIDE DEF Is
    <2> QED BY <2>3
  <1>6. interpolate(value, values) = H[1..n]
    <2>1. interpolate(value, values) = H[DOMAIN value]
      BY DEF interpolate, FoldLeft, MapThenFoldSet
    <2> HIDE DEF H
    <2> QED BY <1>1, <2>1
  <1> HIDE DEF H
  <1>7. F[0] = b
    <2>1. 1..0 = {} /\ H[{}] = b
      BY <1>5
    <2> QED BY <1>1, <2>1
  <1>8. ASSUME NEW i \in 1..n PROVE F[i] = op(F[i - 1], value[i])
    <2>1. 1..i \in SUBSET DOMAIN value /\ 1..i # {}
      <3>1. i \in 1..i /\ 1..i \subseteq 1..n
        BY <1>1
      <3> QED BY <1>1, <3>1
    <2>2. Max(1..i) = i /\ (1..i) \ {Max(1..i)} = 1..(i - 1)
      BY MaxOfPrefix
    <2>3. H[1..i] = op(H[1..(i - 1)], value[i])
      <3> HIDE DEF op, b
      <3> QED BY <1>5, <2>1, <2>2
    <2>4. F[i] = H[1..i] /\ F[i - 1] = H[1..(i - 1)]
      BY <1>1
    <2> HIDE DEF op, b, F
    <2> QED BY <2>3, <2>4
  <1>9. F[n] = interpolate(value, values)
    BY <1>1, <1>6
  <1> HIDE DEF F
  <1>10. Interpolates(F, value, values)
    BY <1>7, <1>8, <1>9 DEF Interpolates, n
  <1> QED BY <1>10

(* What has been read after each line.                                     *)
Reads(F, lines) ==
    /\ F[0] = [ok |-> TRUE, values |-> <<>>] /\ F[Len(lines)] = parse_config(lines)
    /\ \A i \in 1..Len(lines) : F[i] = parse_line(F[i - 1], lines[i])

LEMMA ParsedPlaces ==
    ASSUME NEW lines, IsSequence(lines)
    PROVE  \E F : Reads(F, lines)
  <1> DEFINE n == Len(lines)
             op(r, x) == parse_line(r, x)
             b == [ok |-> TRUE, values |-> <<>>]
             Is(it) == it = [t \in SUBSET DOMAIN lines |->
                                IF t = {} THEN b ELSE op(it[t \ {Max(t)}], lines[Max(t)])]
             H == CHOOSE it : Is(it)
             Good(it, k) == it = [t \in SmallSets(n, k) |->
                                IF t = {} THEN b ELSE op(it[t \ {Max(t)}], lines[Max(t)])]
             T == {k \in Nat : \E it : Good(it, k)}
             F == [i \in 0..n |-> H[1..i]]
  <1>1. n \in Nat /\ DOMAIN lines = 1..n
    BY DEF IsSequence
  <1> HIDE DEF n
  <1>2. /\ \A t \in SmallSets(n, 0) : t = {}
        /\ SmallSets(n, n) = SUBSET DOMAIN lines
        /\ \A k \in Nat :
              /\ SmallSets(n, k) \subseteq SmallSets(n, k + 1)
              /\ \A t \in SmallSets(n, k + 1) : t # {} => t \ {Max(t)} \in SmallSets(n, k)
    BY <1>1, SmallSetsGrow
  <1>3. 0 \in T
    <2> DEFINE g == [t \in SmallSets(n, 0) |-> b]
    <2> HIDE DEF op, b
    <2>1. Good(g, 0)
      BY <1>2
    <2> HIDE DEF Good
    <2> QED BY <2>1
  <1>4. ASSUME NEW k \in Nat, k \in T PROVE k + 1 \in T
    <2>1. PICK g : Good(g, k)
      <3> HIDE DEF Good
      <3> QED BY <1>4
    <2> DEFINE g2 == [t \in SmallSets(n, k + 1) |->
                        IF t = {} THEN b ELSE op(g[t \ {Max(t)}], lines[Max(t)])]
    <2> HIDE DEF op, b
    <2>2. \A t \in SmallSets(n, k) : g2[t] = g[t]
      BY <1>2, <2>1
    <2>3. \A t \in SmallSets(n, k + 1) : t # {} => g2[t \ {Max(t)}] = g[t \ {Max(t)}]
      BY <1>2, <2>2
    <2>4. Good(g2, k + 1)
      BY <2>3
    <2> HIDE DEF Good, g2
    <2> QED BY <2>4
  <1>5. Is(H)
    <2>1. Nat \subseteq T
      <3> HIDE DEF T
      <3> QED BY <1>3, <1>4, InductiveSet
    <2>2. PICK g : Good(g, n)
      <3> HIDE DEF Good
      <3> QED BY <1>1, <2>1
    <2>3. Is(g)
      <3> HIDE DEF op, b
      <3> QED BY <1>2, <2>2
    <2> HIDE DEF Is
    <2> QED BY <2>3
  <1>6. parse_config(lines) = H[1..n]
    <2>1. parse_config(lines) = H[DOMAIN lines]
      BY DEF parse_config, FoldLeft, MapThenFoldSet
    <2> HIDE DEF H
    <2> QED BY <1>1, <2>1
  <1> HIDE DEF H
  <1>7. F[0] = b
    <2>1. 1..0 = {} /\ H[{}] = b
      BY <1>5
    <2> QED BY <1>1, <2>1
  <1>8. ASSUME NEW i \in 1..n PROVE F[i] = op(F[i - 1], lines[i])
    <2>1. 1..i \in SUBSET DOMAIN lines /\ 1..i # {}
      <3>1. i \in 1..i /\ 1..i \subseteq 1..n
        BY <1>1
      <3> QED BY <1>1, <3>1
    <2>2. Max(1..i) = i /\ (1..i) \ {Max(1..i)} = 1..(i - 1)
      BY MaxOfPrefix
    <2>3. H[1..i] = op(H[1..(i - 1)], lines[i])
      <3> HIDE DEF op, b
      <3> QED BY <1>5, <2>1, <2>2
    <2>4. F[i] = H[1..i] /\ F[i - 1] = H[1..(i - 1)]
      BY <1>1
    <2> HIDE DEF op, b, F
    <2> QED BY <2>3, <2>4
  <1>9. F[n] = parse_config(lines)
    BY <1>1, <1>6
  <1> HIDE DEF F
  <1>10. Reads(F, lines)
    BY <1>7, <1>8, <1>9 DEF Reads, n
  <1> QED BY <1>10

(* The options after each one that the command line sets.                  *)
Overriding(F, values, entries) ==
    /\ F[0] = values /\ F[Len(entries)] = Overridden(values, entries)
    /\ \A i \in 1..Len(entries) : F[i] = With(F[i - 1], entries[i].key, entries[i].value)

LEMMA OverriddenPlaces ==
    ASSUME NEW values, NEW entries, IsSequence(entries)
    PROVE  \E F : Overriding(F, values, entries)
  <1> DEFINE n == Len(entries)
             op(r, x) == With(r, x.key, x.value)
             b == values
             Is(it) == it = [t \in SUBSET DOMAIN entries |->
                                IF t = {} THEN b ELSE op(it[t \ {Max(t)}], entries[Max(t)])]
             H == CHOOSE it : Is(it)
             Good(it, k) == it = [t \in SmallSets(n, k) |->
                                IF t = {} THEN b ELSE op(it[t \ {Max(t)}], entries[Max(t)])]
             T == {k \in Nat : \E it : Good(it, k)}
             F == [i \in 0..n |-> H[1..i]]
  <1>1. n \in Nat /\ DOMAIN entries = 1..n
    BY DEF IsSequence
  <1> HIDE DEF n
  <1>2. /\ \A t \in SmallSets(n, 0) : t = {}
        /\ SmallSets(n, n) = SUBSET DOMAIN entries
        /\ \A k \in Nat :
              /\ SmallSets(n, k) \subseteq SmallSets(n, k + 1)
              /\ \A t \in SmallSets(n, k + 1) : t # {} => t \ {Max(t)} \in SmallSets(n, k)
    BY <1>1, SmallSetsGrow
  <1>3. 0 \in T
    <2> DEFINE g == [t \in SmallSets(n, 0) |-> b]
    <2> HIDE DEF op, b
    <2>1. Good(g, 0)
      BY <1>2
    <2> HIDE DEF Good
    <2> QED BY <2>1
  <1>4. ASSUME NEW k \in Nat, k \in T PROVE k + 1 \in T
    <2>1. PICK g : Good(g, k)
      <3> HIDE DEF Good
      <3> QED BY <1>4
    <2> DEFINE g2 == [t \in SmallSets(n, k + 1) |->
                        IF t = {} THEN b ELSE op(g[t \ {Max(t)}], entries[Max(t)])]
    <2> HIDE DEF op, b
    <2>2. \A t \in SmallSets(n, k) : g2[t] = g[t]
      BY <1>2, <2>1
    <2>3. \A t \in SmallSets(n, k + 1) : t # {} => g2[t \ {Max(t)}] = g[t \ {Max(t)}]
      BY <1>2, <2>2
    <2>4. Good(g2, k + 1)
      BY <2>3
    <2> HIDE DEF Good, g2
    <2> QED BY <2>4
  <1>5. Is(H)
    <2>1. Nat \subseteq T
      <3> HIDE DEF T
      <3> QED BY <1>3, <1>4, InductiveSet
    <2>2. PICK g : Good(g, n)
      <3> HIDE DEF Good
      <3> QED BY <1>1, <2>1
    <2>3. Is(g)
      <3> HIDE DEF op, b
      <3> QED BY <1>2, <2>2
    <2> HIDE DEF Is
    <2> QED BY <2>3
  <1>6. Overridden(values, entries) = H[1..n]
    <2>1. Overridden(values, entries) = H[DOMAIN entries]
      BY DEF Overridden, FoldLeft, MapThenFoldSet
    <2> HIDE DEF H
    <2> QED BY <1>1, <2>1
  <1> HIDE DEF H
  <1>7. F[0] = b
    <2>1. 1..0 = {} /\ H[{}] = b
      BY <1>5
    <2> QED BY <1>1, <2>1
  <1>8. ASSUME NEW i \in 1..n PROVE F[i] = op(F[i - 1], entries[i])
    <2>1. 1..i \in SUBSET DOMAIN entries /\ 1..i # {}
      <3>1. i \in 1..i /\ 1..i \subseteq 1..n
        BY <1>1
      <3> QED BY <1>1, <3>1
    <2>2. Max(1..i) = i /\ (1..i) \ {Max(1..i)} = 1..(i - 1)
      BY MaxOfPrefix
    <2>3. H[1..i] = op(H[1..(i - 1)], entries[i])
      <3> HIDE DEF op, b
      <3> QED BY <1>5, <2>1, <2>2
    <2>4. F[i] = H[1..i] /\ F[i - 1] = H[1..(i - 1)]
      BY <1>1
    <2> HIDE DEF op, b, F
    <2> QED BY <2>3, <2>4
  <1>9. F[n] = Overridden(values, entries)
    BY <1>1, <1>6
  <1> HIDE DEF F
  <1>10. Overriding(F, values, entries)
    BY <1>7, <1>8, <1>9 DEF Overriding, n
  <1> QED BY <1>10

(* The configuration after each option that a call sets.                   *)
Sets(F, st, entries) ==
    /\ F[0] = st /\ F[Len(entries)] = set_options(st, entries)
    /\ \A i \in 1..Len(entries) : F[i] = set_option(F[i - 1], entries[i])

LEMMA SetPlaces ==
    ASSUME NEW st, NEW entries, IsSequence(entries)
    PROVE  \E F : Sets(F, st, entries)
  <1> DEFINE n == Len(entries)
             op(r, x) == set_option(r, x)
             b == st
             Is(it) == it = [t \in SUBSET DOMAIN entries |->
                                IF t = {} THEN b ELSE op(it[t \ {Max(t)}], entries[Max(t)])]
             H == CHOOSE it : Is(it)
             Good(it, k) == it = [t \in SmallSets(n, k) |->
                                IF t = {} THEN b ELSE op(it[t \ {Max(t)}], entries[Max(t)])]
             T == {k \in Nat : \E it : Good(it, k)}
             F == [i \in 0..n |-> H[1..i]]
  <1>1. n \in Nat /\ DOMAIN entries = 1..n
    BY DEF IsSequence
  <1> HIDE DEF n
  <1>2. /\ \A t \in SmallSets(n, 0) : t = {}
        /\ SmallSets(n, n) = SUBSET DOMAIN entries
        /\ \A k \in Nat :
              /\ SmallSets(n, k) \subseteq SmallSets(n, k + 1)
              /\ \A t \in SmallSets(n, k + 1) : t # {} => t \ {Max(t)} \in SmallSets(n, k)
    BY <1>1, SmallSetsGrow
  <1>3. 0 \in T
    <2> DEFINE g == [t \in SmallSets(n, 0) |-> b]
    <2> HIDE DEF op, b
    <2>1. Good(g, 0)
      BY <1>2
    <2> HIDE DEF Good
    <2> QED BY <2>1
  <1>4. ASSUME NEW k \in Nat, k \in T PROVE k + 1 \in T
    <2>1. PICK g : Good(g, k)
      <3> HIDE DEF Good
      <3> QED BY <1>4
    <2> DEFINE g2 == [t \in SmallSets(n, k + 1) |->
                        IF t = {} THEN b ELSE op(g[t \ {Max(t)}], entries[Max(t)])]
    <2> HIDE DEF op, b
    <2>2. \A t \in SmallSets(n, k) : g2[t] = g[t]
      BY <1>2, <2>1
    <2>3. \A t \in SmallSets(n, k + 1) : t # {} => g2[t \ {Max(t)}] = g[t \ {Max(t)}]
      BY <1>2, <2>2
    <2>4. Good(g2, k + 1)
      BY <2>3
    <2> HIDE DEF Good, g2
    <2> QED BY <2>4
  <1>5. Is(H)
    <2>1. Nat \subseteq T
      <3> HIDE DEF T
      <3> QED BY <1>3, <1>4, InductiveSet
    <2>2. PICK g : Good(g, n)
      <3> HIDE DEF Good
      <3> QED BY <1>1, <2>1
    <2>3. Is(g)
      <3> HIDE DEF op, b
      <3> QED BY <1>2, <2>2
    <2> HIDE DEF Is
    <2> QED BY <2>3
  <1>6. set_options(st, entries) = H[1..n]
    <2>1. set_options(st, entries) = H[DOMAIN entries]
      BY DEF set_options, FoldLeft, MapThenFoldSet
    <2> HIDE DEF H
    <2> QED BY <1>1, <2>1
  <1> HIDE DEF H
  <1>7. F[0] = b
    <2>1. 1..0 = {} /\ H[{}] = b
      BY <1>5
    <2> QED BY <1>1, <2>1
  <1>8. ASSUME NEW i \in 1..n PROVE F[i] = op(F[i - 1], entries[i])
    <2>1. 1..i \in SUBSET DOMAIN entries /\ 1..i # {}
      <3>1. i \in 1..i /\ 1..i \subseteq 1..n
        BY <1>1
      <3> QED BY <1>1, <3>1
    <2>2. Max(1..i) = i /\ (1..i) \ {Max(1..i)} = 1..(i - 1)
      BY MaxOfPrefix
    <2>3. H[1..i] = op(H[1..(i - 1)], entries[i])
      <3> HIDE DEF op, b
      <3> QED BY <1>5, <2>1, <2>2
    <2>4. F[i] = H[1..i] /\ F[i - 1] = H[1..(i - 1)]
      BY <1>1
    <2> HIDE DEF op, b, F
    <2> QED BY <2>3, <2>4
  <1>9. F[n] = set_options(st, entries)
    BY <1>1, <1>6
  <1> HIDE DEF F
  <1>10. Sets(F, st, entries)
    BY <1>7, <1>8, <1>9 DEF Sets, n
  <1> QED BY <1>10

(* A value that has no references left, nor a ~ to stand for the home      *)
(* directory; options that have such values.                               *)
Resolved(value) ==
    /\ IsSequence(value) /\ \A i \in 1..Len(value) : value[i][1] # "ref"
    /\ value # <<>> => value[1] # Plain("~")

AllResolved(values) ==
    /\ DOMAIN values \subseteq Keys /\ values = [k \in DOMAIN values |-> values[k]]
    /\ \A k \in DOMAIN values : Resolved(values[k])

LEMMA ResolvedConcat ==
    ASSUME NEW v, NEW w, Resolved(v), Resolved(w)
    PROVE  Resolved(v \o w)
  <1>1. /\ IsSequence(v \o w) /\ Len(v \o w) = Len(v) + Len(w) /\ Len(v) \in Nat /\ Len(w) \in Nat
        /\ \A i \in 1..Len(v) : (v \o w)[i] = v[i]
        /\ \A i \in 1..Len(w) : (v \o w)[Len(v) + i] = w[i]
    BY ConcatElements DEF Resolved
  <1>2. ASSUME NEW i \in 1..Len(v \o w) PROVE (v \o w)[i][1] # "ref"
    <2>1. CASE i \in 1..Len(v)
      BY <1>1, <2>1 DEF Resolved
    <2>2. CASE i \notin 1..Len(v)
      <3>1. i - Len(v) \in 1..Len(w) /\ Len(v) + (i - Len(v)) = i
        BY <1>1, <2>2
      <3>2. (v \o w)[i] = w[i - Len(v)]
        BY <1>1, <3>1
      <3> QED BY <3>1, <3>2 DEF Resolved
    <2> QED BY <2>1, <2>2
  <1>3. CASE v = <<>>
    <2>1. v \o w = w
      BY <1>3, EmptyBefore DEF Resolved
    <2> QED BY <2>1
  <1>4. CASE v # <<>>
    <2>1. 1 \in 1..Len(v)
      BY <1>1, <1>4, EmptyOrNot DEF Resolved
    <2>2. (v \o w)[1] = v[1]
      BY <1>1, <2>1
    <2> QED BY <1>1, <1>2, <1>4, <2>2 DEF Resolved
  <1> QED BY <1>3, <1>4

LEMMA ResolvedAppend ==
    ASSUME NEW v, NEW piece, Resolved(v), piece[1] # "ref", v = <<>> => piece # Plain("~")
    PROVE  Resolved(Append(v, piece))
  <1>1. /\ IsSequence(Append(v, piece)) /\ Len(Append(v, piece)) = Len(v) + 1 /\ Len(v) \in Nat
        /\ \A i \in 1..Len(v) : Append(v, piece)[i] = v[i]
        /\ Append(v, piece)[Len(v) + 1] = piece
    BY AppendElements DEF Resolved
  <1>2. ASSUME NEW i \in 1..Len(Append(v, piece)) PROVE Append(v, piece)[i][1] # "ref"
    <2>1. i \in 1..Len(v) \/ i = Len(v) + 1
      BY <1>1
    <2> QED BY <1>1, <2>1 DEF Resolved
  <1>3. Append(v, piece)[1] # Plain("~")
    <2>1. CASE v = <<>>
      <3>1. Len(v) = 0
        BY <2>1, EmptyOrNot DEF Resolved
      <3> QED BY <1>1, <2>1, <3>1
    <2>2. CASE v # <<>>
      <3>1. 1 \in 1..Len(v)
        BY <1>1, <2>2, EmptyOrNot DEF Resolved
      <3> QED BY <1>1, <2>2, <3>1 DEF Resolved
    <2> QED BY <2>1, <2>2
  <1> QED BY <1>1, <1>2, <1>3 DEF Resolved

LEMMA ResolvedEmpty == Resolved(<<>>)
  BY TupleSequences DEF Resolved

LEMMA HomeResolved == Resolved(<<Plain(Home)>>)
  <1>1. IsSequence(<<Plain(Home)>>) /\ Len(<<Plain(Home)>>) = 1 /\ <<Plain(Home)>>[1] = Plain(Home)
    BY TupleSequences
  <1>2. Plain(Home)[1] = "word" /\ Plain(Home) # Plain("~")
    BY ConfigAssumption DEF Plain
  <1> QED BY <1>1, <1>2 DEF Resolved

(* A value that refers to nothing unknown comes out resolved.              *)
LEMMA InterpolatedIsResolved ==
    ASSUME NEW value, NEW values, IsSequence(value), AllResolved(values), ~Unknown(value, values)
    PROVE  Resolved(interpolate(value, values))
  <1>1. PICK F : Interpolates(F, value, values)
    BY InterpolatedPlaces
  <1>2. Len(value) \in Nat /\ DOMAIN value = 1..Len(value)
    BY DEF IsSequence
  <1> DEFINE T == {i \in 0..Len(value) : Resolved(F[i])}
  <1>3. 0 \in T
    BY <1>1, <1>2, ResolvedEmpty DEF Interpolates
  <1>4. ASSUME NEW i \in 1..Len(value), i - 1 \in T PROVE i \in T
    <2> DEFINE r == F[i - 1]
               piece == value[i]
    <2>1. Resolved(r) /\ F[i] = interpolate_piece(values, r, piece)
      BY <1>1, <1>4 DEF Interpolates
    <2> HIDE DEF r
    <2>2. CASE piece[1] = "ref"
      <3>1. piece[2] \in DOMAIN values
        BY <1>2, <2>2 DEF Unknown
      <3>2. F[i] = r \o values[piece[2]]
        <4>1. piece # Plain("~")
          BY <2>2 DEF Plain
        <4> QED BY <2>1, <2>2, <4>1 DEF interpolate_piece
      <3>3. Resolved(F[i])
        BY <2>1, <3>1, <3>2, ResolvedConcat DEF AllResolved
      <3> QED BY <1>2, <3>3
    <2>3. CASE piece[1] # "ref" /\ piece = Plain("~") /\ r = <<>>
      <3>1. F[i] = <<Plain(Home)>>
        BY <2>1, <2>3 DEF interpolate_piece
      <3>2. Resolved(F[i])
        BY <3>1, HomeResolved
      <3> QED BY <1>2, <3>2
    <2>4. CASE piece[1] # "ref" /\ ~(piece = Plain("~") /\ r = <<>>)
      <3>1. F[i] = Append(r, piece)
        BY <2>1, <2>4 DEF interpolate_piece
      <3>2. Resolved(F[i])
        BY <2>1, <2>4, <3>1, ResolvedAppend
      <3> QED BY <1>2, <3>2
    <2> QED BY <2>2, <2>3, <2>4
  <1>5. 0..Len(value) \subseteq T
    <2> HIDE DEF T
    <2> QED BY <1>2, <1>3, <1>4, InductiveInterval
  <1> QED BY <1>1, <1>2, <1>5 DEF Interpolates

(* What is resolved stays as it is.                                        *)
LEMMA ResolvedStays ==
    ASSUME NEW value, NEW values, Resolved(value)
    PROVE  interpolate(value, values) = value /\ ~Unknown(value, values)
  <1>1. PICK F : Interpolates(F, value, values)
    BY InterpolatedPlaces DEF Resolved
  <1>2. IsSequence(value) /\ Len(value) \in Nat /\ DOMAIN value = 1..Len(value)
    BY DEF Resolved, IsSequence
  <1> DEFINE n == Len(value)
             Is(i) == /\ IsSequence(F[i]) /\ Len(F[i]) = i
                      /\ \A j \in 1..i : F[i][j] = value[j]
             T == {i \in 0..n : Is(i)}
  <1>3. 0 \in T
    BY <1>1, <1>2, TupleSequences DEF Interpolates
  <1>4. ASSUME NEW i \in 1..n, i - 1 \in T PROVE i \in T
    <2> DEFINE r == F[i - 1]
               piece == value[i]
    <2>1. /\ IsSequence(r) /\ Len(r) = i - 1 /\ (\A j \in 1..(i - 1) : r[j] = value[j])
          /\ F[i] = interpolate_piece(values, r, piece)
      BY <1>1, <1>4 DEF Interpolates
    <2> HIDE DEF r
    <2>2. piece[1] # "ref"
      BY DEF Resolved
    <2>3. ~(piece = Plain("~") /\ r = <<>>)
      <3>1. ASSUME r = <<>> PROVE i = 1
        BY <2>1, <3>1, EmptyOrNot
      <3>2. value # <<>>
        BY <1>2, EmptyOrNot
      <3> QED BY <3>1, <3>2 DEF Resolved
    <2>4. F[i] = Append(r, piece)
      BY <2>1, <2>2, <2>3 DEF interpolate_piece
    <2>5. /\ IsSequence(F[i]) /\ Len(F[i]) = Len(r) + 1
          /\ (\A j \in 1..Len(r) : F[i][j] = r[j]) /\ F[i][Len(r) + 1] = piece
      BY <2>1, <2>4, AppendElements
    <2>6. \A j \in 1..i : j \in 1..(i - 1) \/ j = i
      BY <1>2
    <2>7. \A j \in 1..i : F[i][j] = value[j]
      BY <2>1, <2>5, <2>6
    <2> QED BY <1>2, <2>1, <2>5, <2>7
  <1>5. n \in T
    <2> HIDE DEF T, n
    <2>1. 0..n \subseteq T
      BY <1>2, <1>3, <1>4, InductiveInterval DEF n
    <2> QED BY <1>2, <2>1 DEF n
  <1>6. F[n] = value
    BY <1>2, <1>5, SameElements
  <1>7. ~Unknown(value, values)
    BY <1>2 DEF Unknown, Resolved
  <1> QED BY <1>1, <1>6, <1>7 DEF Interpolates

LEMMA WithResolved ==
    ASSUME NEW values, AllResolved(values), NEW key \in Keys, NEW value, Resolved(value)
    PROVE  AllResolved(With(values, key, value))
  <1>1. PICK w : w = With(values, key, value)
    OBVIOUS
  <1>2. /\ DOMAIN w = DOMAIN values \union {key} /\ w = [k \in DOMAIN w |-> w[k]]
        /\ w[key] = value /\ \A k \in DOMAIN values : k # key => w[k] = values[k]
    BY <1>1 DEF With
  <1>3. AllResolved(w)
    BY <1>2 DEF AllResolved
  <1> QED BY <1>1, <1>3

(* A file of lines, of which some may not be options.                      *)
IsFile(content) ==
    /\ IsSequence(content)
    /\ \A i \in 1..Len(content) :
          content[i].key = Garbage \/ (content[i].key \in Keys /\ IsSequence(content[i].value))

(* Whatever a file holds, what was read of it is resolved.                 *)
LEMMA ParsedIsResolved ==
    ASSUME NEW content, IsFile(content)
    PROVE  AllResolved(parse_config(content).values)
  <1>1. PICK F : Reads(F, content)
    BY ParsedPlaces DEF IsFile
  <1>2. Len(content) \in Nat
    BY DEF IsFile, IsSequence
  <1> DEFINE Is(st) == /\ st = [x \in DOMAIN st |-> st[x]] /\ {"ok", "values"} \subseteq DOMAIN st
                       /\ AllResolved(st.values)
             T == {i \in 0..Len(content) : Is(F[i])}
  <1>3. 0 \in T
    <2>1. F[0] = [ok |-> TRUE, values |-> <<>>]
      BY <1>1 DEF Reads
    <2>2. AllResolved(<<>>)
      BY DEF AllResolved
    <2>3. /\ F[0].values = <<>> /\ DOMAIN F[0] = {"ok", "values"}
          /\ F[0] = [x \in DOMAIN F[0] |-> F[0][x]]
      BY <2>1
    <2> QED BY <1>2, <2>2, <2>3
  <1>4. ASSUME NEW i \in 1..Len(content), i - 1 \in T PROVE i \in T
    <2> DEFINE line == content[i]
    <2>1. PICK st : st = F[i - 1]
      OBVIOUS
    <2>2. Is(st) /\ F[i] = parse_line(st, line)
      BY <1>1, <1>4, <2>1 DEF Reads
    <2>3. CASE ~st.ok \/ line.key = Garbage \/ Unknown(line.value, st.values)
      <3>1. F[i] = [st EXCEPT !.ok = FALSE]
        BY <2>2, <2>3 DEF parse_line
      <3> HIDE DEF line
      <3>2. Is(F[i])
        BY <2>2, <3>1
      <3>9. i \in 0..Len(content)
        BY <1>2
      <3> HIDE DEF Is
      <3> QED BY ONLY <3>2, <3>9 DEF T
    <2>4. CASE ~(~st.ok \/ line.key = Garbage \/ Unknown(line.value, st.values))
      <3> DEFINE w == With(st.values, line.key, interpolate(line.value, st.values))
      <3>1. F[i] = [st EXCEPT !.values = w]
        BY <2>2, <2>4 DEF parse_line
      <3>2. AllResolved(w)
        BY <2>2, <2>4, InterpolatedIsResolved, WithResolved DEF IsFile
      <3> HIDE DEF w, line
      <3>3. Is(F[i])
        BY <2>2, <3>1, <3>2
      <3>9. i \in 0..Len(content)
        BY <1>2
      <3> HIDE DEF Is
      <3> QED BY ONLY <3>3, <3>9 DEF T
    <2> QED BY <2>3, <2>4
  <1>5. 0..Len(content) \subseteq T
    <2> HIDE DEF T
    <2> QED BY <1>2, <1>3, <1>4, InductiveInterval
  <1>6. Is(F[Len(content)])
    BY <1>2, <1>5
  <1> QED BY <1>1, <1>6 DEF Reads

(* What is saved is read back as it was.                                   *)
LEMMA SavedEntries ==
    ASSUME NEW values, AllResolved(values)
    PROVE  /\ IsFile(Saved(values))
           /\ \A i \in 1..Len(Saved(values)) :
                 /\ Saved(values)[i].key \in DOMAIN values
                 /\ Saved(values)[i].value = values[Saved(values)[i].key]
           /\ \A k \in DOMAIN values : \E i \in 1..Len(Saved(values)) : Saved(values)[i].key = k
           /\ \A i, j \in 1..Len(Saved(values)) :
                 Saved(values)[i].key = Saved(values)[j].key => i = j
  <1> DEFINE keys == Selected(KeyOrder, DOMAIN values)
             lines == Saved(values)
  <1>1. KeyOrder \in Seq(Keys)
    BY ConfigAssumption, ListIsSequence DEF IsSequence, Keys
  <1>2. keys \in Seq(Keys) /\ Range(keys) = DOMAIN values
    <2>1. keys \in Seq(Keys) /\ Range(keys) = Range(KeyOrder) \intersect DOMAIN values
      BY <1>1, SelectedElements
    <2> HIDE DEF keys
    <2> QED BY <2>1 DEF Keys, AllResolved
  <1>3. PICK at : PlacesOf(at, KeyOrder, DOMAIN values, keys)
    BY <1>1, SelectedOrder
  <1>4. \A i, j \in 1..Len(keys) : keys[i] = keys[j] => i = j
    <2> SUFFICES ASSUME NEW i \in 1..Len(keys), NEW j \in 1..Len(keys), keys[i] = keys[j]
                 PROVE  i = j
      OBVIOUS
    <2> HIDE DEF keys
    <2>1. /\ at[i] \in 1..Len(KeyOrder) /\ at[j] \in 1..Len(KeyOrder)
          /\ KeyOrder[at[i]] = KeyOrder[at[j]]
      BY <1>3 DEF PlacesOf
    <2>2. at[i] = at[j]
      BY <1>1, <2>1, ConfigAssumption DEF IsInjective
    <2>3. ~(at[i] < at[j]) /\ ~(at[j] < at[i])
      BY <2>1, <2>2
    <2>4. ~(i < j) /\ ~(j < i)
      BY <1>3, <2>3 DEF PlacesOf
    <2>5. i \in Int /\ j \in Int
      OBVIOUS
    <2> QED BY <2>4, <2>5
  <1>5. PICK n \in Nat : n = Len(keys) /\ DOMAIN keys = 1..n
    BY <1>2
  <1>6. lines = [i \in 1..n |-> Line(keys[i], values[keys[i]])]
    BY <1>5 DEF Saved
  <1> HIDE DEF keys, lines
  <1>7. IsSequence(lines) /\ Len(lines) = n /\ DOMAIN lines = 1..n
    <2>1. lines \in [1..n -> Range(lines)]
      BY <1>6 DEF Range
    <2> QED BY <1>6, <2>1 DEF IsSequence
  <1>8. ASSUME NEW i \in 1..n
        PROVE  /\ lines[i].key = keys[i] /\ keys[i] \in DOMAIN values
               /\ lines[i].value = values[keys[i]]
    BY <1>2, <1>5, <1>6 DEF Line, Range
  <1>9. IsFile(lines)
    BY <1>7, <1>8 DEF IsFile, AllResolved, Resolved
  <1>10. \A i \in 1..Len(lines) :
            lines[i].key \in DOMAIN values /\ lines[i].value = values[lines[i].key]
    BY <1>7, <1>8
  <1>11. ASSUME NEW k \in DOMAIN values PROVE \E i \in 1..Len(lines) : lines[i].key = k
    <2>1. PICK i \in 1..n : keys[i] = k
      BY <1>2, <1>5 DEF Range
    <2> QED BY <1>7, <1>8, <2>1
  <1>12. \A i, j \in 1..Len(lines) : lines[i].key = lines[j].key => i = j
    BY <1>4, <1>5, <1>7, <1>8
  <1> QED BY <1>9, <1>10, <1>11, <1>12 DEF lines

LEMMA SavedIsReadBack ==
    ASSUME NEW values, AllResolved(values)
    PROVE  /\ IsFile(Saved(values)) /\ parse_config(Saved(values)).ok
           /\ parse_config(Saved(values)).values = values
  <1>1. PICK lines : lines = Saved(values)
    OBVIOUS
  <1>2. /\ IsFile(lines)
        /\ \A i \in 1..Len(lines) :
              lines[i].key \in DOMAIN values /\ lines[i].value = values[lines[i].key]
        /\ \A k \in DOMAIN values : \E i \in 1..Len(lines) : lines[i].key = k
        /\ \A i, j \in 1..Len(lines) : lines[i].key = lines[j].key => i = j
    BY <1>1, SavedEntries
  <1>3. PICK F : Reads(F, lines)
    BY <1>2, ParsedPlaces DEF IsFile
  <1>4. PICK n \in Nat : n = Len(lines)
    BY <1>2 DEF IsFile, IsSequence
  <1> DEFINE Is(st, i) ==
                 /\ st = [x \in DOMAIN st |-> st[x]] /\ {"ok", "values"} \subseteq DOMAIN st
                 /\ st.ok /\ st.values = [k \in DOMAIN st.values |-> st.values[k]]
                 /\ \A k : k \in DOMAIN st.values <=> \E j \in 1..i : lines[j].key = k
                 /\ \A k \in DOMAIN st.values : st.values[k] = values[k]
             T == {i \in 0..n : Is(F[i], i)}
  <1>5. 0 \in T
    <2>1. F[0] = [ok |-> TRUE, values |-> <<>>]
      BY <1>3 DEF Reads
    <2>2. /\ F[0].values = <<>> /\ DOMAIN F[0] = {"ok", "values"} /\ F[0].ok
          /\ F[0] = [x \in DOMAIN F[0] |-> F[0][x]]
      BY <2>1
    <2>3. 1..0 = {} /\ DOMAIN <<>> = {} /\ <<>> = [k \in DOMAIN <<>> |-> <<>>[k]]
      OBVIOUS
    <2>4. Is(F[0], 0)
      BY <2>2, <2>3
    <2> HIDE DEF Is
    <2> QED BY <2>4
  <1>6. ASSUME NEW i \in 1..n, i - 1 \in T PROVE i \in T
    <2> DEFINE line == lines[i]
    <2>1. PICK st : st = F[i - 1]
      OBVIOUS
    <2>2. Is(st, i - 1) /\ F[i] = parse_line(st, line)
      BY <1>3, <1>4, <1>6, <2>1 DEF Reads
    <2>3. /\ line.key \in DOMAIN values /\ line.key \in Keys /\ line.key # Garbage
          /\ line.value = values[line.key] /\ Resolved(line.value)
      BY <1>2, <1>4, ConfigAssumption DEF AllResolved
    <2>4. interpolate(line.value, st.values) = line.value /\ ~Unknown(line.value, st.values)
      BY <2>3, ResolvedStays
    <2>5. F[i] = [st EXCEPT !.values = With(st.values, line.key, line.value)]
      BY <2>2, <2>3, <2>4 DEF parse_line
    <2>6. PICK w : w = With(st.values, line.key, line.value)
      OBVIOUS
    <2>7. /\ DOMAIN w = DOMAIN st.values \union {line.key} /\ w = [k \in DOMAIN w |-> w[k]]
          /\ w[line.key] = line.value
          /\ \A k \in DOMAIN st.values : k # line.key => w[k] = st.values[k]
      BY <2>6 DEF With
    <2>8. /\ F[i] = [x \in DOMAIN F[i] |-> F[i][x]] /\ {"ok", "values"} \subseteq DOMAIN F[i]
          /\ F[i].ok = st.ok /\ F[i].values = w
      <3>1. F[i] = [st EXCEPT !.values = w]
        BY <2>5, <2>6
      <3>2. st = [x \in DOMAIN st |-> st[x]] /\ "ok" \in DOMAIN st /\ "values" \in DOMAIN st
        BY <2>2
      <3>3. PICK q : q = F[i]
        OBVIOUS
      <3>4. /\ q = [x \in DOMAIN q |-> q[x]] /\ "ok" \in DOMAIN q /\ "values" \in DOMAIN q
            /\ q.ok = st.ok /\ q.values = w
        BY ONLY <3>1, <3>2, <3>3
      <3> QED BY ONLY <3>3, <3>4
    <2>9. \A k \in DOMAIN w : w[k] = values[k]
      BY <2>2, <2>3, <2>7
    <2>10. \A k : k \in DOMAIN w <=> \E j \in 1..i : lines[j].key = k
      <3>1. \A j \in 1..i : j \in 1..(i - 1) \/ j = i
        OBVIOUS
      <3>2. i \in 1..i /\ \A j \in 1..(i - 1) : j \in 1..i
        OBVIOUS
      <3> QED BY <2>2, <2>7, <3>1, <3>2
    <2>11. Is(F[i], i)
      BY <2>2, <2>7, <2>8, <2>9, <2>10
    <2> HIDE DEF Is
    <2> QED BY <1>4, <2>11
  <1>7. n \in T
    <2> HIDE DEF T
    <2>1. 0..n \subseteq T
      BY <1>5, <1>6, InductiveInterval
    <2> QED BY <2>1
  <1>8. PICK got : got = F[n].values
    OBVIOUS
  <1>9. /\ got = [k \in DOMAIN got |-> got[k]] /\ F[n].ok
        /\ \A k : k \in DOMAIN got <=> \E j \in 1..n : lines[j].key = k
        /\ \A k \in DOMAIN got : got[k] = values[k]
    BY <1>7, <1>8
  <1>10. DOMAIN got = DOMAIN values
    <2>1. ASSUME NEW k \in DOMAIN got PROVE k \in DOMAIN values
      BY <1>2, <1>4, <1>9, <2>1
    <2>2. ASSUME NEW k \in DOMAIN values PROVE k \in DOMAIN got
      BY <1>2, <1>4, <1>9, <2>2
    <2> QED BY <2>1, <2>2
  <1>11. got = values
    BY <1>9, <1>10 DEF AllResolved
  <1>12. parse_config(lines) = F[n]
    BY <1>3, <1>4 DEF Reads
  <1> QED BY <1>1, <1>2, <1>8, <1>9, <1>11, <1>12

(* The options of the command line are taken as they are: one that refers  *)
(* to another, or that begins with ~, would be saved so, and be read back  *)
(* as something else.                                                      *)
OverridesAreResolved ==
    \A entries \in Overrides : \A i \in DOMAIN entries : Resolved(entries[i].value)

LEMMA EntriesAre ==
    ASSUME NEW entries \in Edits \union Overrides
    PROVE  /\ IsSequence(entries) /\ Len(entries) \in Nat /\ DOMAIN entries = 1..Len(entries)
           /\ \A i \in 1..Len(entries) : entries[i].key \in Keys /\ IsSequence(entries[i].value)
  <1>1. IsSequence(entries)
    BY ConfigAssumption, ListIsSequence
  <1>2. Len(entries) \in Nat /\ DOMAIN entries = 1..Len(entries)
    BY <1>1 DEF IsSequence
  <1>3. \A i \in 1..Len(entries) : entries[i].key \in Keys /\ IsSequence(entries[i].value)
    BY <1>2, ConfigAssumption, ListIsSequence DEF IsEntry
  <1> QED BY <1>1, <1>2, <1>3

LEMMA LoadedIsResolved ==
    ASSUME OverridesAreResolved, NEW content, IsFile(content), NEW entries \in Overrides
    PROVE  /\ AllResolved(load_config(content, entries))
           /\ entries = <<>> => load_config(content, entries) = parse_config(content).values
  <1> DEFINE values == parse_config(content).values
  <1>1. AllResolved(values)
    BY ParsedIsResolved
  <1>2. /\ IsSequence(entries) /\ Len(entries) \in Nat /\ DOMAIN entries = 1..Len(entries)
        /\ \A i \in 1..Len(entries) : entries[i].key \in Keys
    BY EntriesAre
  <1> HIDE DEF values
  <1>3. PICK F : Overriding(F, values, entries)
    BY <1>2, OverriddenPlaces
  <1> DEFINE T == {i \in 0..Len(entries) : AllResolved(F[i])}
  <1>4. 0 \in T
    BY <1>1, <1>2, <1>3 DEF Overriding
  <1>5. ASSUME NEW i \in 1..Len(entries), i - 1 \in T PROVE i \in T
    <2>1. F[i] = With(F[i - 1], entries[i].key, entries[i].value) /\ AllResolved(F[i - 1])
      BY <1>3, <1>5 DEF Overriding
    <2>2. Resolved(entries[i].value) /\ entries[i].key \in Keys
      BY <1>2 DEF OverridesAreResolved
    <2>3. AllResolved(F[i])
      BY <2>1, <2>2, WithResolved
    <2> QED BY <1>2, <2>3
  <1>6. 0..Len(entries) \subseteq T
    <2> HIDE DEF T
    <2> QED BY <1>2, <1>4, <1>5, InductiveInterval
  <1>7. load_config(content, entries) = F[Len(entries)]
    BY <1>3 DEF Overriding, load_config, values
  <1>8. AllResolved(load_config(content, entries))
    BY <1>2, <1>6, <1>7
  <1>9. entries = <<>> => F[Len(entries)] = values
    BY <1>2, <1>3, EmptyOrNot DEF Overriding
  <1> QED BY <1>7, <1>8, <1>9 DEF values

(* The fields that numbers are read into are those of the options, but     *)
(* where an option is none.                                                *)
FieldsAreNumbers(values, made) ==
    /\ made = [f \in DOMAIN made |-> made[f]]
    /\ {"download_rate", "disk_space", "servers"} \subseteq DOMAIN made
    /\ Number(values, <<"DownloadRate">>, made.download_rate) = made.download_rate
    /\ Number(values, <<"DiskSpace">>, made.disk_space) = made.disk_space

LEMMA MadeOfOptions ==
    ASSUME NEW values
    PROVE  /\ FieldsAreNumbers(values, from_raw(values))
           /\ from_raw(values).servers = extract_servers(values)
  <1>1. PICK made : made = from_raw(values)
    OBVIOUS
  <1>2. /\ made = [f \in DOMAIN made |-> made[f]]
        /\ {"download_rate", "disk_space", "servers"} \subseteq DOMAIN made
        /\ made.download_rate = Number(values, <<"DownloadRate">>, 0)
        /\ made.disk_space = Number(values, <<"DiskSpace">>, 250)
        /\ made.servers = extract_servers(values)
    BY <1>1 DEF from_raw
  <1>3. \A key, n : Number(values, key, Number(values, key, n)) = Number(values, key, n)
    BY DEF Number
  <1>4. FieldsAreNumbers(values, made)
    BY <1>2, <1>3 DEF FieldsAreNumbers
  <1> QED BY <1>1, <1>2, <1>4

(* What a call has made of the configuration.                              *)
IsConfig(st) ==
    /\ st = [x \in DOMAIN st |-> st[x]] /\ "raw" \in DOMAIN st /\ "fields" \in DOMAIN st
    /\ AllResolved(st.raw) /\ FieldsAreNumbers(st.raw, st.fields)

LEMMA SetOptionKeeps ==
    ASSUME NEW st, IsConfig(st), NEW entry, entry.key \in Keys, IsSequence(entry.value)
    PROVE  IsConfig(set_option(st, entry))
  <1>1. CASE Unknown(entry.value, st.raw)
    <2>1. set_option(st, entry) = st
      BY <1>1 DEF set_option
    <2> QED BY <2>1
  <1>2. CASE ~Unknown(entry.value, st.raw)
    <2>1. PICK value : value = interpolate(entry.value, st.raw)
      OBVIOUS
    <2>2. PICK key : key = entry.key
      OBVIOUS
    <2>3. PICK w : w = With(st.raw, key, value)
      OBVIOUS
    <2>4. AllResolved(w)
      BY <1>2, <2>1, <2>2, <2>3, InterpolatedIsResolved, WithResolved DEF IsConfig
    <2>5. /\ key \in DOMAIN w /\ w[key] = value
          /\ \A k : k # key => (k \in DOMAIN w <=> k \in DOMAIN st.raw)
          /\ \A k \in DOMAIN st.raw : k # key => w[k] = st.raw[k]
      BY <2>3 DEF With
    <2>6. \A k, n : k # key => Number(w, k, n) = Number(st.raw, k, n)
      BY <2>5 DEF Number
    <2>7. \A n : /\ IsNumber(value) => Number(w, key, n) = NumberOf[value[1][2]]
                 /\ ~IsNumber(value) => Number(w, key, n) = n
      BY <2>5 DEF Number
    <2>8. <<"DownloadRate">> # <<"DiskSpace">>
      OBVIOUS
    <2>9. PICK kept : kept = [st EXCEPT !.raw = w]
      OBVIOUS
    <2>10. /\ kept = [x \in DOMAIN kept |-> kept[x]]
           /\ "raw" \in DOMAIN kept /\ "fields" \in DOMAIN kept
           /\ kept.raw = w /\ kept.fields = st.fields
      BY <2>9 DEF IsConfig
    <2>11. /\ st.fields = [f \in DOMAIN st.fields |-> st.fields[f]]
           /\ {"download_rate", "disk_space", "servers"} \subseteq DOMAIN st.fields
           /\ Number(st.raw, <<"DownloadRate">>, st.fields.download_rate) = st.fields.download_rate
           /\ Number(st.raw, <<"DiskSpace">>, st.fields.disk_space) = st.fields.disk_space
      BY DEF IsConfig, FieldsAreNumbers
    <2>12. CASE key = <<"DownloadRate">> /\ IsNumber(value)
      <3>1. set_option(st, entry) = [kept EXCEPT !.fields.download_rate = NumberOf[value[1][2]]]
        BY <1>2, <2>1, <2>2, <2>3, <2>8, <2>9, <2>12 DEF set_option
      <3>2. PICK made : made = [st.fields EXCEPT !.download_rate = NumberOf[value[1][2]]]
        OBVIOUS
      <3>3. FieldsAreNumbers(w, made)
        <4>1. /\ made = [f \in DOMAIN made |-> made[f]]
              /\ {"download_rate", "disk_space", "servers"} \subseteq DOMAIN made
              /\ made.download_rate = NumberOf[value[1][2]]
              /\ made.disk_space = st.fields.disk_space
          BY ONLY <2>11, <3>2
        <4> QED BY <2>6, <2>7, <2>8, <2>11, <2>12, <4>1 DEF FieldsAreNumbers
      <3>4. PICK q : q = [kept EXCEPT !.fields = made]
        OBVIOUS
      <3>5. set_option(st, entry) = q
        BY <2>10, <3>1, <3>2, <3>4
      <3>6. IsConfig(q)
        BY <2>4, <2>10, <3>3, <3>4 DEF IsConfig
      <3> QED BY <3>5, <3>6
    <2>13. CASE key = <<"DiskSpace">> /\ IsNumber(value)
      <3>1. set_option(st, entry) = [kept EXCEPT !.fields.disk_space = NumberOf[value[1][2]]]
        BY <1>2, <2>1, <2>2, <2>3, <2>8, <2>9, <2>13 DEF set_option
      <3>2. PICK made : made = [st.fields EXCEPT !.disk_space = NumberOf[value[1][2]]]
        OBVIOUS
      <3>3. FieldsAreNumbers(w, made)
        <4>1. /\ made = [f \in DOMAIN made |-> made[f]]
              /\ {"download_rate", "disk_space", "servers"} \subseteq DOMAIN made
              /\ made.disk_space = NumberOf[value[1][2]]
              /\ made.download_rate = st.fields.download_rate
          BY ONLY <2>11, <3>2
        <4> QED BY <2>6, <2>7, <2>8, <2>11, <2>13, <4>1 DEF FieldsAreNumbers
      <3>4. PICK q : q = [kept EXCEPT !.fields = made]
        OBVIOUS
      <3>5. set_option(st, entry) = q
        BY <2>10, <3>1, <3>2, <3>4
      <3>6. IsConfig(q)
        BY <2>4, <2>10, <3>3, <3>4 DEF IsConfig
      <3> QED BY <3>5, <3>6
    <2>14. CASE /\ ~(key = <<"DownloadRate">> /\ IsNumber(value))
                /\ ~(key = <<"DiskSpace">> /\ IsNumber(value))
      <3>1. set_option(st, entry) = kept
        BY <1>2, <2>1, <2>2, <2>3, <2>9, <2>14 DEF set_option
      <3>2. \A k \in {<<"DownloadRate">>, <<"DiskSpace">>} :
               \A n : Number(st.raw, k, n) = n => Number(w, k, n) = n
        BY <2>6, <2>7, <2>14
      <3>3. FieldsAreNumbers(w, st.fields)
        BY <2>11, <3>2 DEF FieldsAreNumbers
      <3>4. IsConfig(kept)
        BY <2>4, <2>10, <3>3 DEF IsConfig
      <3> QED BY <3>1, <3>4
    <2> QED BY <2>12, <2>13, <2>14
  <1> QED BY <1>1, <1>2

LEMMA SetOptionsKeep ==
    ASSUME NEW st, IsConfig(st), NEW entries \in Edits
    PROVE  IsConfig(set_options(st, entries))
  <1>1. /\ IsSequence(entries) /\ Len(entries) \in Nat
        /\ \A i \in 1..Len(entries) : entries[i].key \in Keys /\ IsSequence(entries[i].value)
    BY EntriesAre
  <1>2. PICK F : Sets(F, st, entries)
    BY <1>1, SetPlaces
  <1> DEFINE T == {i \in 0..Len(entries) : IsConfig(F[i])}
  <1>3. 0 \in T
    BY <1>1, <1>2 DEF Sets
  <1>4. ASSUME NEW i \in 1..Len(entries), i - 1 \in T PROVE i \in T
    <2>1. F[i] = set_option(F[i - 1], entries[i]) /\ IsConfig(F[i - 1])
      BY <1>2, <1>4 DEF Sets
    <2>2. IsConfig(F[i])
      BY <1>1, <2>1, SetOptionKeeps
    <2> QED BY <1>1, <2>2
  <1>5. 0..Len(entries) \subseteq T
    <2> HIDE DEF T
    <2> QED BY <1>1, <1>3, <1>4, InductiveInterval
  <1> QED BY <1>1, <1>2, <1>5 DEF Sets

LEMMA RefreshedServers ==
    ASSUME NEW st, IsConfig(st)
    PROVE  /\ IsConfig(refresh_servers(st)) /\ refresh_servers(st).raw = st.raw
           /\ refresh_servers(st).fields.servers = extract_servers(st.raw)
  <1>1. PICK made : made = [st.fields EXCEPT !.servers = extract_servers(st.raw)]
    OBVIOUS
  <1>2. PICK q : q = [st EXCEPT !.fields = made]
    OBVIOUS
  <1>3. refresh_servers(st) = q
    BY <1>1, <1>2 DEF refresh_servers, IsConfig
  <1>4. /\ made = [f \in DOMAIN made |-> made[f]]
        /\ {"download_rate", "disk_space", "servers"} \subseteq DOMAIN made
        /\ made.download_rate = st.fields.download_rate /\ made.disk_space = st.fields.disk_space
        /\ made.servers = extract_servers(st.raw)
    BY <1>1 DEF IsConfig, FieldsAreNumbers
  <1>5. FieldsAreNumbers(st.raw, made)
    BY <1>4 DEF IsConfig, FieldsAreNumbers
  <1>6. /\ q = [x \in DOMAIN q |-> q[x]] /\ "raw" \in DOMAIN q /\ "fields" \in DOMAIN q
        /\ q.raw = st.raw /\ q.fields = made
    BY <1>2 DEF IsConfig
  <1>7. IsConfig(q)
    BY <1>5, <1>6 DEF IsConfig
  <1> QED BY <1>3, <1>4, <1>6, <1>7

(* ConfigInv: what is in the file, in a reload's hands and in memory, and  *)
(* that a reload holds only what can be read.                              *)
ConfigInv ==
    /\ IsFile(file) /\ AllResolved(raw) /\ FieldsAreNumbers(raw, fields)
    /\ DOMAIN caller = Callers
    /\ \A c \in Callers : /\ DOMAIN caller[c] = {"state", "content"} /\ IsFile(caller[c].content)
                          /\ caller[c].state = "reloads" => parse_config(caller[c].content).ok
    /\ ConfigReloadsAsSaved

LEMMA NumbersAgree ==
    ASSUME NEW values, NEW made, FieldsAreNumbers(values, made)
    PROVE  \A f \in DOMAIN NumberFields : Number(values, NumberFields[f], made[f]) = made[f]
  <1>1. /\ DOMAIN NumberFields = {"download_rate", "disk_space"}
        /\ NumberFields["download_rate"] = <<"DownloadRate">>
        /\ NumberFields["disk_space"] = <<"DiskSpace">>
    BY DEF NumberFields
  <1> QED BY <1>1 DEF FieldsAreNumbers

(* The callers after one of them has got to another state.                 *)
LEMMA CallersGoOn ==
    ASSUME ConfigInv, NEW c \in Callers, NEW state, state # "reloads",
           \/ caller' = [caller EXCEPT ![c].state = state]
           \/ caller' = [caller EXCEPT ![c] = [state |-> state, content |-> <<>>]]
    PROVE  /\ DOMAIN caller' = Callers
           /\ \A d \in Callers :
                 /\ DOMAIN caller'[d] = {"state", "content"} /\ IsFile(caller'[d].content)
                 /\ caller'[d].state = "reloads" => parse_config(caller'[d].content).ok
  <1>1. IsFile(<<>>)
    BY TupleSequences DEF IsFile
  <1>2. ASSUME caller' = [caller EXCEPT ![c].state = state]
        PROVE  /\ DOMAIN caller' = Callers /\ DOMAIN caller'[c] = {"state", "content"}
               /\ caller'[c].state = state /\ caller'[c].content = caller[c].content
               /\ \A d \in Callers : d # c => caller'[d] = caller[d]
    BY <1>2 DEF ConfigInv
  <1>3. ASSUME caller' = [caller EXCEPT ![c] = [state |-> state, content |-> <<>>]]
        PROVE  /\ DOMAIN caller' = Callers /\ DOMAIN caller'[c] = {"state", "content"}
               /\ caller'[c].state = state /\ caller'[c].content = <<>>
               /\ \A d \in Callers : d # c => caller'[d] = caller[d]
    BY <1>3 DEF ConfigInv
  <1> QED BY <1>1, <1>2, <1>3 DEF ConfigInv

LEMMA SettingKeeps ==
    ASSUME ConfigInv, NEW c \in Callers, NEW entries \in Edits, NEW too \in BOOLEAN,
           SetOptions(c, entries, too)
    PROVE  ConfigInv'
  <1>1. PICK st : st = [raw |-> raw, fields |-> fields]
    OBVIOUS
  <1>2. IsConfig(st) /\ st.raw = raw
    BY <1>1 DEF IsConfig, ConfigInv
  <1>3. PICK done : done = set_options(st, entries)
    OBVIOUS
  <1>4. IsConfig(done)
    BY <1>2, <1>3, SetOptionsKeep
  <1>5. PICK after : after = IF too THEN refresh_servers(done) ELSE done
    OBVIOUS
  <1>6. IsConfig(after) /\ (too => after.fields.servers = extract_servers(after.raw))
    BY <1>4, <1>5, RefreshedServers
  <1>7. /\ raw' = after.raw /\ fields' = after.fields /\ file' = <<>> /\ lock' = c
        /\ fresh' = (IF too THEN "servers" ELSE "none")
        /\ caller' = [caller EXCEPT ![c].state = IF too THEN "edits" ELSE "saves"]
    BY <1>1, <1>3, <1>5 DEF SetOptions
  <1>8. IsFile(file') /\ lock' # Nobody
    BY <1>7, TupleSequences, ConfigAssumption DEF IsFile
  <1>9. AllResolved(raw') /\ FieldsAreNumbers(raw', fields')
    BY <1>6, <1>7 DEF IsConfig
  <1>10. fresh' # "all" /\ (fresh' # "none" => fields'.servers = extract_servers(raw'))
    BY <1>6, <1>7
  <1>11. PICK state : state = IF too THEN "edits" ELSE "saves"
    OBVIOUS
  <1>12. state # "reloads" /\ caller' = [caller EXCEPT ![c].state = state]
    BY <1>7, <1>11
  <1>13. /\ DOMAIN caller' = Callers
         /\ \A d \in Callers :
               /\ DOMAIN caller'[d] = {"state", "content"} /\ IsFile(caller'[d].content)
               /\ caller'[d].state = "reloads" => parse_config(caller'[d].content).ok
    BY <1>12, CallersGoOn
  <1>14. \A f \in DOMAIN NumberFields : Number(raw', NumberFields[f], fields'[f]) = fields'[f]
    BY <1>9, NumbersAgree
  <1>15. ConfigReloadsAsSaved'
    BY <1>8, <1>10, <1>14 DEF ConfigReloadsAsSaved
  <1> QED BY <1>8, <1>9, <1>13, <1>15 DEF ConfigInv

LEMMA SavingKeeps ==
    ASSUME ConfigInv, NEW c \in Callers, save(c)
    PROVE  ConfigInv'
  <1>1. /\ file' = Saved(raw) /\ raw' = raw /\ fields' = fields /\ fresh' = fresh
        /\ caller' = [caller EXCEPT ![c].state = "idle"]
    BY DEF save
  <1>2. IsFile(file') /\ parse_config(file').ok /\ parse_config(file').values = raw'
    BY <1>1, SavedIsReadBack DEF ConfigInv
  <1>3. /\ DOMAIN caller' = Callers
        /\ \A d \in Callers :
              /\ DOMAIN caller'[d] = {"state", "content"} /\ IsFile(caller'[d].content)
              /\ caller'[d].state = "reloads" => parse_config(caller'[d].content).ok
    BY <1>1, CallersGoOn
  <1>4. ConfigReloadsAsSaved'
    BY <1>1, <1>2 DEF ConfigReloadsAsSaved, ConfigInv
  <1> QED BY <1>1, <1>2, <1>3, <1>4 DEF ConfigInv

LEMMA ReadingKeeps ==
    ASSUME ConfigInv, NEW c \in Callers, ReadConfig(c)
    PROVE  ConfigInv'
  <1>1. UNCHANGED <<file, lock, raw, fields, apart, fresh>>
    BY DEF ReadConfig
  <1>2. /\ DOMAIN caller' = Callers
        /\ \A d \in Callers :
              /\ DOMAIN caller'[d] = {"state", "content"} /\ IsFile(caller'[d].content)
              /\ caller'[d].state = "reloads" => parse_config(caller'[d].content).ok
    <2>1. CASE parse_config(file).ok
      <3>1. /\ DOMAIN caller' = Callers /\ caller'[c] = [state |-> "reloads", content |-> file]
            /\ \A d \in Callers : d # c => caller'[d] = caller[d]
        BY <2>1 DEF ReadConfig, ConfigInv
      <3>2. /\ DOMAIN caller'[c] = {"state", "content"} /\ caller'[c].content = file
        BY <3>1
      <3> QED BY <2>1, <3>1, <3>2 DEF ConfigInv
    <2>2. CASE ~parse_config(file).ok
      BY <2>2 DEF ReadConfig, ConfigInv
    <2> QED BY <2>1, <2>2
  <1>3. ConfigReloadsAsSaved'
    BY <1>1 DEF ConfigReloadsAsSaved, ConfigInv
  <1> QED BY <1>1, <1>2, <1>3 DEF ConfigInv

(* Options that were just read, and the fields made of them.               *)
LEMMA MadeAnew ==
    ASSUME AllResolved(raw'), fields' = from_raw(raw'),
           apart' \/ (parse_config(file').ok /\ parse_config(file').values = raw')
    PROVE  ConfigReloadsAsSaved' /\ FieldsAreNumbers(raw', fields')
  <1>1. FieldsAreNumbers(raw', fields') /\ fields'.servers = extract_servers(raw')
    BY MadeOfOptions
  <1>2. \A f \in DOMAIN NumberFields : Number(raw', NumberFields[f], fields'[f]) = fields'[f]
    BY <1>1, NumbersAgree
  <1> QED BY <1>1, <1>2 DEF ConfigReloadsAsSaved

LEMMA ReloadingKeeps ==
    ASSUME ConfigInv, NEW c \in Callers, rpc_reload(c)
    PROVE  ConfigInv'
  <1>1. /\ caller[c].state = "reloads" /\ raw' = parse_config(caller[c].content).values
        /\ fields' = from_raw(raw') /\ apart' = (caller[c].content # file) /\ file' = file
        /\ caller' = [caller EXCEPT ![c] = [state |-> "idle", content |-> <<>>]]
    BY DEF rpc_reload
  <1>2. AllResolved(raw')
    BY <1>1, ParsedIsResolved DEF ConfigInv
  <1>3. apart' \/ (parse_config(file').ok /\ parse_config(file').values = raw')
    BY <1>1 DEF ConfigInv
  <1>4. /\ DOMAIN caller' = Callers
        /\ \A d \in Callers :
              /\ DOMAIN caller'[d] = {"state", "content"} /\ IsFile(caller'[d].content)
              /\ caller'[d].state = "reloads" => parse_config(caller'[d].content).ok
    BY <1>1, CallersGoOn
  <1>5. ConfigReloadsAsSaved' /\ FieldsAreNumbers(raw', fields')
    BY <1>1, <1>2, <1>3, MadeAnew
  <1> QED BY <1>1, <1>2, <1>4, <1>5 DEF ConfigInv

LEMMA UserFilesAreFiles ==
    ASSUME NEW content \in UserFiles
    PROVE  IsFile(content)
  <1>1. IsSequence(content)
    BY ConfigAssumption, ListIsSequence
  <1>2. DOMAIN content = 1..Len(content)
    BY <1>1 DEF IsSequence
  <1>3. ASSUME NEW i \in 1..Len(content), content[i].key # Garbage
        PROVE  content[i].key \in Keys /\ IsSequence(content[i].value)
    <2>1. IsEntry(content[i])
      BY <1>2, <1>3, ConfigAssumption
    <2> QED BY <2>1, ListIsSequence DEF IsEntry
  <1> QED BY <1>1, <1>3 DEF IsFile

LEMMA IdleCallers ==
    /\ DOMAIN NoCalls = Callers
    /\ \A c \in Callers : /\ DOMAIN NoCalls[c] = {"state", "content"} /\ IsFile(NoCalls[c].content)
                          /\ NoCalls[c].state # "reloads"
  <1>1. IsFile(<<>>)
    BY TupleSequences DEF IsFile
  <1> QED BY <1>1 DEF NoCalls

LEMMA RestartKeeps ==
    ASSUME OverridesAreResolved, ConfigInv, Restarted
    PROVE  ConfigInv'
  <1>1. PICK entries \in Overrides : raw' = load_config(file, entries) /\ apart' = (entries # <<>>)
    BY DEF Restarted
  <1>2. /\ parse_config(file).ok /\ fields' = from_raw(raw') /\ caller' = NoCalls /\ file' = file
    BY DEF Restarted
  <1>3. AllResolved(raw') /\ (apart' \/ raw' = parse_config(file).values)
    BY <1>1, LoadedIsResolved DEF ConfigInv
  <1>4. ConfigReloadsAsSaved' /\ FieldsAreNumbers(raw', fields')
    BY <1>2, <1>3, MadeAnew
  <1> QED BY <1>2, <1>3, <1>4, IdleCallers DEF ConfigInv

(* ConfigInv in every state of the configuration, given options of the     *)
(* command line that need no resolving.                                    *)
THEOREM ConfigInvCorrect ==
    ASSUME OverridesAreResolved
    PROVE  ConfigSpec => []ConfigInv
  <1>1. ConfigInit => ConfigInv
    <2> SUFFICES ASSUME ConfigInit PROVE ConfigInv
      OBVIOUS
    <2>1. file \in UserFiles /\ parse_config(file).ok /\ fields = from_raw(raw) /\ caller = NoCalls
      BY DEF ConfigInit
    <2>2. PICK entries \in Overrides : raw = load_config(file, entries) /\ apart = (entries # <<>>)
      BY DEF ConfigInit
    <2>3. IsFile(file)
      BY <2>1, UserFilesAreFiles
    <2>4. AllResolved(raw) /\ (apart \/ raw = parse_config(file).values)
      BY <2>2, <2>3, LoadedIsResolved
    <2>5. FieldsAreNumbers(raw, fields) /\ fields.servers = extract_servers(raw)
      BY <2>1, MadeOfOptions
    <2>6. \A f \in DOMAIN NumberFields : Number(raw, NumberFields[f], fields[f]) = fields[f]
      BY <2>5, NumbersAgree
    <2>7. ConfigReloadsAsSaved
      BY <2>1, <2>4, <2>5, <2>6 DEF ConfigReloadsAsSaved
    <2> QED BY <2>1, <2>3, <2>4, <2>5, <2>7, IdleCallers DEF ConfigInv
  <1>2. ConfigInv /\ [ConfigNext]_configVars => ConfigInv'
    <2> SUFFICES ASSUME ConfigInv, [ConfigNext]_configVars PROVE ConfigInv'
      OBVIOUS
    <2>1. ASSUME NEW c \in Callers, NEW entries \in Edits,
                 rpc_saveconfig(c, entries) \/ rpc_editserver(c, entries)
          PROVE  ConfigInv'
      BY <2>1, SettingKeeps DEF rpc_saveconfig, rpc_editserver
    <2>2. ASSUME NEW c \in Callers, save(c) PROVE ConfigInv'
      BY <2>2, SavingKeeps
    <2>3. ASSUME NEW c \in Callers, ReadConfig(c) PROVE ConfigInv'
      BY <2>3, ReadingKeeps
    <2>4. ASSUME NEW c \in Callers, rpc_reload(c) PROVE ConfigInv'
      BY <2>4, ReloadingKeeps
    <2>5. ASSUME NEW content \in UserFiles, UserEdits(content) PROVE ConfigInv'
      <3>1. file' = content /\ apart' = TRUE /\ UNCHANGED <<lock, raw, fields, caller, fresh>>
        BY <2>5 DEF UserEdits
      <3>2. IsFile(file')
        BY <3>1, UserFilesAreFiles
      <3> QED BY <3>1, <3>2 DEF ConfigInv, ConfigReloadsAsSaved
    <2>6. ASSUME Restarted PROVE ConfigInv'
      BY <2>6, RestartKeeps
    <2>7. ASSUME UNCHANGED configVars PROVE ConfigInv'
      BY <2>7 DEF configVars, ConfigInv, ConfigReloadsAsSaved
    <2> QED BY <2>1, <2>2, <2>3, <2>4, <2>5, <2>6, <2>7 DEF ConfigNext
  <1> QED BY <1>1, <1>2, PTL DEF ConfigSpec

(* What is in memory when nobody saves is what a restart would read: calls *)
(* that save, edit and reload at once, restarts in the middle of a save.   *)
THEOREM ConfigIsReadBack ==
    ASSUME OverridesAreResolved
    PROVE  ConfigSpec => []ConfigReloadsAsSaved
  <1>1. ConfigInv => ConfigReloadsAsSaved
    BY DEF ConfigInv
  <1> QED BY <1>1, ConfigInvCorrect, PTL

-----------------------------------------------------------------------------
(* ServerVolumes.  A record, a snapshot and the roll of a day are each     *)
(* shown to keep what is said of one volume, Tallied, Dated and Timed.     *)
VolumeSpec == VolumeInit /\ [][VolumeNext]_volumeVars

(* What is received of a server in a second, minute or hour.               *)
InSlot(r, k) == {t \in Instants : t \div Unit[r] = k}

(* An instant is in the slot that its quotient names.                      *)
LEMMA Slots ==
    ASSUME NEW r \in Rings
    PROVE  /\ \A t \in Nat : t \div Unit[r] \in Nat
           /\ \A k \in Int : /\ k % Ring[r] \in 0..(Ring[r] - 1)
                             /\ InSlot(r, k) = {x \in Instants : k * Unit[r] <= x
                                                        /\ x <= k * Unit[r] + Unit[r] - 1}
  <1>1. Ring[r] \in Nat \ {0} /\ Unit[r] \in Nat \ {0} /\ Instants \subseteq Nat
    BY VolumeAssumption DEF Instants
  <1>2. ASSUME NEW t \in Nat PROVE t \div Unit[r] \in Nat
    <2>1. 0 \div Unit[r] <= t \div Unit[r]
      <3>1. t \in Int /\ 0 \in Int /\ 0 <= t
        OBVIOUS
      <3> QED BY <1>1, <3>1, QuotientGrows
    <2>3. t \div Unit[r] \in Int
      <3>1. t \in Int
        OBVIOUS
      <3> QED BY <1>1, <3>1, Euclid
    <2>2. 0 \div Unit[r] = 0
      BY <1>1, QuotientIs
    <2> QED BY <2>1, <2>2, <2>3
  <1>3. ASSUME NEW k \in Int
        PROVE  /\ k % Ring[r] \in 0..(Ring[r] - 1)
               /\ InSlot(r, k) = {x \in Instants : k * Unit[r] <= x /\ x <= k * Unit[r] + Unit[r] - 1}
    <2>1. k % Ring[r] \in 0..(Ring[r] - 1)
      BY <1>1, Euclid
    <2>2. \A x \in Instants : x \div Unit[r] = k <=> k * Unit[r] <= x /\ x <= k * Unit[r] + Unit[r] - 1
      <3>1. PICK u : u = Unit[r]
        OBVIOUS
      <3>2. u \in Nat \ {0} /\ k \in Int /\ Instants \subseteq Int
        BY <1>1, <3>1
      <3>3. \A x \in Instants : x \div u = k <=> k * u <= x /\ x <= k * u + u - 1
        BY ONLY <3>2, QuotientIs, Zenon
      <3> QED BY <3>1, <3>3, Zenon
    <2> QED BY <2>1, <2>2 DEF InSlot
  <1> QED BY <1>2, <1>3

(* The sums that the model takes are those of the lemmas.                  *)
LEMMA SumOverIs == ASSUME NEW f PROVE SumOver(f) = SumOf(f, DOMAIN f)
  BY DEF SumOver, FoldFunction, FoldFunctionOnSet, SumOf, MapThenSumSet

LEMMA FiniteInstants == IsFiniteSet(Instants) /\ Instants \subseteq Nat
  <1>1. 0 \in Int /\ VolumeHorizon \in Int /\ VolumeHorizon \in Nat
    BY VolumeAssumption
  <1>2. IsFiniteSet(0..VolumeHorizon)
    BY <1>1, FS_Interval
  <1>3. 0..VolumeHorizon \subseteq Nat
    BY <1>1
  <1> QED BY <1>2, <1>3 DEF Instants

(* The volume of a server.                                                 *)
ByteRows == Seq([day : Nat, bytes : Nat])
ArticleRows == Seq([day : Nat, success : Nat, failed : Nat])
AnyRings == [Rings -> UNION {[0..(Ring[r] - 1) -> Nat] : r \in Rings}]
VolumeOf ==
    [today : Nat, month : Nat, daily : ByteRows, monthly : ByteRows,
     rings : AnyRings,
     success : Nat, failed : Nat, articles : ArticleRows, last : Nat \union {NotYet}]
IsVolume(v) == v \in VolumeOf /\ \A r \in Rings : v.rings[r] \in [0..(Ring[r] - 1) -> Nat]

(* The slots hold what was received of rec; nothing is of a later time.    *)
Windows(v, rec) ==
    \A r \in Rings : \A age \in 0..(Ring[r] - 1) :
        v.last # NotYet /\ age <= v.last \div Unit[r] =>
            v.rings[r][(v.last \div Unit[r] - age) % Ring[r]]
                = SumOf(rec, InSlot(r, v.last \div Unit[r] - age))

UntilLast(v, rec) ==
    /\ v.last = NotYet => /\ \A t \in Instants : rec[t] = 0
                          /\ \A r \in Rings : \A i \in 0..(Ring[r] - 1) : v.rings[r][i] = 0
    /\ v.last # NotYet => \A t \in Instants : t > v.last => rec[t] = 0

LEMMA DefaultIsVolume ==
    /\ IsVolume(DefaultVolume) /\ DefaultVolume.last = NotYet
    /\ \A r \in Rings : \A i \in 0..(Ring[r] - 1) : DefaultVolume.rings[r][i] = 0
  <1>1. \A r \in Rings : [i \in 0..(Ring[r] - 1) |-> 0] \in [0..(Ring[r] - 1) -> Nat]
    OBVIOUS
  <1>2. <<>> \in ByteRows /\ <<>> \in ArticleRows
    BY DEF ByteRows, ArticleRows
  <1>3. [r \in Rings |-> [i \in 0..(Ring[r] - 1) |-> 0]] \in AnyRings
    BY <1>1 DEF AnyRings
  <1> HIDE DEF ByteRows, ArticleRows
  <1> QED BY <1>1, <1>2, <1>3 DEF IsVolume, VolumeOf, DefaultVolume

(* An advance empties just the slots that were entered.                    *)
LEMMA Advanced ==
    ASSUME NEW v, IsVolume(v), NEW t \in Nat
    PROVE  LET w == advance_to(v, t)
           IN /\ IsVolume(w) /\ w.last = t
              /\ w = [v EXCEPT !.last = t, !.rings = w.rings]
              /\ v.last = NotYet \/ t <= v.last => w.rings = v.rings
              /\ v.last # NotYet /\ ~(t <= v.last) =>
                    \A r \in Rings : \A i \in 0..(Ring[r] - 1) :
                       w.rings[r][i] = IF i \in Entered(r, v.last, t) THEN 0 ELSE v.rings[r][i]
  <1> DEFINE w == advance_to(v, t)
             emptied(r) == [i \in DOMAIN v.rings[r] |->
                              IF i \in Entered(r, v.last, t) THEN 0 ELSE v.rings[r][i]]
             rings == [r \in Rings |-> emptied(r)]
  <1>1. v \in VolumeOf /\ \A r \in Rings : v.rings[r] \in [0..(Ring[r] - 1) -> Nat]
    BY DEF IsVolume
  <1>2. CASE v.last = NotYet \/ t <= v.last
    <2>1. w = [v EXCEPT !.last = t]
      BY <1>2 DEF advance_to
    <2>2. w \in VolumeOf /\ w.rings = v.rings /\ w.last = t
      BY <1>1, <2>1 DEF VolumeOf
    <2>3. w = [v EXCEPT !.last = t, !.rings = w.rings]
      BY <1>1, <2>1, <2>2 DEF VolumeOf
    <2> QED BY <1>1, <1>2, <2>2, <2>3 DEF IsVolume
  <1>3. CASE ~(v.last = NotYet \/ t <= v.last)
    <2>1. w = [v EXCEPT !.last = t, !.rings = rings]
      BY <1>3 DEF advance_to
    <2>2. \A r \in Rings : emptied(r) \in [0..(Ring[r] - 1) -> Nat]
      BY <1>1
    <2>3. \A r \in Rings : \A i \in 0..(Ring[r] - 1) :
              emptied(r)[i] = IF i \in Entered(r, v.last, t) THEN 0 ELSE v.rings[r][i]
      BY <1>1
    <2>4. rings \in AnyRings /\ \A r \in Rings : rings[r] = emptied(r)
      BY <2>2 DEF AnyRings
    <2> HIDE DEF rings, emptied
    <2>5. w \in VolumeOf /\ w.rings = rings /\ w.last = t
      BY <1>1, <2>1, <2>4 DEF VolumeOf
    <2>6. w = [v EXCEPT !.last = t, !.rings = w.rings]
      BY <1>1, <2>1, <2>5 DEF VolumeOf
    <2> QED BY <1>3, <2>2, <2>3, <2>4, <2>5, <2>6 DEF IsVolume
  <1> QED BY <1>2, <1>3

LEMMA SlotIsLater ==
    ASSUME NEW v, NEW rec, UntilLast(v, rec), v.last \in Nat, NEW r \in Rings, NEW k \in Int,
           k > v.last \div Unit[r]
    PROVE  SumOf(rec, InSlot(r, k)) = 0
  <1>1. Unit[r] \in Nat \ {0} /\ v.last # NotYet /\ v.last \in Int
    BY VolumeAssumption
  <1>2. IsFiniteSet(InSlot(r, k))
    BY FiniteInstants, FS_Subset DEF InSlot
  <1>3. ASSUME NEW t \in InSlot(r, k) PROVE rec[t] = 0
    <2>1. t \in Instants /\ t \in Int /\ t \div Unit[r] = k
      BY FiniteInstants DEF InSlot
    <2>2. v.last \div Unit[r] \in Int
      BY <1>1, Euclid
    <2>3. ~(t <= v.last)
      <3> SUFFICES ASSUME t <= v.last PROVE FALSE
        OBVIOUS
      <3>1. t \div Unit[r] <= v.last \div Unit[r]
        BY <1>1, <2>1, QuotientGrows
      <3> QED BY <2>1, <2>2, <3>1
    <2> QED BY <1>1, <2>1, <2>3 DEF UntilLast
  <1> QED BY <1>2, <1>3, SumOfNone

LEMMA SlotIsEmpty ==
    ASSUME NEW v, NEW rec, UntilLast(v, rec), v.last = NotYet, NEW r \in Rings, NEW k
    PROVE  SumOf(rec, InSlot(r, k)) = 0
  <1>1. IsFiniteSet(InSlot(r, k))
    BY FiniteInstants, FS_Subset DEF InSlot
  <1>2. \A t \in InSlot(r, k) : rec[t] = 0
    BY DEF UntilLast, InSlot
  <1> QED BY <1>1, <1>2, SumOfNone

LEMMA WindowsMove ==
    ASSUME NEW v, IsVolume(v), NEW t \in Instants, NEW rec,
           Windows(v, rec), UntilLast(v, rec), v.last = NotYet \/ v.last <= t
    PROVE  Windows(advance_to(v, t), rec) /\ UntilLast(advance_to(v, t), rec)
  <1> DEFINE w == advance_to(v, t)
  <1>1. t \in Nat /\ (v.last \in Nat \/ v.last = NotYet) /\ NotYet \notin Nat
    BY FiniteInstants, VolumeAssumption DEF IsVolume, VolumeOf
  <1>2. /\ IsVolume(w) /\ w.last = t /\ t # NotYet
        /\ v.last = NotYet \/ t <= v.last => w.rings = v.rings
        /\ v.last # NotYet /\ ~(t <= v.last) =>
              \A r \in Rings : \A i \in 0..(Ring[r] - 1) :
                 w.rings[r][i] = IF i \in Entered(r, v.last, t) THEN 0 ELSE v.rings[r][i]
    BY <1>1, Advanced
  <1> HIDE DEF w
  <1>3. UntilLast(w, rec)
    BY <1>1, <1>2, FiniteInstants DEF UntilLast
  <1>4. ASSUME v.last = NotYet PROVE Windows(w, rec)
    <2> SUFFICES ASSUME NEW r \in Rings, NEW age \in 0..(Ring[r] - 1), age <= w.last \div Unit[r]
                 PROVE  w.rings[r][(w.last \div Unit[r] - age) % Ring[r]]
                            = SumOf(rec, InSlot(r, w.last \div Unit[r] - age))
      BY DEF Windows
    <2> DEFINE k == w.last \div Unit[r] - age
    <2>1. k \in Int
      BY <1>1, <1>2, Slots, VolumeAssumption
    <2>2. SumOf(rec, InSlot(r, k)) = 0
      BY <1>4, SlotIsEmpty
    <2>3. k % Ring[r] \in 0..(Ring[r] - 1)
      BY <2>1, Slots
    <2> HIDE DEF k
    <2>4. w.rings[r][k % Ring[r]] = 0
      BY <1>2, <1>4, <2>3 DEF UntilLast
    <2> QED BY <2>2, <2>4 DEF k
  <1>5. ASSUME v.last # NotYet /\ t <= v.last PROVE Windows(w, rec)
    <2>1. w.last = v.last /\ w.rings = v.rings
      BY <1>1, <1>2, <1>5
    <2> QED BY <2>1 DEF Windows
  <1>6. ASSUME v.last # NotYet /\ ~(t <= v.last) PROVE Windows(w, rec)
    <2> SUFFICES ASSUME NEW r \in Rings, NEW age \in 0..(Ring[r] - 1), age <= w.last \div Unit[r]
                 PROVE  w.rings[r][(w.last \div Unit[r] - age) % Ring[r]]
                            = SumOf(rec, InSlot(r, w.last \div Unit[r] - age))
      BY DEF Windows
    <2> DEFINE from == v.last \div Unit[r]
               to == t \div Unit[r]
               n == Ring[r]
               k == to - age
    <2>1. /\ from \in Nat /\ to \in Nat /\ n \in Nat \ {0} /\ v.last \in Int /\ t \in Int /\ v.last <= t
          /\ Unit[r] \in Nat \ {0}
      BY <1>1, <1>6, Slots, VolumeAssumption
    <2>2. from <= to
      BY <2>1, QuotientGrows
    <2>3. Entered(r, v.last, t) = IF to - from >= n THEN 0..(n - 1)
                                  ELSE {(from + s) % n : s \in 1..(to - from)}
      BY DEF Entered
    <2>4. age \in 0..(n - 1) /\ age <= to
      BY <1>2
    <2>5. k % n \in 0..(n - 1) /\ k \in Nat
      BY <2>1, <2>4, Slots
    <2>6. CASE k > from
      <3>1. SumOf(rec, InSlot(r, k)) = 0
        BY <1>1, <1>6, <2>5, <2>6, SlotIsLater
      <3>2. k % n \in Entered(r, v.last, t)
        <4> HIDE DEF from, to, n
        <4>1. CASE to - from >= n
          BY <2>3, <2>5, <4>1
        <4>2. CASE ~(to - from >= n)
          <5> DEFINE s == k - from
          <5>1. s \in 1..(to - from) /\ from + s = k
            BY <2>1, <2>4, <2>6
          <5> HIDE DEF s, k
          <5> QED BY <2>3, <4>2, <5>1
        <4> QED BY <4>1, <4>2
      <3>3. w.rings[r][k % n] = 0
        BY <1>2, <1>6, <2>5, <3>2
      <3> QED BY <1>2, <3>1, <3>3
    <2>7. CASE ~(k > from)
      <3> DEFINE old == from - k
      <3>1. old \in 0..(n - 1) /\ old <= from /\ from - old = k /\ ~(to - from >= n)
        <4> HIDE DEF from, to, n
        <4> QED BY <2>1, <2>2, <2>4, <2>5, <2>7
      <3>2. k % n \notin Entered(r, v.last, t)
        <4> SUFFICES ASSUME NEW s \in 1..(to - from), k % n = (from + s) % n PROVE FALSE
          BY <2>3, <3>1
        <4> HIDE DEF from, to, n
        <4>1. from + s \in Int /\ k \in Int /\ from + s - k < n /\ k - (from + s) < n /\ from + s # k
          BY <2>1, <2>4, <2>5, <2>7
        <4> DEFINE m == from + s
        <4> HIDE DEF k
        <4>5. m % n = k % n
          OBVIOUS
        <4>3. m \in Int /\ k \in Int /\ m - k < n /\ k - m < n
          BY <2>1, <4>1
        <4> HIDE DEF m
        <4>4. m = k
          BY <2>1, <4>3, <4>5, SameResidue
        <4>2. from + s = k
          BY <4>4 DEF m
        <4> QED BY <4>1, <4>2
      <3>3. w.rings[r][k % n] = v.rings[r][k % n]
        BY <1>2, <1>6, <2>5, <3>2
      <3>4. v.rings[r][(from - old) % n] = SumOf(rec, InSlot(r, from - old))
        <4>1. old \in 0..(Ring[r] - 1) /\ v.last # NotYet /\ old <= v.last \div Unit[r]
          BY <1>6, <3>1
        <4> HIDE DEF old
        <4> QED BY <4>1 DEF Windows
      <3>5. v.rings[r][k % n] = SumOf(rec, InSlot(r, k))
        <4> HIDE DEF k, from, n, old
        <4> QED BY <3>1, <3>4, Zenon
      <3> QED BY <1>2, <3>3, <3>5
    <2> QED BY <2>6, <2>7
  <1>7. Windows(w, rec)
    BY <1>4, <1>5, <1>6
  <1> QED BY <1>3, <1>7 DEF w

(* A second of one more is in one slot of each ring.                       *)
LEMMA SlotWithOneMore ==
    ASSUME NEW rec \in [Instants -> Nat], NEW t \in Instants, NEW r \in Rings, NEW k
    PROVE  SumOf([rec EXCEPT ![t] = @ + 1], InSlot(r, k))
               = SumOf(rec, InSlot(r, k)) + IF t \div Unit[r] = k THEN 1 ELSE 0
  <1> DEFINE S == InSlot(r, k)
             new == [rec EXCEPT ![t] = @ + 1]
  <1>1. S \subseteq Instants /\ IsFiniteSet(S)
    BY FiniteInstants, FS_Subset DEF InSlot
  <1>2. new[t] = rec[t] + 1 /\ \A x \in Instants \ {t} : new[x] = rec[x]
    OBVIOUS
  <1>3. \A x \in S : rec[x] \in Int
    BY <1>1
  <1>4. t \in S <=> t \div Unit[r] = k
    BY DEF InSlot
  <1>7. SumOf(rec, S) \in Int
    BY <1>1, <1>3, SumIsInt
  <1> HIDE DEF new, S
  <1>5. CASE t \in S
    <2>1. \A x \in S \ {t} : new[x] = rec[x]
      BY <1>1, <1>2
    <2>2. SumOf(new, S) = SumOf(rec, S) + 1
      BY <1>1, <1>2, <1>3, <1>5, <2>1, SumWithOneMore
    <2> QED BY <1>4, <1>5, <2>2 DEF new, S
  <1>6. CASE t \notin S
    <2>1. \A x \in S : new[x] = rec[x]
      BY <1>1, <1>2, <1>6
    <2>2. SumOf(new, S) = SumOf(rec, S)
      BY <1>1, <1>3, <2>1, SumOfSame
    <2> QED BY <1>4, <1>6, <1>7, <2>2 DEF new, S
  <1> QED BY <1>5, <1>6

LEMMA OneMoreAt ==
    ASSUME NEW D, NEW f \in [D -> Nat], NEW a \in D, NEW g, g = [f EXCEPT ![a] = @ + 1]
    PROVE  g \in [D -> Nat] /\ \A i \in D : g[i] = f[i] + IF i = a THEN 1 ELSE 0
  OBVIOUS

(* A record of a byte.                                                     *)
LEMMA Recorded ==
    ASSUME NEW v, IsVolume(v), NEW t \in Instants,
           NEW w, w = advance_to(v, t), NEW u, u = record(v, 1, t)
    PROVE  /\ IsVolume(u) /\ u.last = t
           /\ \A r \in Rings : \A i \in 0..(Ring[r] - 1) :
                 u.rings[r][i] = w.rings[r][i] + IF i = (t \div Unit[r]) % Ring[r] THEN 1 ELSE 0
           /\ u.today = v.today + 1 /\ u.month = v.month + 1
           /\ u.daily = v.daily /\ u.monthly = v.monthly /\ u.articles = v.articles
           /\ u.success = v.success /\ u.failed = v.failed
  <1> DEFINE more(r) == [w.rings[r] EXCEPT ![(t \div Unit[r]) % Ring[r]] = @ + 1]
             rings == [r \in Rings |-> more(r)]
  <1>1. t \in Nat
    BY FiniteInstants
  <1>2. IsVolume(w) /\ w.last = t /\ w = [v EXCEPT !.last = t, !.rings = w.rings]
    BY <1>1, Advanced
  <1>3. u = [w EXCEPT !.today = @ + 1, !.month = @ + 1, !.rings = rings]
    BY DEF record
  <1>4. w \in VolumeOf /\ \A r \in Rings : w.rings[r] \in [0..(Ring[r] - 1) -> Nat]
    BY <1>2 DEF IsVolume
  <1>5. ASSUME NEW r \in Rings
        PROVE  /\ more(r) \in [0..(Ring[r] - 1) -> Nat]
               /\ \A i \in 0..(Ring[r] - 1) :
                     more(r)[i] = w.rings[r][i] + IF i = (t \div Unit[r]) % Ring[r] THEN 1 ELSE 0
    <2> DEFINE at == (t \div Unit[r]) % Ring[r]
    <2>1. at \in 0..(Ring[r] - 1)
      <3>1. t \div Unit[r] \in Nat
        BY <1>1, Slots
      <3>2. t \div Unit[r] \in Int
        BY <3>1
      <3> QED BY <3>2, Slots
    <2> HIDE DEF at
    <2>2. more(r) = [w.rings[r] EXCEPT ![at] = @ + 1]
      BY DEF at
    <2>3. w.rings[r] \in [0..(Ring[r] - 1) -> Nat]
      BY <1>4
    <2> DEFINE D == 0..(Ring[r] - 1)
               f == w.rings[r]
               g == more(r)
    <2>4. f \in [D -> Nat] /\ at \in D /\ g = [f EXCEPT ![at] = @ + 1]
      BY <2>1, <2>2, <2>3
    <2> HIDE DEF D, f, g
    <2>5. g \in [D -> Nat] /\ \A i \in D : g[i] = f[i] + IF i = at THEN 1 ELSE 0
      BY <2>4, OneMoreAt
    <2> QED BY <2>5 DEF at, D, f, g
  <1>6. rings \in AnyRings /\ \A r \in Rings : rings[r] = more(r)
    BY <1>5 DEF AnyRings
  <1> HIDE DEF rings, more
  <1>7. /\ u \in VolumeOf /\ u.rings = rings /\ u.last = w.last
        /\ u.today = w.today + 1 /\ u.month = w.month + 1
        /\ u.daily = w.daily /\ u.monthly = w.monthly /\ u.articles = w.articles
        /\ u.success = w.success /\ u.failed = w.failed
    <2> DEFINE a == w.today + 1
               b == w.month + 1
    <2>1. u = [w EXCEPT !.today = a, !.month = b, !.rings = rings] /\ w \in VolumeOf
      BY <1>3, <1>4
    <2>2. a \in Nat /\ b \in Nat /\ rings \in AnyRings
      BY <1>4, <1>6 DEF VolumeOf
    <2> HIDE DEF a, b
    <2>3. u \in VolumeOf
      BY ONLY <2>1, <2>2 DEF VolumeOf
    <2>4. /\ u.rings = rings /\ u.last = w.last /\ u.today = a /\ u.month = b
          /\ u.daily = w.daily /\ u.monthly = w.monthly /\ u.articles = w.articles
          /\ u.success = w.success /\ u.failed = w.failed
      BY ONLY <2>1, <2>2 DEF VolumeOf
    <2> QED BY <2>3, <2>4 DEF a, b
  <1>8. /\ w.today = v.today /\ w.month = v.month
        /\ w.daily = v.daily /\ w.monthly = v.monthly /\ w.articles = v.articles
        /\ w.success = v.success /\ w.failed = v.failed
    <2>1. v \in VolumeOf
      BY DEF IsVolume
    <2> DEFINE x == w.rings
    <2>2. w = [v EXCEPT !.last = t, !.rings = x]
      BY <1>2
    <2> HIDE DEF x
    <2> QED BY <2>1, <2>2 DEF VolumeOf
  <1>10. IsVolume(u)
    BY <1>5, <1>6, <1>7 DEF IsVolume
  <1> QED BY <1>2, <1>5, <1>6, <1>7, <1>8, <1>10

LEMMA WindowsRecord ==
    ASSUME NEW v, IsVolume(v), NEW t \in Instants, NEW rec \in [Instants -> Nat],
           Windows(v, rec), UntilLast(v, rec), v.last = NotYet \/ v.last <= t
    PROVE  /\ Windows(record(v, 1, t), [rec EXCEPT ![t] = @ + 1])
           /\ UntilLast(record(v, 1, t), [rec EXCEPT ![t] = @ + 1])
  <1> DEFINE w == advance_to(v, t)
             u == record(v, 1, t)
             new == [rec EXCEPT ![t] = @ + 1]
  <1>1. t \in Nat /\ t # NotYet
    BY FiniteInstants, VolumeAssumption
  <1>2. Windows(w, rec) /\ UntilLast(w, rec) /\ IsVolume(w) /\ w.last = t
    BY <1>1, WindowsMove, Advanced
  <1> HIDE DEF w, u
  <1>3. /\ u.last = t
        /\ \A r \in Rings : \A i \in 0..(Ring[r] - 1) :
              u.rings[r][i] = w.rings[r][i] + IF i = (t \div Unit[r]) % Ring[r] THEN 1 ELSE 0
    BY ONLY IsVolume(v), t \in Instants, Recorded DEF w, u
  <1>4. UntilLast(u, new)
    BY <1>1, <1>2, <1>3, FiniteInstants DEF UntilLast
  <1>5. ASSUME NEW r \in Rings, NEW age \in 0..(Ring[r] - 1), age <= u.last \div Unit[r]
        PROVE  u.rings[r][(u.last \div Unit[r] - age) % Ring[r]]
                   = SumOf(new, InSlot(r, u.last \div Unit[r] - age))
    <2> DEFINE at == t \div Unit[r]
               n == Ring[r]
               k == at - age
    <2>1. at \in Nat /\ n \in Nat \ {0} /\ at \in Int /\ age \in Int /\ k \in Int
      BY <1>1, Slots, VolumeAssumption
    <2>2. w.rings[r][k % n] = SumOf(rec, InSlot(r, k))
      BY <1>1, <1>2, <1>3, <1>5 DEF Windows
    <2>3. k % n \in 0..(Ring[r] - 1)
      BY <2>1, Slots
    <2>4. SumOf(new, InSlot(r, k)) = SumOf(rec, InSlot(r, k)) + IF at = k THEN 1 ELSE 0
      BY ZenonT(60), SlotWithOneMore
    <2>5. u.rings[r][k % n] = w.rings[r][k % n] + IF k % n = at % n THEN 1 ELSE 0
      BY <1>3, <2>3
    <2>6. k % n = at % n <=> at = k
      <3> HIDE DEF at, n
      <3>1. k - at < n /\ at - k < n
        <4>1. age \in 0..(n - 1)
          BY DEF n
        <4> QED BY <2>1, <4>1
      <3> HIDE DEF k
      <3>2. ASSUME k % n = at % n PROVE at = k
        BY <2>1, <3>1, <3>2, SameResidue
      <3> QED BY <3>2
    <2> HIDE DEF w, u, new, at, k, n
    <2>7. u.rings[r][k % n] = SumOf(new, InSlot(r, k))
      BY <2>2, <2>4, <2>5, <2>6
    <2> QED BY <1>3, <2>7 DEF k, at, n
  <1>6. Windows(u, new)
    BY <1>5 DEF Windows
  <1> QED BY <1>4, <1>6 DEF u

(* The bytes of rows, summed up after each.                                *)
SumsBytes(F, rows) ==
    /\ F[0] = 0 /\ F[Len(rows)] = BytesOf(rows)
    /\ \A i \in 1..Len(rows) : F[i] = F[i - 1] + rows[i].bytes

LEMMA BytePlaces ==
    ASSUME NEW rows, IsSequence(rows)
    PROVE  \E F : SumsBytes(F, rows)
  <1> DEFINE n == Len(rows)
             op(r, x) == r + x.bytes
             b == 0
             Is(it) == it = [t \in SUBSET DOMAIN rows |->
                                IF t = {} THEN b ELSE op(it[t \ {Max(t)}], rows[Max(t)])]
             H == CHOOSE it : Is(it)
             Good(it, k) == it = [t \in SmallSets(n, k) |->
                                IF t = {} THEN b ELSE op(it[t \ {Max(t)}], rows[Max(t)])]
             T == {k \in Nat : \E it : Good(it, k)}
             F == [i \in 0..n |-> H[1..i]]
  <1>1. n \in Nat /\ DOMAIN rows = 1..n
    BY DEF IsSequence
  <1> HIDE DEF n
  <1>2. /\ \A t \in SmallSets(n, 0) : t = {}
        /\ SmallSets(n, n) = SUBSET DOMAIN rows
        /\ \A k \in Nat :
              /\ SmallSets(n, k) \subseteq SmallSets(n, k + 1)
              /\ \A t \in SmallSets(n, k + 1) : t # {} => t \ {Max(t)} \in SmallSets(n, k)
    BY <1>1, SmallSetsGrow
  <1>3. 0 \in T
    <2> DEFINE g == [t \in SmallSets(n, 0) |-> b]
    <2> HIDE DEF op, b
    <2>1. Good(g, 0)
      BY <1>2
    <2> HIDE DEF Good
    <2> QED BY <2>1
  <1>4. ASSUME NEW k \in Nat, k \in T PROVE k + 1 \in T
    <2>1. PICK g : Good(g, k)
      <3> HIDE DEF Good
      <3> QED BY <1>4
    <2> DEFINE g2 == [t \in SmallSets(n, k + 1) |->
                        IF t = {} THEN b ELSE op(g[t \ {Max(t)}], rows[Max(t)])]
    <2> HIDE DEF op, b
    <2>2. \A t \in SmallSets(n, k) : g2[t] = g[t]
      BY <1>2, <2>1
    <2>3. \A t \in SmallSets(n, k + 1) : t # {} => g2[t \ {Max(t)}] = g[t \ {Max(t)}]
      BY <1>2, <2>2
    <2>4. Good(g2, k + 1)
      BY <2>3
    <2> HIDE DEF Good, g2
    <2> QED BY <2>4
  <1>5. Is(H)
    <2>1. Nat \subseteq T
      <3> HIDE DEF T
      <3> QED BY <1>3, <1>4, InductiveSet
    <2>2. PICK g : Good(g, n)
      <3> HIDE DEF Good
      <3> QED BY <1>1, <2>1
    <2>3. Is(g)
      <3> HIDE DEF op, b
      <3> QED BY <1>2, <2>2
    <2> HIDE DEF Is
    <2> QED BY <2>3
  <1>6. BytesOf(rows) = H[1..n]
    <2>1. BytesOf(rows) = H[DOMAIN rows]
      BY DEF BytesOf, FoldLeft, MapThenFoldSet
    <2> HIDE DEF H
    <2> QED BY <1>1, <2>1
  <1> HIDE DEF H
  <1>7. F[0] = b
    <2>1. 1..0 = {} /\ H[{}] = b
      BY <1>5
    <2> QED BY <1>1, <2>1
  <1>8. ASSUME NEW i \in 1..n PROVE F[i] = op(F[i - 1], rows[i])
    <2>1. 1..i \in SUBSET DOMAIN rows /\ 1..i # {}
      <3>1. i \in 1..i /\ 1..i \subseteq 1..n
        BY <1>1
      <3> QED BY <1>1, <3>1
    <2>2. Max(1..i) = i /\ (1..i) \ {Max(1..i)} = 1..(i - 1)
      BY MaxOfPrefix
    <2>3. H[1..i] = op(H[1..(i - 1)], rows[i])
      <3> HIDE DEF op, b
      <3> QED BY <1>5, <2>1, <2>2
    <2>4. F[i] = H[1..i] /\ F[i - 1] = H[1..(i - 1)]
      BY <1>1
    <2> HIDE DEF op, b, F
    <2> QED BY <2>3, <2>4
  <1>9. F[n] = BytesOf(rows)
    BY <1>1, <1>6
  <1> HIDE DEF F
  <1>10. SumsBytes(F, rows)
    BY <1>7, <1>8, <1>9 DEF SumsBytes, n
  <1> QED BY <1>10

(* The articles of rows, summed up after each.                             *)
SumsArticles(F, rows) ==
    /\ F[0] = 0 /\ F[Len(rows)] = ArticlesOf(rows)
    /\ \A i \in 1..Len(rows) : F[i] = F[i - 1] + rows[i].success + rows[i].failed

LEMMA ArticlePlaces ==
    ASSUME NEW rows, IsSequence(rows)
    PROVE  \E F : SumsArticles(F, rows)
  <1> DEFINE n == Len(rows)
             op(r, x) == r + x.success + x.failed
             b == 0
             Is(it) == it = [t \in SUBSET DOMAIN rows |->
                                IF t = {} THEN b ELSE op(it[t \ {Max(t)}], rows[Max(t)])]
             H == CHOOSE it : Is(it)
             Good(it, k) == it = [t \in SmallSets(n, k) |->
                                IF t = {} THEN b ELSE op(it[t \ {Max(t)}], rows[Max(t)])]
             T == {k \in Nat : \E it : Good(it, k)}
             F == [i \in 0..n |-> H[1..i]]
  <1>1. n \in Nat /\ DOMAIN rows = 1..n
    BY DEF IsSequence
  <1> HIDE DEF n
  <1>2. /\ \A t \in SmallSets(n, 0) : t = {}
        /\ SmallSets(n, n) = SUBSET DOMAIN rows
        /\ \A k \in Nat :
              /\ SmallSets(n, k) \subseteq SmallSets(n, k + 1)
              /\ \A t \in SmallSets(n, k + 1) : t # {} => t \ {Max(t)} \in SmallSets(n, k)
    BY <1>1, SmallSetsGrow
  <1>3. 0 \in T
    <2> DEFINE g == [t \in SmallSets(n, 0) |-> b]
    <2> HIDE DEF op, b
    <2>1. Good(g, 0)
      BY <1>2
    <2> HIDE DEF Good
    <2> QED BY <2>1
  <1>4. ASSUME NEW k \in Nat, k \in T PROVE k + 1 \in T
    <2>1. PICK g : Good(g, k)
      <3> HIDE DEF Good
      <3> QED BY <1>4
    <2> DEFINE g2 == [t \in SmallSets(n, k + 1) |->
                        IF t = {} THEN b ELSE op(g[t \ {Max(t)}], rows[Max(t)])]
    <2> HIDE DEF op, b
    <2>2. \A t \in SmallSets(n, k) : g2[t] = g[t]
      BY <1>2, <2>1
    <2>3. \A t \in SmallSets(n, k + 1) : t # {} => g2[t \ {Max(t)}] = g[t \ {Max(t)}]
      BY <1>2, <2>2
    <2>4. Good(g2, k + 1)
      BY <2>3
    <2> HIDE DEF Good, g2
    <2> QED BY <2>4
  <1>5. Is(H)
    <2>1. Nat \subseteq T
      <3> HIDE DEF T
      <3> QED BY <1>3, <1>4, InductiveSet
    <2>2. PICK g : Good(g, n)
      <3> HIDE DEF Good
      <3> QED BY <1>1, <2>1
    <2>3. Is(g)
      <3> HIDE DEF op, b
      <3> QED BY <1>2, <2>2
    <2> HIDE DEF Is
    <2> QED BY <2>3
  <1>6. ArticlesOf(rows) = H[1..n]
    <2>1. ArticlesOf(rows) = H[DOMAIN rows]
      BY DEF ArticlesOf, FoldLeft, MapThenFoldSet
    <2> HIDE DEF H
    <2> QED BY <1>1, <2>1
  <1> HIDE DEF H
  <1>7. F[0] = b
    <2>1. 1..0 = {} /\ H[{}] = b
      BY <1>5
    <2> QED BY <1>1, <2>1
  <1>8. ASSUME NEW i \in 1..n PROVE F[i] = op(F[i - 1], rows[i])
    <2>1. 1..i \in SUBSET DOMAIN rows /\ 1..i # {}
      <3>1. i \in 1..i /\ 1..i \subseteq 1..n
        BY <1>1
      <3> QED BY <1>1, <3>1
    <2>2. Max(1..i) = i /\ (1..i) \ {Max(1..i)} = 1..(i - 1)
      BY MaxOfPrefix
    <2>3. H[1..i] = op(H[1..(i - 1)], rows[i])
      <3> HIDE DEF op, b
      <3> QED BY <1>5, <2>1, <2>2
    <2>4. F[i] = H[1..i] /\ F[i - 1] = H[1..(i - 1)]
      BY <1>1
    <2> HIDE DEF op, b, F
    <2> QED BY <2>3, <2>4
  <1>9. F[n] = ArticlesOf(rows)
    BY <1>1, <1>6
  <1> HIDE DEF F
  <1>10. SumsArticles(F, rows)
    BY <1>7, <1>8, <1>9 DEF SumsArticles, n
  <1> QED BY <1>10

(* What a row counts for.                                                  *)
ByteCounts(rows) == [i \in 1..Len(rows) |-> rows[i].bytes]
ArticleCounts(rows) == [i \in 1..Len(rows) |-> rows[i].success + rows[i].failed]

LEMMA ByteRowsAre ==
    ASSUME NEW rows \in ByteRows
    PROVE  /\ BytesOf(rows) = SumOf(ByteCounts(rows), 1..Len(rows)) /\ BytesOf(rows) \in Nat
           /\ IsSequence(rows) /\ Len(rows) \in Nat
           /\ \A i \in 1..Len(rows) :
                 rows[i].bytes \in Nat /\ rows[i].day \in Nat /\ ByteCounts(rows)[i] = rows[i].bytes
  <1> DEFINE n == Len(rows)
             w == ByteCounts(rows)
  <1>1. IsSequence(rows) /\ n \in Nat
    BY AnySequence DEF ByteRows
  <1>2. ASSUME NEW i \in 1..n PROVE rows[i].bytes \in Nat /\ rows[i].day \in Nat /\ w[i] = rows[i].bytes
    <2>1. rows[i] \in [day : Nat, bytes : Nat]
      BY ElementOf DEF ByteRows
    <2> QED BY <2>1 DEF ByteCounts
  <1>3. PICK F : SumsBytes(F, rows)
    BY <1>1, BytePlaces
  <1>4. F[0] = 0 /\ F[n] = BytesOf(rows) /\ \A i \in 1..n : F[i] = F[i - 1] + rows[i].bytes
    BY <1>3 DEF SumsBytes
  <1> HIDE DEF n, w
  <1>5. \A i \in 1..n : w[i] \in Nat /\ F[i] = F[i - 1] + w[i]
    BY <1>2, <1>4
  <1>6. F[n] = SumOf(w, 1..n) /\ F[n] \in Nat
    BY <1>1, <1>4, <1>5, SumAlong
  <1> QED BY <1>1, <1>2, <1>4, <1>6 DEF n, w

LEMMA ArticleRowsAre ==
    ASSUME NEW rows \in ArticleRows
    PROVE  /\ ArticlesOf(rows) = SumOf(ArticleCounts(rows), 1..Len(rows)) /\ ArticlesOf(rows) \in Nat
           /\ IsSequence(rows) /\ Len(rows) \in Nat
           /\ \A i \in 1..Len(rows) :
                 /\ rows[i].success \in Nat /\ rows[i].failed \in Nat /\ rows[i].day \in Nat
                 /\ ArticleCounts(rows)[i] = rows[i].success + rows[i].failed
  <1> DEFINE n == Len(rows)
             w == ArticleCounts(rows)
  <1>1. IsSequence(rows) /\ n \in Nat
    BY AnySequence DEF ArticleRows
  <1>2. ASSUME NEW i \in 1..n
        PROVE  /\ rows[i].success \in Nat /\ rows[i].failed \in Nat /\ rows[i].day \in Nat
               /\ w[i] = rows[i].success + rows[i].failed
    <2>1. rows[i] \in [day : Nat, success : Nat, failed : Nat]
      BY ElementOf DEF ArticleRows
    <2> QED BY <2>1 DEF ArticleCounts
  <1>3. PICK F : SumsArticles(F, rows)
    BY <1>1, ArticlePlaces
  <1>4. /\ F[0] = 0 /\ F[n] = ArticlesOf(rows)
        /\ \A i \in 1..n : F[i] = F[i - 1] + rows[i].success + rows[i].failed
    BY <1>3 DEF SumsArticles
  <1> HIDE DEF n, w
  <1> DEFINE T == {k \in 0..n : F[k] \in Nat}
  <1>5. 0 \in T
    BY <1>1, <1>4
  <1>6. ASSUME NEW i \in 1..n, i - 1 \in T PROVE i \in T
    <2>1. F[i - 1] \in Nat /\ F[i] = F[i - 1] + rows[i].success + rows[i].failed
      BY <1>4, <1>6
    <2>2. F[i] \in Nat
      BY <1>2, <2>1
    <2> QED BY <1>1, <2>2
  <1>7. 0..n \subseteq T
    <2> HIDE DEF T
    <2> QED BY <1>1, <1>5, <1>6, InductiveInterval
  <1>8. ASSUME NEW i \in 1..n PROVE w[i] \in Nat /\ F[i] = F[i - 1] + w[i]
    <2>1. i - 1 \in 0..n
      BY <1>1
    <2>2. F[i - 1] \in Nat
      BY <1>7, <2>1
    <2>3. F[i] = F[i - 1] + rows[i].success + rows[i].failed
      BY <1>4
    <2> QED BY <1>2, <2>2, <2>3
  <1>9. F[n] = SumOf(w, 1..n) /\ F[n] \in Nat
    <2> HIDE DEF T
    <2> QED BY <1>1, <1>4, <1>8, SumAlong
  <1> QED BY <1>1, <1>2, <1>4, <1>9 DEF n, w

LEMMA RowsAddUp ==
    /\ \A rows \in ByteRows, x \in [day : Nat, bytes : Nat] :
          /\ Append(rows, x) \in ByteRows
          /\ BytesOf(Append(rows, x)) = BytesOf(rows) + x.bytes
    /\ \A rows \in ArticleRows, x \in [day : Nat, success : Nat, failed : Nat] :
          /\ Append(rows, x) \in ArticleRows
          /\ ArticlesOf(Append(rows, x)) = ArticlesOf(rows) + x.success + x.failed
  <1>1. ASSUME NEW rows \in ByteRows, NEW x \in [day : Nat, bytes : Nat]
        PROVE  /\ Append(rows, x) \in ByteRows
               /\ BytesOf(Append(rows, x)) = BytesOf(rows) + x.bytes
    <2> DEFINE t == Append(rows, x)
               n == Len(rows)
    <2>1. t \in ByteRows /\ Len(t) = n + 1 /\ n \in Nat /\ t[n + 1] = x /\ \A i \in 1..n : t[i] = rows[i]
      <3> DEFINE R == [day : Nat, bytes : Nat]
      <3>1. rows \in Seq(R) /\ x \in R
        BY DEF ByteRows
      <3> HIDE DEF R
      <3>2. t \in Seq(R) /\ Len(t) = n + 1 /\ n \in Nat /\ t[n + 1] = x /\ \A i \in 1..n : t[i] = rows[i]
        BY <3>1, Appended
      <3> QED BY <3>2 DEF ByteRows, R
    <2> HIDE DEF t, n
    <2>2. /\ BytesOf(t) = SumOf(ByteCounts(t), 1..(n + 1))
          /\ BytesOf(rows) = SumOf(ByteCounts(rows), 1..n)
      BY <2>1, ByteRowsAre DEF n
    <2>3. n + 1 \in 1..(n + 1) /\ \A i \in 1..n : i \in 1..(n + 1)
      BY <2>1
    <2>4. /\ \A i \in 1..(n + 1) : ByteCounts(t)[i] = t[i].bytes
          /\ \A i \in 1..n : ByteCounts(rows)[i] = rows[i].bytes /\ rows[i].bytes \in Nat
      BY <2>1, ByteRowsAre DEF n
    <2>5. /\ \A i \in 1..n : ByteCounts(rows)[i] \in Nat /\ ByteCounts(t)[i] = ByteCounts(rows)[i]
          /\ ByteCounts(t)[n + 1] = x.bytes /\ x.bytes \in Nat
      BY <2>1, <2>3, <2>4
    <2>6. SumOf(ByteCounts(t), 1..(n + 1)) = SumOf(ByteCounts(rows), 1..n) + x.bytes
      BY <2>1, <2>5, CountedOnceMore
    <2> QED BY <2>1, <2>2, <2>6 DEF t
  <1>2. ASSUME NEW rows \in ArticleRows, NEW x \in [day : Nat, success : Nat, failed : Nat]
        PROVE  /\ Append(rows, x) \in ArticleRows
               /\ ArticlesOf(Append(rows, x)) = ArticlesOf(rows) + x.success + x.failed
    <2> DEFINE t == Append(rows, x)
               n == Len(rows)
    <2>1. t \in ArticleRows /\ Len(t) = n + 1 /\ n \in Nat /\ t[n + 1] = x /\ \A i \in 1..n : t[i] = rows[i]
      <3> DEFINE R == [day : Nat, success : Nat, failed : Nat]
      <3>1. rows \in Seq(R) /\ x \in R
        BY DEF ArticleRows
      <3> HIDE DEF R
      <3>2. t \in Seq(R) /\ Len(t) = n + 1 /\ n \in Nat /\ t[n + 1] = x /\ \A i \in 1..n : t[i] = rows[i]
        BY <3>1, Appended
      <3> QED BY <3>2 DEF ArticleRows, R
    <2> HIDE DEF t, n
    <2>2. /\ ArticlesOf(t) = SumOf(ArticleCounts(t), 1..(n + 1))
          /\ ArticlesOf(rows) = SumOf(ArticleCounts(rows), 1..n) /\ ArticlesOf(rows) \in Nat
      BY <2>1, ArticleRowsAre DEF n
    <2>3. n + 1 \in 1..(n + 1) /\ \A i \in 1..n : i \in 1..(n + 1)
      BY <2>1
    <2>4. /\ \A i \in 1..(n + 1) : ArticleCounts(t)[i] = t[i].success + t[i].failed
          /\ \A i \in 1..n : /\ ArticleCounts(rows)[i] = rows[i].success + rows[i].failed
                             /\ rows[i].success \in Nat /\ rows[i].failed \in Nat
      BY <2>1, ArticleRowsAre DEF n
    <2>5. /\ \A i \in 1..n : ArticleCounts(rows)[i] \in Nat /\ ArticleCounts(t)[i] = ArticleCounts(rows)[i]
          /\ ArticleCounts(t)[n + 1] = x.success + x.failed /\ x.success \in Nat /\ x.failed \in Nat
      <3>1. ASSUME NEW i \in 1..n PROVE ArticleCounts(rows)[i] \in Nat /\ ArticleCounts(t)[i] = ArticleCounts(rows)[i]
        <4>1. t[i] = rows[i] /\ ArticleCounts(t)[i] = t[i].success + t[i].failed
          BY <2>1, <2>3, <2>4
        <4>2. /\ ArticleCounts(rows)[i] = rows[i].success + rows[i].failed
              /\ rows[i].success \in Nat /\ rows[i].failed \in Nat
          BY <2>4
        <4> QED BY <4>1, <4>2
      <3>2. ArticleCounts(t)[n + 1] = x.success + x.failed
        BY <2>1, <2>3, <2>4
      <3>3. x.success \in Nat /\ x.failed \in Nat
        OBVIOUS
      <3> QED BY <3>1, <3>2, <3>3
    <2>6. SumOf(ArticleCounts(t), 1..(n + 1)) = SumOf(ArticleCounts(rows), 1..n) + (x.success + x.failed)
      <3> DEFINE more == x.success + x.failed
      <3>1. more \in Nat /\ ArticleCounts(t)[n + 1] = more
        BY <2>5
      <3> HIDE DEF more
      <3>2. SumOf(ArticleCounts(t), 1..(n + 1)) = SumOf(ArticleCounts(rows), 1..n) + more
        BY <2>1, <2>5, <3>1, CountedOnceMore
      <3> QED BY <3>2 DEF more
    <2> QED BY <2>1, <2>2, <2>5, <2>6 DEF t
  <1> QED BY <1>1, <1>2

(* What the counters of a volume add up to; the month has its last day.    *)
Tallied(v, rec, n) ==
    /\ IsVolume(v)
    /\ v.today <= v.month
    /\ v.today + BytesOf(v.daily) = SumOf(rec, Instants)
    /\ v.month + BytesOf(v.monthly) = SumOf(rec, Instants)
    /\ v.success + v.failed + ArticlesOf(v.articles) = n

(* The history has a row for a day, of bytes and of articles; no day is    *)
(* there twice and none is as late as day.                                 *)
DaysBefore(day, rows, articles) ==
    /\ Len(articles) = Len(rows)
    /\ \A i \in 1..Len(rows) : articles[i].day = rows[i].day /\ rows[i].day < day
    /\ \A i \in 1..Len(rows) : \A j \in 1..Len(rows) : i < j => rows[i].day < rows[j].day

Dated(v, day) == DaysBefore(day, v.daily, v.articles)

(* The rings are those of what was received until now.                     *)
Timed(v, rec, now) ==
    Windows(v, rec) /\ UntilLast(v, rec) /\ (v.last = NotYet \/ v.last <= now)

LEMMA VolumeFields ==
    ASSUME NEW v, IsVolume(v)
    PROVE  /\ v \in VolumeOf
           /\ v.today \in Nat /\ v.month \in Nat /\ v.success \in Nat /\ v.failed \in Nat
           /\ v.daily \in ByteRows /\ v.monthly \in ByteRows /\ v.articles \in ArticleRows
           /\ v.last \in Nat \/ v.last = NotYet
           /\ BytesOf(v.daily) \in Nat /\ BytesOf(v.monthly) \in Nat /\ ArticlesOf(v.articles) \in Nat
           /\ v.rings \in AnyRings
  <1>1. v \in VolumeOf
    BY DEF IsVolume
  <1>2. /\ v.today \in Nat /\ v.month \in Nat /\ v.success \in Nat /\ v.failed \in Nat
        /\ v.daily \in ByteRows /\ v.monthly \in ByteRows /\ v.articles \in ArticleRows
        /\ v.last \in Nat \/ v.last = NotYet
        /\ v.rings \in AnyRings
    BY <1>1 DEF VolumeOf
  <1> QED BY <1>1, <1>2, ByteRowsAre, ArticleRowsAre

LEMMA EmptyRows ==
    /\ <<>> \in ByteRows /\ <<>> \in ArticleRows /\ Len(<<>>) = 0
    /\ BytesOf(<<>>) = 0 /\ ArticlesOf(<<>>) = 0
  <1>1. <<>> \in ByteRows /\ <<>> \in ArticleRows /\ Len(<<>>) = 0
    BY DEF ByteRows, ArticleRows
  <1>2. IsSequence(<<>>)
    BY TupleSequences
  <1>3. PICK F : SumsBytes(F, <<>>)
    BY <1>2, BytePlaces
  <1>4. PICK G : SumsArticles(G, <<>>)
    BY <1>2, ArticlePlaces
  <1> QED BY <1>1, <1>3, <1>4 DEF SumsBytes, SumsArticles

(* A server of which nothing is known.                                     *)
LEMMA DefaultIsTallied ==
    ASSUME NEW rec, \A t \in Instants : rec[t] = 0
    PROVE  /\ Tallied(DefaultVolume, rec, 0)
           /\ \A day : Dated(DefaultVolume, day)
           /\ \A now : Timed(DefaultVolume, rec, now)
  <1> DEFINE v == DefaultVolume
  <1>1. /\ v.today = 0 /\ v.month = 0 /\ v.success = 0 /\ v.failed = 0
        /\ v.daily = <<>> /\ v.monthly = <<>> /\ v.articles = <<>>
    BY DEF DefaultVolume
  <1>2. /\ IsVolume(v) /\ v.last = NotYet
        /\ \A r \in Rings : \A i \in 0..(Ring[r] - 1) : v.rings[r][i] = 0
    BY DefaultIsVolume
  <1> HIDE DEF v
  <1>3. SumOf(rec, Instants) = 0
    BY FiniteInstants, SumOfNone
  <1>4. Tallied(v, rec, 0)
    BY <1>1, <1>2, <1>3, EmptyRows DEF Tallied
  <1>5. Len(v.daily) = 0 /\ Len(v.articles) = 0 /\ 1..0 = {}
    BY <1>1, EmptyRows
  <1>6. \A day : Dated(v, day)
    BY <1>5 DEF Dated, DaysBefore
  <1>7. UntilLast(v, rec) /\ Windows(v, rec)
    BY <1>2 DEF UntilLast, Windows
  <1> QED BY <1>2, <1>4, <1>6, <1>7 DEF Timed, v

(* A record of a byte.                                                     *)
OneMore(rec, t) == [rec EXCEPT ![t] = @ + 1]

LEMMA RecordKeeps ==
    ASSUME NEW v, NEW rec \in [Instants -> Nat], NEW n, NEW t \in Instants
    PROVE  /\ Tallied(v, rec, n) => Tallied(record(v, 1, t), OneMore(rec, t), n)
           /\ \A day : Tallied(v, rec, n) /\ Dated(v, day) => Dated(record(v, 1, t), day)
           /\ Tallied(v, rec, n) /\ Timed(v, rec, t) => Timed(record(v, 1, t), OneMore(rec, t), t)
  <1> DEFINE u == record(v, 1, t)
             new == [rec EXCEPT ![t] = @ + 1]
  <1> SUFFICES ASSUME Tallied(v, rec, n)
               PROVE  /\ Tallied(u, new, n)
                      /\ \A day : Dated(v, day) => Dated(u, day)
                      /\ Timed(v, rec, t) => Timed(u, new, t)
    BY DEF OneMore
  <1>1. IsVolume(v)
    BY DEF Tallied
  <1>2. /\ IsVolume(u) /\ u.last = t
        /\ u.today = v.today + 1 /\ u.month = v.month + 1
        /\ u.daily = v.daily /\ u.monthly = v.monthly /\ u.articles = v.articles
        /\ u.success = v.success /\ u.failed = v.failed
    BY <1>1, Recorded
  <1>3. SumOf(new, Instants) = SumOf(rec, Instants) + 1
    <2>1. /\ \A x \in Instants : rec[x] \in Int
          /\ new[t] = rec[t] + 1 /\ \A x \in Instants \ {t} : new[x] = rec[x]
      OBVIOUS
    <2> HIDE DEF new
    <2> QED BY <2>1, FiniteInstants, SumWithOneMore
  <1> HIDE DEF u, new
  <1>4. Tallied(u, new, n)
    <2>1. /\ v.today \in Nat /\ v.month \in Nat /\ v.today <= v.month
          /\ BytesOf(v.daily) \in Nat /\ BytesOf(v.monthly) \in Nat
          /\ v.today + BytesOf(v.daily) = SumOf(rec, Instants)
          /\ v.month + BytesOf(v.monthly) = SumOf(rec, Instants)
          /\ v.success + v.failed + ArticlesOf(v.articles) = n
      BY <1>1, VolumeFields DEF Tallied
    <2>2. u.success + u.failed + ArticlesOf(u.articles) = n
      BY <1>2, <2>1
    <2>3. u.today <= u.month
      BY <1>2, <2>1
    <2>4. u.today + BytesOf(u.daily) = SumOf(new, Instants)
      BY <1>2, <1>3, <2>1
    <2>5. u.month + BytesOf(u.monthly) = SumOf(new, Instants)
      BY <1>2, <1>3, <2>1
    <2> QED BY <1>2, <2>2, <2>3, <2>4, <2>5 DEF Tallied
  <1>5. \A day : Dated(v, day) => Dated(u, day)
    BY <1>2 DEF Dated
  <1>6. ASSUME Timed(v, rec, t) PROVE Timed(u, new, t)
    <2>1. Windows(v, rec) /\ UntilLast(v, rec) /\ (v.last = NotYet \/ v.last <= t)
      BY <1>6 DEF Timed
    <2>2. Windows(u, new) /\ UntilLast(u, new)
      BY <1>1, <2>1, WindowsRecord DEF u, new
    <2>3. u.last <= t
      BY <1>2, FiniteInstants
    <2> QED BY <2>2, <2>3 DEF Timed
  <1> QED BY <1>4, <1>5, <1>6

(* A snapshot.                                                             *)
LEMMA AdvanceKeeps ==
    ASSUME NEW v, NEW rec, NEW n, NEW t \in Instants, Tallied(v, rec, n),
           NEW u, u = advance_to(v, t)
    PROVE  /\ Tallied(u, rec, n) /\ u.last = t
           /\ u.daily = v.daily /\ u.articles = v.articles
           /\ \A day : Dated(v, day) => Dated(u, day)
           /\ Timed(v, rec, t) => Timed(u, rec, t)
  <1>1. IsVolume(v) /\ t \in Nat
    BY FiniteInstants DEF Tallied
  <1>2. IsVolume(u) /\ u.last = t /\ u = [v EXCEPT !.last = t, !.rings = u.rings]
    BY <1>1, Advanced
  <1>3. /\ u.today = v.today /\ u.month = v.month
        /\ u.daily = v.daily /\ u.monthly = v.monthly /\ u.articles = v.articles
        /\ u.success = v.success /\ u.failed = v.failed
    <2>1. v \in VolumeOf
      BY <1>1 DEF IsVolume
    <2> QED BY <1>2, <2>1 DEF VolumeOf
  <1>4. Tallied(u, rec, n)
    BY <1>2, <1>3 DEF Tallied
  <1>5. \A day : Dated(v, day) => Dated(u, day)
    BY <1>3 DEF Dated
  <1>6. ASSUME Timed(v, rec, t) PROVE Timed(u, rec, t)
    <2>1. Windows(v, rec) /\ UntilLast(v, rec) /\ (v.last = NotYet \/ v.last <= t)
      BY <1>6 DEF Timed
    <2>2. Windows(u, rec) /\ UntilLast(u, rec)
      BY <1>1, <2>1, WindowsMove
    <2>3. u.last <= t
      BY <1>1, <1>2
    <2> QED BY <2>2, <2>3 DEF Timed
  <1> QED BY <1>2, <1>3, <1>4, <1>5, <1>6

(* A record of an article.                                                 *)
LEMMA ArticleKeeps ==
    ASSUME NEW v, NEW rec, NEW n \in Nat, Tallied(v, rec, n), NEW u,
           u = [v EXCEPT !.success = @ + 1] \/ u = [v EXCEPT !.failed = @ + 1]
    PROVE  /\ Tallied(u, rec, n + 1)
           /\ \A day : Dated(v, day) => Dated(u, day)
           /\ \A now : Timed(v, rec, now) => Timed(u, rec, now)
  <1>1. /\ IsVolume(v) /\ v \in VolumeOf /\ v.success \in Nat /\ v.failed \in Nat
        /\ ArticlesOf(v.articles) \in Nat /\ v.success + v.failed + ArticlesOf(v.articles) = n
    BY VolumeFields DEF Tallied
  <1> DEFINE a == v.success + 1
             b == v.failed + 1
  <1>2. a \in Nat /\ b \in Nat /\ a = v.success + 1 /\ b = v.failed + 1
    BY <1>1
  <1>3. u = [v EXCEPT !.success = a] \/ u = [v EXCEPT !.failed = b]
    OBVIOUS
  <1> HIDE DEF a, b
  <1>4. /\ u \in VolumeOf
        /\ (u.success = a /\ u.failed = v.failed) \/ (u.success = v.success /\ u.failed = b)
        /\ u.today = v.today /\ u.month = v.month
        /\ u.daily = v.daily /\ u.monthly = v.monthly /\ u.articles = v.articles
        /\ u.rings = v.rings /\ u.last = v.last
    BY ONLY <1>1, <1>2, <1>3 DEF VolumeOf
  <1>5. IsVolume(u)
    BY <1>1, <1>4 DEF IsVolume
  <1>6. u.success + u.failed + ArticlesOf(u.articles) = n + 1
    BY <1>1, <1>2, <1>4
  <1>7. Tallied(u, rec, n + 1)
    BY <1>4, <1>5, <1>6 DEF Tallied
  <1>8. \A day : Dated(v, day) => Dated(u, day)
    BY <1>4 DEF Dated
  <1>9. \A now : Timed(v, rec, now) => Timed(u, rec, now)
    BY <1>4 DEF Timed, Windows, UntilLast
  <1> QED BY <1>7, <1>8, <1>9

LEMMA DatedOneMore ==
    ASSUME NEW day \in Nat, NEW next \in Nat, day < next,
           NEW rows \in ByteRows, NEW arts \in ArticleRows, DaysBefore(day, rows, arts),
           NEW x \in [day : Nat, bytes : Nat], x.day = day,
           NEW y \in [day : Nat, success : Nat, failed : Nat], y.day = day
    PROVE  DaysBefore(next, Append(rows, x), Append(arts, y))
  <1> DEFINE n == Len(rows)
             R == [day : Nat, bytes : Nat]
             A == [day : Nat, success : Nat, failed : Nat]
             more == Append(rows, x)
             marts == Append(arts, y)
  <1>1. rows \in Seq(R) /\ arts \in Seq(A) /\ x \in R /\ y \in A
    BY DEF ByteRows, ArticleRows
  <1>2. \A i \in 1..n : rows[i].day \in Nat
    BY ByteRowsAre
  <1> HIDE DEF R, A
  <1>3. /\ Len(more) = n + 1 /\ n \in Nat /\ more[n + 1] = x /\ \A i \in 1..n : more[i] = rows[i]
        /\ \A i \in 1..Len(more) : i \in 1..n \/ i = n + 1
    BY SMTT(30), <1>1, Appended
  <1>4. /\ Len(marts) = n + 1 /\ marts[n + 1] = y /\ \A i \in 1..n : marts[i] = arts[i]
    BY <1>1, Appended DEF DaysBefore
  <1>0. /\ Len(arts) = n
        /\ \A i \in 1..n : arts[i].day = rows[i].day /\ rows[i].day < day
        /\ \A i \in 1..n : \A j \in 1..n : i < j => rows[i].day < rows[j].day
    BY DEF DaysBefore
  <1> HIDE DEF n, more, marts
  <1>5. ASSUME NEW i \in 1..Len(more) PROVE marts[i].day = more[i].day /\ more[i].day < next
    <2>1. CASE i \in 1..n
      <3>1. marts[i] = arts[i] /\ more[i] = rows[i]
        BY <1>3, <1>4, <2>1
      <3>2. arts[i].day = rows[i].day /\ rows[i].day < day /\ rows[i].day \in Nat
        BY <1>0, <1>2, <2>1
      <3> QED BY <3>1, <3>2
    <2>2. CASE i = n + 1
      BY <1>3, <1>4, <2>2
    <2> QED BY <1>3, <2>1, <2>2
  <1>6. ASSUME NEW i \in 1..Len(more), NEW j \in 1..Len(more), i < j
        PROVE  more[i].day < more[j].day
    <2>1. i \in 1..n /\ more[i] = rows[i]
      BY <1>3, <1>6
    <2>2. CASE j \in 1..n
      <3>1. more[j] = rows[j] /\ rows[i].day < rows[j].day
        BY <1>0, <1>3, <1>6, <2>1, <2>2
      <3> QED BY <2>1, <3>1
    <2>3. CASE j = n + 1
      BY <1>0, <1>2, <1>3, <2>1, <2>3
    <2> QED BY <1>3, <2>2, <2>3
  <1> QED BY <1>3, <1>4, <1>5, <1>6 DEF DaysBefore, more, marts

(* The roll of a day.                                                      *)
LEMMA RollKeeps ==
    ASSUME NEW v, NEW rec, NEW n, Tallied(v, rec, n), Dated(v, last_day),
           last_day \in Nat, Today \in Nat, last_day < Today, NEW u, u = Rolled(v)
    PROVE  /\ Tallied(u, rec, n) /\ Dated(u, Today)
           /\ \A now : Timed(v, rec, now) => Timed(u, rec, now)
  <1> DEFINE x == [day |-> last_day, bytes |-> v.today]
             y == [day |-> last_day, success |-> v.success, failed |-> v.failed]
             z == [day |-> last_day, bytes |-> v.month]
             D == Append(v.daily, x)
             A == Append(v.articles, y)
             M == Append(v.monthly, z)
             w == [v EXCEPT !.daily = D, !.articles = A, !.today = 0, !.success = 0, !.failed = 0]
  <1>1. /\ IsVolume(v) /\ v \in VolumeOf
        /\ v.today \in Nat /\ v.month \in Nat /\ v.success \in Nat /\ v.failed \in Nat
        /\ v.daily \in ByteRows /\ v.monthly \in ByteRows /\ v.articles \in ArticleRows
        /\ BytesOf(v.daily) \in Nat /\ BytesOf(v.monthly) \in Nat /\ ArticlesOf(v.articles) \in Nat
    BY VolumeFields DEF Tallied
  <1>2. /\ v.today <= v.month
        /\ v.today + BytesOf(v.daily) = SumOf(rec, Instants)
        /\ v.month + BytesOf(v.monthly) = SumOf(rec, Instants)
        /\ v.success + v.failed + ArticlesOf(v.articles) = n
    BY DEF Tallied
  <1>3. /\ x \in [day : Nat, bytes : Nat] /\ x.day = last_day /\ x.bytes = v.today
        /\ z \in [day : Nat, bytes : Nat] /\ z.bytes = v.month
        /\ y \in [day : Nat, success : Nat, failed : Nat] /\ y.day = last_day
        /\ y.success = v.success /\ y.failed = v.failed
    BY <1>1
  <1> HIDE DEF x, y, z
  <1>4. /\ D \in ByteRows /\ BytesOf(D) = BytesOf(v.daily) + v.today
        /\ M \in ByteRows /\ BytesOf(M) = BytesOf(v.monthly) + v.month
        /\ A \in ArticleRows /\ ArticlesOf(A) = ArticlesOf(v.articles) + v.success + v.failed
    BY <1>1, <1>3, RowsAddUp
  <1>5. u = IF MonthEnds THEN [w EXCEPT !.monthly = Append(@, [day |-> last_day, bytes |-> v.month]), !.month = 0] ELSE w
    BY DEF Rolled, x, y
  <1>6. DaysBefore(last_day, v.daily, v.articles)
    BY DEF Dated
  <1>7. DaysBefore(Today, D, A)
    BY <1>1, <1>3, <1>6, DatedOneMore
  <1> HIDE DEF D, A, M
  <1>8. /\ w \in VolumeOf /\ w.daily = D /\ w.articles = A /\ w.today = 0 /\ w.success = 0 /\ w.failed = 0
        /\ w.month = v.month /\ w.monthly = v.monthly /\ w.rings = v.rings /\ w.last = v.last
    BY <1>1, <1>4 DEF VolumeOf
  <1> HIDE DEF w
  <1>9. /\ u \in VolumeOf /\ u.daily = D /\ u.articles = A /\ u.today = 0 /\ u.success = 0 /\ u.failed = 0
        /\ u.rings = v.rings /\ u.last = v.last
        /\ (u.month = v.month /\ u.monthly = v.monthly) \/ (u.month = 0 /\ u.monthly = M)
    <2>1. CASE ~MonthEnds
      BY <1>5, <1>8, <2>1
    <2>2. CASE MonthEnds
      <3>1. u = [w EXCEPT !.monthly = M, !.month = 0]
        BY <1>5, <1>8, <2>2 DEF M, z
      <3> QED BY <1>4, <1>8, <3>1 DEF VolumeOf
    <2> QED BY <2>1, <2>2
  <1>10. IsVolume(u)
    BY <1>1, <1>9 DEF IsVolume
  <1>11. Tallied(u, rec, n)
    <2>1. u.today <= u.month
      BY <1>1, <1>9
    <2>2. u.today + BytesOf(u.daily) = SumOf(rec, Instants)
      BY <1>1, <1>2, <1>4, <1>9
    <2>3. u.month + BytesOf(u.monthly) = SumOf(rec, Instants)
      BY <1>1, <1>2, <1>4, <1>9
    <2>4. u.success + u.failed + ArticlesOf(u.articles) = n
      BY <1>1, <1>2, <1>4, <1>9
    <2> QED BY <1>10, <2>1, <2>2, <2>3, <2>4 DEF Tallied
  <1>12. Dated(u, Today)
    BY <1>7, <1>9 DEF Dated
  <1>13. \A now : Timed(v, rec, now) => Timed(u, rec, now)
    BY <1>9 DEF Timed, Windows, UntilLast
  <1> QED BY <1>11, <1>12, <1>13

(* A row has its day to itself, so that it is the one that is shown.       *)
LEMMA ShownByDay ==
    ASSUME NEW v, NEW today, NEW rows, IsSequence(rows), NEW none, NEW current,
           \A i \in 1..Len(rows) : \A j \in 1..Len(rows) : rows[i].day = rows[j].day => i = j,
           NEW day \in FirstDay(v, today)..today
    PROVE  LET shown == ByDay(v, today, rows, none, current)[day]
           IN /\ day = today => shown = current
              /\ day # today => \/ \E i \in 1..Len(rows) : rows[i].day = day /\ shown = rows[i]
                                \/ shown = none /\ \A i \in 1..Len(rows) : rows[i].day # day
  <1> DEFINE at == {i \in DOMAIN rows : rows[i].day = day}
             last == CHOOSE i \in at : \A j \in at : j <= i
             shown == ByDay(v, today, rows, none, current)[day]
  <1>1. shown = IF day = today THEN current ELSE IF at = {} THEN none ELSE rows[last]
    BY DEF ByDay
  <1> HIDE DEF shown
  <1>2. DOMAIN rows = 1..Len(rows) /\ Len(rows) \in Nat
    BY DEF IsSequence
  <1>3. ASSUME at # {} PROVE last \in at
    <2>1. PICK i \in at : TRUE
      BY <1>3
    <2>2. \A j \in at : j <= i
      BY <1>2, <2>1
    <2> QED BY <2>1, <2>2
  <1>4. at # {} => last \in 1..Len(rows) /\ rows[last].day = day
    BY <1>2, <1>3
  <1>5. at = {} => \A i \in 1..Len(rows) : rows[i].day # day
    BY <1>2
  <1> HIDE DEF at, last
  <1> QED BY <1>1, <1>4, <1>5 DEF shown

-----------------------------------------------------------------------------
(* The volume of each server, from the counters to the rings.              *)
VolumeTypes ==
    /\ epoch \in Instants /\ last_day \in Nat /\ last_day <= Today
    /\ Tracked \subseteq Servers
    /\ received \in [Servers -> [Instants -> Nat]]
    /\ outcomes \in [Servers -> Nat]

Known(s) ==
    /\ Tallied(OrDefault(s), received[s], outcomes[s])
    /\ Dated(OrDefault(s), last_day)
    /\ set_back \/ Timed(OrDefault(s), received[s], epoch)

VolumeInv == VolumeTypes /\ \A s \in Servers : Known(s)

LEMMA TodayIs ==
    ASSUME epoch \in Instants
    PROVE  Today \in Nat /\ epoch \in Nat
  <1>1. epoch \in Nat /\ epoch \in Int /\ 0 \in Int /\ 0 <= epoch /\ DaySeconds \in Nat \ {0}
    BY FiniteInstants, VolumeAssumption
  <1>2. 0 \div DaySeconds <= epoch \div DaySeconds
    BY <1>1, QuotientGrows
  <1>3. 0 \div DaySeconds = 0
    BY <1>1, QuotientIs
  <1>4. epoch \div DaySeconds \in Int
    BY <1>1, Euclid
  <1> QED BY <1>1, <1>2, <1>3, <1>4 DEF Today

LEMMA VolumeInitially == VolumeInit => VolumeInv
  <1> SUFFICES ASSUME VolumeInit PROVE VolumeInv
    OBVIOUS
  <1>1. /\ epoch = 0 /\ set_back = FALSE /\ last_day = 0 /\ volumes = <<>>
        /\ received = [s \in Servers |-> [t \in Instants |-> 0]]
        /\ outcomes = [s \in Servers |-> 0]
    BY DEF VolumeInit
  <1>2. epoch \in Instants
    BY <1>1, VolumeAssumption DEF Instants
  <1>3. Tracked = {}
    BY <1>1 DEF Tracked
  <1>4. Today \in Nat
    BY <1>2, TodayIs
  <1>5. VolumeTypes
    BY <1>1, <1>2, <1>3, <1>4 DEF VolumeTypes
  <1>6. ASSUME NEW s \in Servers PROVE Known(s)
    <2>1. OrDefault(s) = DefaultVolume
      BY <1>3 DEF OrDefault
    <2>2. \A t \in Instants : received[s][t] = 0
      BY <1>1
    <2>3. outcomes[s] = 0
      BY <1>1
    <2> QED BY <2>1, <2>2, <2>3, DefaultIsTallied DEF Known
  <1> QED BY <1>5, <1>6 DEF VolumeInv

(* What was recorded of a server is what it is found to have; of the       *)
(* others nothing changes.                                                 *)
LEMMA Stored ==
    ASSUME NEW s \in Servers, NEW v, Store(s, v), Tracked \subseteq Servers
    PROVE  /\ Tracked' \subseteq Servers
           /\ \A x \in Servers : OrDefault(x)' = IF x = s THEN v ELSE OrDefault(x)
  <1>1. volumes' = [x \in Tracked \cup {s} |-> IF x = s THEN v ELSE volumes[x]]
    BY DEF Store
  <1>2. Tracked' = Tracked \cup {s}
    BY <1>1 DEF Tracked
  <1> QED BY <1>1, <1>2 DEF OrDefault

LEMMA EmptyDated == \A day : Dated(DefaultVolume, day)
  <1>1. \A t \in Instants : [x \in Instants |-> 0][t] = 0
    OBVIOUS
  <1> QED BY <1>1, DefaultIsTallied

LEMMA RecordBytesKeeps ==
    ASSUME VolumeInv, NEW s \in Servers, record_bytes(s)
    PROVE  VolumeInv'
  <1> DEFINE v == OrDefault(s)
             u == record(v, 1, epoch)
             rec == received[s]
             new == [rec EXCEPT ![epoch] = @ + 1]
  <1>1. /\ Store(s, u) /\ received' = [received EXCEPT ![s][epoch] = @ + 1]
        /\ epoch' = epoch /\ set_back' = set_back /\ last_day' = last_day /\ outcomes' = outcomes
    BY DEF record_bytes
  <1>2. VolumeTypes /\ \A x \in Servers : Known(x)
    BY DEF VolumeInv
  <1>3. rec \in [Instants -> Nat] /\ epoch \in Instants /\ new \in [Instants -> Nat]
    BY <1>2 DEF VolumeTypes
  <1>4. /\ Tracked' \subseteq Servers
        /\ \A x \in Servers : OrDefault(x)' = IF x = s THEN u ELSE OrDefault(x)
    <2> HIDE DEF u
    <2> QED BY <1>1, <1>2, Stored DEF VolumeTypes
  <1>5. \A x \in Servers : received'[x] = IF x = s THEN new ELSE received[x]
    BY <1>1, <1>2 DEF VolumeTypes
  <1>6. received' \in [Servers -> [Instants -> Nat]]
    BY <1>1, <1>2, <1>3 DEF VolumeTypes
  <1>7. VolumeTypes'
    BY <1>1, <1>2, <1>4, <1>6 DEF VolumeTypes, Today
  <1>8. /\ Tallied(v, rec, outcomes[s]) => Tallied(u, new, outcomes[s])
        /\ \A day : Tallied(v, rec, outcomes[s]) /\ Dated(v, day) => Dated(u, day)
        /\ Tallied(v, rec, outcomes[s]) /\ Timed(v, rec, epoch) => Timed(u, new, epoch)
    <2> DEFINE t == epoch
               n == outcomes[s]
    <2>1. /\ rec \in [Instants -> Nat] /\ t \in Instants
          /\ u = record(v, 1, t) /\ new = OneMore(rec, t)
      BY <1>3 DEF OneMore
    <2> HIDE DEF v, rec, u, new, t, n
    <2>2. /\ Tallied(v, rec, n) => Tallied(u, new, n)
          /\ \A day : Tallied(v, rec, n) /\ Dated(v, day) => Dated(u, day)
          /\ Tallied(v, rec, n) /\ Timed(v, rec, t) => Timed(u, new, t)
      BY <2>1, RecordKeeps
    <2> QED BY <2>2 DEF n, t
  <1> HIDE DEF u, new
  <1>9. ASSUME NEW x \in Servers PROVE Known(x)'
    <2>1. Known(x)
      BY <1>2
    <2>2. CASE x = s
      <3>1. OrDefault(x)' = u /\ received'[x] = new
        BY <1>4, <1>5, <2>2
      <3> QED BY <1>1, <1>8, <2>1, <2>2, <3>1 DEF Known
    <2>3. CASE x # s
      <3>1. OrDefault(x)' = OrDefault(x) /\ received'[x] = received[x]
        BY <1>4, <1>5, <2>3
      <3> QED BY <1>1, <2>1, <3>1 DEF Known
    <2> QED BY <2>2, <2>3
  <1> QED BY <1>7, <1>9 DEF VolumeInv

LEMMA RecordArticleKeeps ==
    ASSUME VolumeInv, NEW s \in Servers, NEW o, record_article(s, o)
    PROVE  VolumeInv'
  <1> DEFINE v == OrDefault(s)
             u == IF o = "success" THEN [v EXCEPT !.success = @ + 1] ELSE [v EXCEPT !.failed = @ + 1]
             n == outcomes[s]
  <1>1. /\ Store(s, u) /\ outcomes' = [outcomes EXCEPT ![s] = @ + 1]
        /\ epoch' = epoch /\ set_back' = set_back /\ last_day' = last_day /\ received' = received
    BY DEF record_article
  <1>2. VolumeTypes /\ \A x \in Servers : Known(x)
    BY DEF VolumeInv
  <1>3. n \in Nat
    BY <1>2 DEF VolumeTypes
  <1>4. u = [v EXCEPT !.success = @ + 1] \/ u = [v EXCEPT !.failed = @ + 1]
    OBVIOUS
  <1>5. /\ Tracked' \subseteq Servers
        /\ \A x \in Servers : OrDefault(x)' = IF x = s THEN u ELSE OrDefault(x)
    <2> HIDE DEF u
    <2> QED BY <1>1, <1>2, Stored DEF VolumeTypes
  <1>6. \A x \in Servers : outcomes'[x] = IF x = s THEN n + 1 ELSE outcomes[x]
    BY <1>1, <1>2 DEF VolumeTypes
  <1>7. VolumeTypes'
    BY <1>1, <1>2, <1>3, <1>5 DEF VolumeTypes, Today
  <1>8. Known(s)
    BY <1>2
  <1> HIDE DEF u
  <1>9. /\ Tallied(u, received[s], n + 1)
        /\ \A day : Dated(v, day) => Dated(u, day)
        /\ \A now : Timed(v, received[s], now) => Timed(u, received[s], now)
    <2>1. Tallied(v, received[s], n)
      BY <1>8 DEF Known
    <2> DEFINE rec == received[s]
    <2>2. Tallied(v, rec, n)
      BY <2>1
    <2> HIDE DEF v, rec, n
    <2>3. /\ Tallied(u, rec, n + 1)
          /\ \A day : Dated(v, day) => Dated(u, day)
          /\ \A now : Timed(v, rec, now) => Timed(u, rec, now)
      BY <1>3, <1>4, <2>2, ArticleKeeps
    <2> QED BY <2>3 DEF rec
  <1>10. ASSUME NEW x \in Servers PROVE Known(x)'
    <2>1. Known(x)
      BY <1>2
    <2>2. CASE x = s
      <3>1. OrDefault(x)' = u /\ outcomes'[x] = n + 1
        BY <1>5, <1>6, <2>2
      <3> QED BY <1>1, <1>9, <2>1, <2>2, <3>1 DEF Known
    <2>3. CASE x # s
      <3>1. OrDefault(x)' = OrDefault(x) /\ outcomes'[x] = outcomes[x]
        BY <1>5, <1>6, <2>3
      <3> QED BY <1>1, <2>1, <3>1 DEF Known
    <2> QED BY <2>2, <2>3
  <1> QED BY <1>7, <1>10 DEF VolumeInv

LEMMA RollDayKeeps ==
    ASSUME VolumeInv, roll_day
    PROVE  VolumeInv'
  <1>1. /\ Today # last_day /\ last_day' = Today /\ volumes' = [s \in Tracked |-> Rolled(volumes[s])]
        /\ epoch' = epoch /\ set_back' = set_back /\ received' = received /\ outcomes' = outcomes
    BY DEF roll_day
  <1>2. VolumeTypes /\ \A x \in Servers : Known(x)
    BY DEF VolumeInv
  <1>3. /\ Today \in Nat /\ last_day \in Nat /\ last_day < Today
        /\ Today' = Today
    <2>1. Today \in Nat /\ last_day \in Nat /\ last_day <= Today
      BY <1>2, TodayIs DEF VolumeTypes
    <2> QED BY <1>1, <2>1 DEF Today
  <1>4. Tracked' = Tracked
    BY <1>1 DEF Tracked
  <1>5. VolumeTypes'
    BY <1>1, <1>2, <1>3, <1>4 DEF VolumeTypes
  <1>6. ASSUME NEW x \in Servers PROVE Known(x)'
    <2>1. /\ Tallied(OrDefault(x), received[x], outcomes[x])
          /\ Dated(OrDefault(x), last_day)
          /\ set_back \/ Timed(OrDefault(x), received[x], epoch)
      BY <1>2 DEF Known
    <2>2. CASE x \in Tracked
      <3> DEFINE v == volumes[x]
                 u == Rolled(v)
                 rec == received[x]
                 n == outcomes[x]
      <3>1. OrDefault(x) = v /\ OrDefault(x)' = u
        BY <1>1, <1>4, <2>2 DEF OrDefault
      <3>2. Tallied(v, rec, n) /\ Dated(v, last_day)
        BY <2>1, <3>1
      <3>3. /\ Tallied(u, rec, n) /\ Dated(u, Today)
            /\ \A now : Timed(v, rec, now) => Timed(u, rec, now)
        <4> HIDE DEF v, rec, n
        <4> QED BY <1>3, <3>2, RollKeeps
      <3> HIDE DEF u
      <3> QED BY <1>1, <2>1, <3>1, <3>3 DEF Known
    <2>3. CASE x \notin Tracked
      <3>1. OrDefault(x) = DefaultVolume /\ OrDefault(x)' = DefaultVolume
        BY <1>4, <2>3 DEF OrDefault
      <3>2. Dated(DefaultVolume, Today)
        BY EmptyDated
      <3> QED BY <1>1, <2>1, <3>1, <3>2 DEF Known
    <2> QED BY <2>2, <2>3
  <1> QED BY <1>5, <1>6 DEF VolumeInv

LEMMA ResetKeeps ==
    ASSUME VolumeInv, NEW which, reset_volume(which)
    PROVE  VolumeInv'
  <1> DEFINE zero == [t \in Instants |-> 0]
  <1>1. /\ volumes' = [s \in Tracked |-> IF s \in which THEN DefaultVolume ELSE volumes[s]]
        /\ received' = [s \in Servers |-> IF s \in which THEN zero ELSE received[s]]
        /\ outcomes' = [s \in Servers |-> IF s \in which THEN 0 ELSE outcomes[s]]
        /\ epoch' = epoch /\ set_back' = set_back /\ last_day' = last_day
    BY DEF reset_volume
  <1>2. VolumeTypes /\ \A x \in Servers : Known(x)
    BY DEF VolumeInv
  <1>3. Tracked' = Tracked
    BY <1>1 DEF Tracked
  <1>4. zero \in [Instants -> Nat] /\ \A t \in Instants : zero[t] = 0
    OBVIOUS
  <1> HIDE DEF zero
  <1>5. VolumeTypes'
    BY <1>1, <1>2, <1>3, <1>4 DEF VolumeTypes, Today
  <1>6. ASSUME NEW x \in Servers PROVE Known(x)'
    <2>1. Known(x)
      BY <1>2
    <2>2. CASE x \in which
      <3>1. OrDefault(x)' = DefaultVolume /\ received'[x] = zero /\ outcomes'[x] = 0
        BY <1>1, <1>3, <2>2 DEF OrDefault
      <3> QED BY <1>4, <3>1, DefaultIsTallied DEF Known
    <2>3. CASE x \notin which
      <3>1. OrDefault(x)' = OrDefault(x) /\ received'[x] = received[x] /\ outcomes'[x] = outcomes[x]
        BY <1>1, <1>3, <2>3 DEF OrDefault
      <3> QED BY <1>1, <2>1, <3>1 DEF Known
    <2> QED BY <2>2, <2>3
  <1> QED BY <1>5, <1>6 DEF VolumeInv

LEMMA SnapshotKeeps ==
    ASSUME VolumeInv, snapshot_with_date
    PROVE  VolumeInv'
  <1>1. /\ volumes' = [s \in Tracked |-> advance_to(volumes[s], epoch)]
        /\ epoch' = epoch /\ set_back' = set_back /\ last_day' = last_day
        /\ received' = received /\ outcomes' = outcomes
    BY DEF snapshot_with_date
  <1>2. VolumeTypes /\ \A x \in Servers : Known(x)
    BY DEF VolumeInv
  <1>3. Tracked' = Tracked
    BY <1>1 DEF Tracked
  <1>4. VolumeTypes'
    BY <1>1, <1>2, <1>3 DEF VolumeTypes, Today
  <1>5. ASSUME NEW x \in Servers PROVE Known(x)'
    <2>1. /\ Tallied(OrDefault(x), received[x], outcomes[x])
          /\ Dated(OrDefault(x), last_day)
          /\ set_back \/ Timed(OrDefault(x), received[x], epoch)
      BY <1>2 DEF Known
    <2>2. CASE x \in Tracked
      <3> DEFINE v == volumes[x]
                 u == advance_to(v, epoch)
                 rec == received[x]
                 n == outcomes[x]
      <3>1. OrDefault(x) = v /\ OrDefault(x)' = u
        BY <1>1, <1>3, <2>2 DEF OrDefault
      <3>2. Tallied(v, rec, n) /\ epoch \in Instants
        BY <1>2, <2>1, <3>1 DEF VolumeTypes
      <3>3. /\ Tallied(u, rec, n)
            /\ \A day : Dated(v, day) => Dated(u, day)
            /\ Timed(v, rec, epoch) => Timed(u, rec, epoch)
        <4> HIDE DEF v, rec, n
        <4> QED BY <3>2, AdvanceKeeps
      <3> HIDE DEF u
      <3> QED BY <1>1, <2>1, <3>1, <3>3 DEF Known
    <2>3. CASE x \notin Tracked
      <3>1. OrDefault(x) = DefaultVolume /\ OrDefault(x)' = DefaultVolume
        BY <1>3, <2>3 DEF OrDefault
      <3> QED BY <1>1, <2>1, <3>1 DEF Known
    <2> QED BY <2>2, <2>3
  <1> QED BY <1>4, <1>5 DEF VolumeInv

LEMMA ClockKeeps ==
    ASSUME VolumeInv, SecondPasses \/ ClockSetBack
    PROVE  VolumeInv'
  <1>1. /\ volumes' = volumes /\ last_day' = last_day
        /\ received' = received /\ outcomes' = outcomes /\ epoch' \in Instants
        /\ \/ set_back' = set_back /\ epoch' = epoch + 1
           \/ set_back' = TRUE /\ epoch' \div DaySeconds = Today
    BY DEF SecondPasses, ClockSetBack
  <1>2. VolumeTypes /\ \A x \in Servers : Known(x)
    BY DEF VolumeInv
  <1>3. Today \in Nat /\ epoch \in Nat /\ last_day \in Nat /\ last_day <= Today
    BY <1>2, TodayIs DEF VolumeTypes
  <1>4. last_day <= Today'
    <2>1. CASE epoch' = epoch + 1
      <3>1. epoch \in Int /\ epoch' \in Int /\ epoch <= epoch' /\ DaySeconds \in Nat \ {0}
        BY <1>3, <2>1, VolumeAssumption
      <3>2. epoch \div DaySeconds <= epoch' \div DaySeconds
        BY <3>1, QuotientGrows
      <3>3. epoch' \div DaySeconds \in Int
        BY <3>1, Euclid
      <3> QED BY <1>3, <3>2, <3>3 DEF Today
    <2>2. CASE epoch' \div DaySeconds = Today
      <3>1. Today' = Today
        BY <2>2 DEF Today
      <3> QED BY <1>3, <3>1
    <2> QED BY <1>1, <2>1, <2>2
  <1>5. VolumeTypes'
    BY <1>1, <1>2, <1>4 DEF VolumeTypes, Tracked
  <1>6. ASSUME NEW x \in Servers PROVE Known(x)'
    <2> DEFINE v == OrDefault(x)
               rec == received[x]
    <2>1. Tallied(v, rec, outcomes[x]) /\ Dated(v, last_day) /\ (set_back \/ Timed(v, rec, epoch))
      BY <1>2 DEF Known
    <2>2. OrDefault(x)' = v
      BY <1>1 DEF OrDefault, Tracked
    <2> HIDE DEF v, rec
    <2>3. set_back' \/ Timed(v, rec, epoch')
      <3>1. ASSUME Timed(v, rec, epoch), epoch' = epoch + 1 PROVE Timed(v, rec, epoch')
        <4>1. v.last = NotYet \/ v.last \in Nat
          BY <2>1, VolumeFields DEF Tallied
        <4> QED BY <1>3, <3>1, <4>1 DEF Timed
      <3> QED BY <1>1, <2>1, <3>1
    <2> QED BY <1>1, <2>1, <2>2, <2>3 DEF Known, rec
  <1> QED BY <1>5, <1>6 DEF VolumeInv

LEMMA VolumeStutters ==
    ASSUME VolumeInv, UNCHANGED volumeVars
    PROVE  VolumeInv'
  BY DEF VolumeInv, VolumeTypes, Known, Tracked, OrDefault, Today, volumeVars

(* For every server, at every moment: the counters are what was received,  *)
(* the history has each day once, and until the clock is set back the      *)
(* rings are windows on what was received until their last update.         *)
THEOREM VolumeInvCorrect == VolumeSpec => []VolumeInv
  <1>1. VolumeInv /\ [VolumeNext]_volumeVars => VolumeInv'
    <2> SUFFICES ASSUME VolumeInv, [VolumeNext]_volumeVars PROVE VolumeInv'
      OBVIOUS
    <2>1. CASE SecondPasses
      BY <2>1, ClockKeeps
    <2>2. CASE ClockSetBack
      BY <2>2, ClockKeeps
    <2>3. CASE roll_day
      BY <2>3, RollDayKeeps
    <2>4. CASE snapshot_with_date
      BY <2>4, SnapshotKeeps
    <2>5. CASE reset_volume(Servers)
      BY <2>5, ResetKeeps
    <2>6. ASSUME NEW s \in Servers, record_bytes(s) PROVE VolumeInv'
      BY <2>6, RecordBytesKeeps
    <2>7. ASSUME NEW s \in Servers, reset_volume({s}) PROVE VolumeInv'
      BY <2>7, ResetKeeps
    <2>8. ASSUME NEW s \in Servers, NEW o \in {"success", "failed"}, record_article(s, o)
          PROVE  VolumeInv'
      BY <2>8, RecordArticleKeeps
    <2>9. CASE UNCHANGED volumeVars
      BY <2>9, VolumeStutters
    <2> QED BY <2>1, <2>2, <2>3, <2>4, <2>5, <2>6, <2>7, <2>8, <2>9 DEF VolumeNext
  <1> QED BY <1>1, VolumeInitially, PTL DEF VolumeSpec

LEMMA BetweenIs ==
    ASSUME VolumeInv, NEW s \in Servers, NEW r \in Rings, NEW k \in Int
    PROVE  Between(s, k * Unit[r], k * Unit[r] + Unit[r] - 1) = SumOf(received[s], InSlot(r, k))
  <1> DEFINE rec == received[s]
             D == {x \in Instants : k * Unit[r] <= x /\ x <= k * Unit[r] + Unit[r] - 1}
             f == [t \in D |-> rec[t]]
  <1>1. rec \in [Instants -> Nat]
    BY DEF VolumeInv, VolumeTypes
  <1>2. InSlot(r, k) = D
    BY Slots
  <1>3. Between(s, k * Unit[r], k * Unit[r] + Unit[r] - 1) = SumOver(f)
    BY DEF Between
  <1>4. D \subseteq Instants /\ IsFiniteSet(D)
    BY FiniteInstants, FS_Subset
  <1>5. DOMAIN f = D /\ \A x \in D : f[x] = rec[x] /\ rec[x] \in Int
    BY <1>1, <1>4
  <1> HIDE DEF f, D, rec
  <1>6. SumOver(f) = SumOf(f, D)
    BY <1>5, SumOverIs
  <1>7. SumOf(f, D) = SumOf(rec, D)
    BY <1>4, <1>5, SumOfSame
  <1> QED BY <1>2, <1>3, <1>6, <1>7 DEF rec

LEMMA ReceivedIs ==
    ASSUME VolumeInv, NEW s \in Servers
    PROVE  SumOver(received[s]) = SumOf(received[s], Instants)
  <1>1. DOMAIN received[s] = Instants
    BY DEF VolumeInv, VolumeTypes
  <1> QED BY <1>1, SumOverIs

LEMMA RingsHold == ASSUME VolumeInv PROVE RingsAreWindows
  <1> SUFFICES ASSUME ~set_back, NEW s \in Tracked, NEW r \in Rings, volumes[s].last # NotYet,
                      NEW age \in 0..(Ring[r] - 1), age <= volumes[s].last \div Unit[r]
               PROVE  volumes[s].rings[r][(volumes[s].last \div Unit[r] - age) % Ring[r]]
                        = Between(s, (volumes[s].last \div Unit[r] - age) * Unit[r],
                                  (volumes[s].last \div Unit[r] - age) * Unit[r] + Unit[r] - 1)
    BY DEF RingsAreWindows
  <1> DEFINE v == volumes[s]
             at == v.last \div Unit[r]
             k == at - age
  <1>1. s \in Servers /\ OrDefault(s) = v
    BY DEF VolumeInv, VolumeTypes, OrDefault
  <1>2. Known(s)
    BY <1>1 DEF VolumeInv
  <1>3. Tallied(v, received[s], outcomes[s]) /\ Timed(v, received[s], epoch)
    BY <1>1, <1>2 DEF Known
  <1>4. v.last \in Nat
    BY <1>3, VolumeFields DEF Tallied
  <1>5. at \in Nat /\ k \in Int
    BY <1>4, Slots, VolumeAssumption
  <1>6. v.rings[r][k % Ring[r]] = SumOf(received[s], InSlot(r, k))
    BY <1>3 DEF Timed, Windows
  <1> HIDE DEF v, at, k
  <1>7. Between(s, k * Unit[r], k * Unit[r] + Unit[r] - 1) = SumOf(received[s], InSlot(r, k))
    BY <1>1, <1>5, BetweenIs
  <1>8. v.rings[r][k % Ring[r]] = Between(s, k * Unit[r], k * Unit[r] + Unit[r] - 1)
    BY <1>6, <1>7
  <1> QED BY <1>8 DEF k, at, v

LEMMA CountersHold == ASSUME VolumeInv PROVE CountersAddUp
  <1> SUFFICES ASSUME NEW s \in Servers
               PROVE  /\ OrDefault(s).today + BytesOf(OrDefault(s).daily) = SumOver(received[s])
                      /\ OrDefault(s).month + BytesOf(OrDefault(s).monthly) = SumOver(received[s])
                      /\ OrDefault(s).success + OrDefault(s).failed + ArticlesOf(OrDefault(s).articles)
                            = outcomes[s]
    BY DEF CountersAddUp
  <1>1. Known(s)
    BY DEF VolumeInv
  <1>2. Tallied(OrDefault(s), received[s], outcomes[s])
    BY <1>1 DEF Known
  <1> QED BY <1>2, ReceivedIs DEF Tallied

LEMMA StatusHolds == ASSUME VolumeInv, IsFiniteSet(Servers) PROVE StatusAddsUp
  <1> DEFINE d == [s \in Tracked |-> volumes[s].today]
             m == [s \in Tracked |-> volumes[s].month]
             T == Tracked
             shown == status(1, 0)
  <1>1. IsFiniteSet(T)
    BY FS_Subset DEF VolumeInv, VolumeTypes
  <1>2. ASSUME NEW s \in T PROVE m[s] \in Nat /\ d[s] \in Nat /\ d[s] <= m[s]
    <2>1. s \in Servers /\ OrDefault(s) = volumes[s]
      BY DEF VolumeInv, VolumeTypes, OrDefault
    <2>2. Tallied(volumes[s], received[s], outcomes[s])
      BY <2>1 DEF VolumeInv, Known
    <2> QED BY <2>2, VolumeFields DEF Tallied
  <1>3. DOMAIN d = T /\ DOMAIN m = T
    OBVIOUS
  <1>4. /\ shown.day = SumOver(d) /\ shown.month = SumOver(m)
        /\ SumOver(m) >= 1 => shown.quota_reached
        /\ status(0, 1).quota_reached => SumOver(d) >= 1
    BY DEF status, is_any_quota_reached
  <1> HIDE DEF d, m, T, shown
  <1>5. SumOver(d) = SumOf(d, T) /\ SumOver(m) = SumOf(m, T)
    BY <1>3, SumOverIs
  <1>6. SumOf(d, T) \in Nat /\ SumOf(m, T) \in Nat
    BY <1>1, <1>2, SumIsNat
  <1>7. SumOf(d, T) <= SumOf(m, T)
    BY <1>1, <1>2, SumNotLess
  <1>8. shown.month >= shown.day
    BY <1>4, <1>5, <1>6, <1>7
  <1>9. status(0, 1).quota_reached => shown.quota_reached
    BY <1>4, <1>5, <1>6, <1>7
  <1> QED BY <1>8, <1>9 DEF StatusAddsUp, shown

(* Rows of days before today, and today: what is shown of them adds up.    *)
ShownDays(h, w, g, n, past, all, today) ==
    /\ n \in Nat /\ IsFiniteSet(all) /\ past \in SUBSET all
    /\ today \in all \ past /\ past \union {today} = all
    /\ \A i \in 1..n : w[i] \in Int /\ g[i] \in past
    /\ \A i \in 1..n : \A j \in 1..n : g[i] = g[j] => i = j
    /\ \A d \in past : \/ \E i \in 1..n : g[i] = d /\ h[d] = w[i]
                       \/ h[d] = 0 /\ \A i \in 1..n : g[i] # d
    /\ h[today] \in Int

LEMMA ShownDaysAddUp ==
    ASSUME NEW h, NEW w, NEW g, NEW n, NEW past, NEW all, NEW today,
           ShownDays(h, w, g, n, past, all, today)
    PROVE  SumOf(h, all) = SumOf(w, 1..n) + h[today]
  <1>1. /\ n \in Nat /\ IsFiniteSet(all) /\ past \in SUBSET all
        /\ today \in all \ past /\ past \union {today} = all
        /\ \A i \in 1..n : w[i] \in Int /\ g[i] \in past
        /\ h[today] \in Int
    BY DEF ShownDays
  <1>2. IsFiniteSet(past)
    BY <1>1, FS_Subset
  <1>3. \A i \in 1..n : \A j \in 1..n : g[i] = g[j] => i = j
    BY DEF ShownDays
  <1>4. \A d \in past : \/ \E i \in 1..n : g[i] = d /\ h[d] = w[i]
                        \/ h[d] = 0 /\ \A i \in 1..n : g[i] # d
    BY DEF ShownDays
  <1>5. SumOf(h, past) = SumOf(w, 1..n)
    BY SMTT(30), <1>1, <1>2, <1>3, <1>4, DaysAddUp
  <1>6. \A d \in all : h[d] \in Int
    <2> TAKE d \in all
    <2>1. d \in past \/ d = today
      BY <1>1
    <2> QED BY <1>1, <1>4, <2>1
  <1>7. SumOf(h, past \union {today}) = SumOf(h, past) + h[today]
    BY <1>1, <1>6, SumMore
  <1>8. SumOf(h, all) = SumOf(h, past) + h[today]
    BY <1>1, <1>7, Zenon
  <1> QED BY <1>5, <1>8

(* What is shown of a volume.                                              *)
RowTotals(row, total, n) ==
    /\ row.total = total
    /\ SumOver([d \in DOMAIN row.days |-> row.days[d].bytes]) = row.total
    /\ SumOver([d \in DOMAIN row.articles |->
          row.articles[d].success + row.articles[d].failed]) = n

RowTrue(row, s) ==
    /\ RowTotals(row, SumOver(received[s]), outcomes[s])
    /\ \A r \in Rings :
          LET begins == (epoch \div Unit[r]) * Unit[r]
          IN \/ set_back
             \/ row.rings[r][row.slots[r]] = Between(s, begins, begins + Unit[r] - 1)

LEMMA RowIsShown ==
    ASSUME NEW w, NEW rec, NEW n, NEW today \in Nat, Tallied(w, rec, n), Dated(w, today),
           NEW now, NEW row, row = build_server_volume(w, today, now)
    PROVE  /\ RowTotals(row, SumOf(rec, Instants), n)
           /\ row.rings = w.rings
           /\ row.slots = [r \in Rings |-> (now \div Unit[r]) % Ring[r]]
  <1> DEFINE D == w.daily
             A == w.articles
             len == Len(D)
             past == FirstDay(w, today)..(today - 1)
             all == FirstDay(w, today)..today
             noBytes == [day |-> today, bytes |-> 0]
             nowBytes == [day |-> today, bytes |-> w.today]
             noArticles == [day |-> today, success |-> 0, failed |-> 0]
             nowArticles == [day |-> today, success |-> w.success, failed |-> w.failed]
             days == ByDay(w, today, D, noBytes, nowBytes)
             articles == ByDay(w, today, A, noArticles, nowArticles)
             hb == [d \in DOMAIN days |-> days[d].bytes]
             ha == [d \in DOMAIN articles |-> articles[d].success + articles[d].failed]
  <1>1. /\ row.days = days /\ row.articles = articles /\ row.rings = w.rings
        /\ row.slots = [r \in Rings |-> (now \div Unit[r]) % Ring[r]]
        /\ row.total = SumOver([i \in DOMAIN D |-> D[i].bytes]) + w.today
    BY DEF build_server_volume
  <1>2. DOMAIN days = all /\ DOMAIN articles = all
    BY DEF ByDay
  <1>3. /\ w.today \in Nat /\ w.success \in Nat /\ w.failed \in Nat
        /\ D \in ByteRows /\ A \in ArticleRows
        /\ w.today + BytesOf(D) = SumOf(rec, Instants)
        /\ w.success + w.failed + ArticlesOf(A) = n
    BY VolumeFields DEF Tallied
  <1>4. /\ BytesOf(D) = SumOf(ByteCounts(D), 1..len) /\ BytesOf(D) \in Nat
        /\ IsSequence(D) /\ len \in Nat
        /\ \A i \in 1..len : D[i].bytes \in Nat /\ D[i].day \in Nat /\ ByteCounts(D)[i] = D[i].bytes
    BY <1>3, ByteRowsAre
  <1>5. Len(A) = len /\ DaysBefore(today, D, A)
    BY DEF Dated, DaysBefore
  <1>6. /\ ArticlesOf(A) = SumOf(ArticleCounts(A), 1..len) /\ ArticlesOf(A) \in Nat
        /\ IsSequence(A)
        /\ \A i \in 1..len : /\ A[i].success \in Nat /\ A[i].failed \in Nat
                             /\ ArticleCounts(A)[i] = A[i].success + A[i].failed
    BY <1>3, <1>5, ArticleRowsAre
  <1>7. /\ \A i \in 1..len : A[i].day = D[i].day /\ D[i].day < today
        /\ \A i \in 1..len : \A j \in 1..len : i < j => D[i].day < D[j].day
    BY <1>5 DEF DaysBefore
  <1>8. \A i \in 1..len : \A j \in 1..len : D[i].day = D[j].day => i = j
    <2> SUFFICES ASSUME NEW i \in 1..len, NEW j \in 1..len, D[i].day = D[j].day PROVE i = j
      OBVIOUS
    <2>1. i < j => D[i].day < D[j].day
      BY <1>7
    <2>2. j < i => D[j].day < D[i].day
      BY <1>7
    <2>3. D[i].day \in Nat
      BY <1>4
    <2> QED BY <1>4, <2>1, <2>2, <2>3
  <1>9. SumOver([i \in DOMAIN D |-> D[i].bytes]) = BytesOf(D)
    <2> DEFINE f == [i \in DOMAIN D |-> D[i].bytes]
    <2>1. f = ByteCounts(D) /\ DOMAIN f = 1..len
      BY <1>4 DEF IsSequence, ByteCounts
    <2> HIDE DEF f
    <2>2. SumOver(f) = SumOf(f, 1..len)
      BY <2>1, SumOverIs
    <2> QED BY <1>4, <2>1, <2>2 DEF f
  <1>10. row.total = SumOf(rec, Instants)
    BY <1>1, <1>3, <1>4, <1>9
  <1>11. /\ FirstDay(w, today) \in Nat /\ FirstDay(w, today) <= today
         /\ \A i \in 1..len : FirstDay(w, today) <= D[i].day
    <2>1. CASE D = <<>>
      <3>1. len = 0 /\ 1..len = {}
        BY <1>4, <2>1, EmptyOrNot
      <3> QED BY <2>1, <3>1 DEF FirstDay
    <2>2. CASE D # <<>>
      <3>1. len # 0 /\ 1 \in 1..len
        BY <1>4, <2>2, EmptyOrNot
      <3>2. FirstDay(w, today) = D[1].day
        BY <2>2 DEF FirstDay
      <3>3. D[1].day \in Nat /\ D[1].day < today
        BY <1>4, <1>7, <3>1
      <3>4. ASSUME NEW i \in 1..len PROVE D[1].day <= D[i].day
        <4>1. 1 < i => D[1].day < D[i].day
          BY <1>7, <3>1
        <4>2. D[i].day \in Nat
          BY <1>4
        <4> QED BY <3>3, <4>1, <4>2
      <3> QED BY <3>2, <3>3, <3>4
    <2> QED BY <2>1, <2>2
  <1> DEFINE first == FirstDay(w, today)
  <1>12. /\ IsFiniteSet(all) /\ past \in SUBSET all /\ IsFiniteSet(past)
         /\ today \in all \ past /\ past \union {today} = all
         /\ \A i \in 1..len : D[i].day \in past
    <2>1. first \in Nat /\ first <= today /\ past = first..(today - 1) /\ all = first..today
      BY <1>11
    <2>2. ASSUME NEW i \in 1..len PROVE D[i].day \in past
      <3>1. D[i].day \in Nat /\ D[i].day < today /\ first <= D[i].day
        BY <1>4, <1>7, <1>11
      <3> QED BY <1>11, <3>1
    <2> HIDE DEF first, past, all, len
    <2>3. IsFiniteSet(all)
      <3>1. first \in Int /\ today \in Int
        BY <2>1
      <3> QED BY <2>1, <3>1, FS_Interval
    <2>4. past \in SUBSET all /\ today \in all \ past
      BY <2>1
    <2>5. past \union {today} = all
      BY <2>1
    <2> QED BY <2>2, <2>3, <2>4, <2>5, FS_Subset
  <1> HIDE DEF past, first
  <1>13. ASSUME NEW d \in past
         PROVE  /\ \/ \E i \in 1..len : D[i].day = d /\ days[d] = D[i]
                   \/ days[d] = noBytes /\ \A i \in 1..len : D[i].day # d
                /\ \/ \E i \in 1..len : A[i].day = d /\ articles[d] = A[i]
                   \/ articles[d] = noArticles /\ \A i \in 1..len : A[i].day # d
    <2>1. d \in FirstDay(w, today)..today /\ d # today
      BY <1>12
    <2>2. \A i \in 1..Len(A) : \A j \in 1..Len(A) : A[i].day = A[j].day => i = j
      BY <1>5, <1>7, <1>8
    <2> HIDE DEF noBytes, nowBytes, noArticles, nowArticles, D, A
    <2>3. \/ \E i \in 1..Len(D) : D[i].day = d /\ days[d] = D[i]
          \/ days[d] = noBytes /\ \A i \in 1..Len(D) : D[i].day # d
      <3>1. IsSequence(D)
        BY <1>4
      <3> QED BY ONLY <1>8, <2>1, <3>1, ShownByDay
    <2>4. \/ \E i \in 1..Len(A) : A[i].day = d /\ articles[d] = A[i]
          \/ articles[d] = noArticles /\ \A i \in 1..Len(A) : A[i].day # d
      <3>1. IsSequence(A)
        BY <1>6
      <3> QED BY ONLY <2>1, <2>2, <3>1, ShownByDay
    <2> QED BY <1>5, <2>3, <2>4
  <1>14. days[today] = nowBytes /\ articles[today] = nowArticles
    BY <1>12 DEF ByDay
  <1>15. \A d \in all : hb[d] = days[d].bytes /\ ha[d] = articles[d].success + articles[d].failed
    BY <1>2
  <1> HIDE DEF days, articles
  <1>16. /\ hb[today] = w.today /\ ha[today] = w.success + w.failed
    BY <1>12, <1>14, <1>15
  <1>17. /\ noBytes.bytes = 0 /\ noArticles.success + noArticles.failed = 0
    OBVIOUS
  <1>18. DOMAIN hb = all /\ DOMAIN ha = all
    BY <1>2
  <1> HIDE DEF hb, ha, noBytes, noArticles, nowBytes, nowArticles, D, A, all
  <1> DEFINE g == [i \in 1..len |-> D[i].day]
             wb == ByteCounts(D)
             wa == ArticleCounts(A)
  <1>19. /\ \A i \in 1..len : g[i] = D[i].day /\ g[i] \in past
         /\ \A i \in 1..len : \A j \in 1..len : g[i] = g[j] => i = j
    BY <1>8, <1>12
  <1>20. ASSUME NEW d \in past
         PROVE  /\ \/ \E i \in 1..len : g[i] = d /\ hb[d] = wb[i]
                   \/ hb[d] = 0 /\ \A i \in 1..len : g[i] # d
                /\ \/ \E i \in 1..len : g[i] = d /\ ha[d] = wa[i]
                   \/ ha[d] = 0 /\ \A i \in 1..len : g[i] # d
    <2>1. d \in all
      BY <1>12
    <2>2. hb[d] = days[d].bytes /\ ha[d] = articles[d].success + articles[d].failed
      BY <1>15, <2>1
    <2>3. \/ \E i \in 1..len : g[i] = d /\ hb[d] = wb[i]
          \/ hb[d] = 0 /\ \A i \in 1..len : g[i] # d
      <3> HIDE DEF g
      <3>1. \/ \E i \in 1..len : D[i].day = d /\ days[d] = D[i]
            \/ days[d] = noBytes /\ \A i \in 1..len : D[i].day # d
        BY <1>13
      <3>2. CASE \E i \in 1..len : D[i].day = d /\ days[d] = D[i]
        <4>1. PICK i \in 1..len : D[i].day = d /\ days[d] = D[i]
          BY <3>2
        <4>2. g[i] = d /\ hb[d] = wb[i]
          BY <1>4, <1>19, <2>2, <4>1
        <4> QED BY <4>2
      <3>3. CASE days[d] = noBytes /\ \A i \in 1..len : D[i].day # d
        BY <1>17, <1>19, <2>2, <3>3
      <3> QED BY <3>1, <3>2, <3>3
    <2>4. \/ \E i \in 1..len : g[i] = d /\ ha[d] = wa[i]
          \/ ha[d] = 0 /\ \A i \in 1..len : g[i] # d
      <3> HIDE DEF g
      <3>1. \/ \E i \in 1..len : A[i].day = d /\ articles[d] = A[i]
            \/ articles[d] = noArticles /\ \A i \in 1..len : A[i].day # d
        BY <1>13
      <3>2. CASE \E i \in 1..len : A[i].day = d /\ articles[d] = A[i]
        <4>1. PICK i \in 1..len : A[i].day = d /\ articles[d] = A[i]
          BY <3>2
        <4>2. g[i] = d /\ ha[d] = wa[i]
          BY <1>6, <1>7, <1>19, <2>2, <4>1
        <4> QED BY <4>2
      <3>3. CASE articles[d] = noArticles /\ \A i \in 1..len : A[i].day # d
        BY <1>7, <1>17, <1>19, <2>2, <3>3
      <3> QED BY <3>1, <3>2, <3>3
    <2> QED BY <2>3, <2>4
  <1>21. (\A i \in 1..len : wb[i] \in Int) /\ (\A i \in 1..len : wa[i] \in Int)
    <2>1. ASSUME NEW i \in 1..len PROVE wb[i] \in Int
      BY <1>4
    <2>2. ASSUME NEW i \in 1..len PROVE wa[i] \in Int
      <3>1. ArticleCounts(A)[i] = A[i].success + A[i].failed /\ A[i].success \in Nat /\ A[i].failed \in Nat
        BY <1>6
      <3> QED BY <3>1
    <2> QED BY <2>1, <2>2
  <1> HIDE DEF g, wb, wa
  <1>22. len \in Nat /\ \A i \in 1..len : g[i] \in past
    BY <1>4, <1>19
  <1> HIDE DEF len
  <1>23. ShownDays(hb, wb, g, len, past, all, today)
    <2>1. hb[today] \in Int
      BY <1>3, <1>16
    <2> QED BY <1>12, <1>19, <1>20, <1>21, <1>22, <2>1 DEF ShownDays
  <1>24. ShownDays(ha, wa, g, len, past, all, today)
    <2>1. ha[today] \in Int
      BY <1>3, <1>16
    <2> QED BY <1>12, <1>19, <1>20, <1>21, <1>22, <2>1 DEF ShownDays
  <1>25. SumOf(hb, all) = SumOf(wb, 1..len) + hb[today]
    BY ONLY <1>23, ShownDaysAddUp
  <1>26. SumOf(ha, all) = SumOf(wa, 1..len) + ha[today]
    BY ONLY <1>24, ShownDaysAddUp
  <1>27. SumOver(hb) = SumOf(hb, all) /\ SumOver(ha) = SumOf(ha, all)
    BY <1>18, SumOverIs
  <1>28. SumOver(hb) = BytesOf(D) + w.today
    BY <1>4, <1>16, <1>25, <1>27 DEF wb
  <1>29. SumOver(ha) = ArticlesOf(A) + (w.success + w.failed)
    BY <1>6, <1>16, <1>26, <1>27 DEF wa
  <1>30. SumOver(hb) = row.total /\ SumOver(ha) = n
    BY <1>3, <1>4, <1>6, <1>10, <1>28, <1>29
  <1>31. SumOver([d \in DOMAIN days |-> days[d].bytes]) = row.total
    BY <1>30 DEF hb
  <1>32. SumOver([d \in DOMAIN articles |-> articles[d].success + articles[d].failed]) = n
    BY <1>30 DEF ha
  <1>33. RowTotals(row, SumOf(rec, Instants), n)
    BY <1>1, <1>10, <1>31, <1>32 DEF RowTotals
  <1> QED BY <1>1, <1>33

LEMMA RowsHold == ASSUME VolumeInv PROVE RowsAreTrue
  <1> SUFFICES ASSUME NEW s \in Tracked
               PROVE  RowTrue(rpc_servervolumes(Servers \cup {0}, epoch)[s], s)
    BY DEF RowsAreTrue, RowTrue, RowTotals
  <1> DEFINE row == rpc_servervolumes(Servers \cup {0}, epoch)[s]
             v == volumes[s]
             w == advance_to(v, epoch)
             rec == received[s]
             n == outcomes[s]
  <1>1. /\ s \in Servers /\ OrDefault(s) = v /\ epoch \in Instants /\ last_day \in Nat
        /\ epoch \in Nat
    BY FiniteInstants DEF VolumeInv, VolumeTypes, OrDefault
  <1>2. Tallied(v, rec, n) /\ Dated(v, last_day) /\ (set_back \/ Timed(v, rec, epoch))
    BY <1>1 DEF VolumeInv, Known
  <1>3. row = build_server_volume(w, last_day, epoch)
    BY <1>1 DEF rpc_servervolumes
  <1>4. /\ Tallied(w, rec, n) /\ w.last = epoch /\ Dated(w, last_day)
        /\ set_back \/ Timed(w, rec, epoch)
    <2> DEFINE t == epoch
    <2>1. Tallied(v, rec, n) /\ t \in Instants /\ w = advance_to(v, t)
      BY <1>1, <1>2
    <2> HIDE DEF v, rec, n, w, t
    <2>2. /\ Tallied(w, rec, n) /\ w.last = t /\ \A day : Dated(v, day) => Dated(w, day)
          /\ Timed(v, rec, t) => Timed(w, rec, t)
      BY <2>1, AdvanceKeeps
    <2> QED BY <1>2, <2>2 DEF t
  <1>5. SumOver(rec) = SumOf(rec, Instants)
    BY <1>1, ReceivedIs
  <1> HIDE DEF v, w, rec, n, row
  <1>6. /\ RowTotals(row, SumOf(rec, Instants), n)
        /\ row.rings = w.rings
        /\ row.slots = [r \in Rings |-> (epoch \div Unit[r]) % Ring[r]]
    BY <1>1, <1>3, <1>4, RowIsShown
  <1>7. ASSUME NEW r \in Rings, ~set_back
        PROVE  row.rings[r][row.slots[r]] = Between(s, (epoch \div Unit[r]) * Unit[r],
                                            (epoch \div Unit[r]) * Unit[r] + Unit[r] - 1)
    <2> DEFINE k == epoch \div Unit[r]
    <2>1. k \in Nat /\ k \in Int /\ k - 0 = k /\ 0 \in 0..(Ring[r] - 1) /\ 0 <= k
      BY <1>1, Slots, VolumeAssumption
    <2>2. epoch # NotYet /\ Windows(w, rec)
      BY <1>1, <1>4, <1>7, VolumeAssumption DEF Timed
    <2>3. w.rings[r][(k - 0) % Ring[r]] = SumOf(rec, InSlot(r, k - 0))
      BY <1>4, <2>1, <2>2 DEF Windows
    <2>4. Between(s, k * Unit[r], k * Unit[r] + Unit[r] - 1) = SumOf(rec, InSlot(r, k))
      <3> HIDE DEF k
      <3> QED BY <1>1, <2>1, BetweenIs DEF rec
    <2>5. row.slots[r] = k % Ring[r]
      BY <1>6
    <2> HIDE DEF k
    <2>6. row.rings[r][row.slots[r]] = SumOf(rec, InSlot(r, k))
      BY <1>6, <2>1, <2>3, <2>5
    <2>7. row.rings[r][row.slots[r]] = Between(s, k * Unit[r], k * Unit[r] + Unit[r] - 1)
      BY <2>4, <2>6
    <2> QED BY <2>7 DEF k
  <1>8. RowTrue(row, s)
    BY <1>5, <1>6, <1>7 DEF RowTrue, rec, n
  <1> QED BY <1>8 DEF row

(* Whatever is recorded, rolled, reset and shown, in whatever order and    *)
(* with rings and days of any size: no byte and no article is counted      *)
(* twice or lost, the rings show the last seconds, minutes and hours, and  *)
(* a quota for the month is reached by a day that reaches it.              *)
THEOREM VolumesStayExact == VolumeSpec => []VolumesAreExact
  <1>1. VolumeInv => VolumesAreExact
    BY VolumeAssumption, RingsHold, CountersHold, StatusHolds, RowsHold DEF VolumesAreExact
  <1> QED BY <1>1, VolumeInvCorrect, PTL
=============================================================================
