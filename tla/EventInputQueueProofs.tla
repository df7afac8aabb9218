----------------------- MODULE EventInputQueueProofs ------------------------
(***************************************************************************)
(* Theorems about EventInputQueue, for every number of devices, keys,      *)
(* items and events, and every configuration.                              *)
(*                                                                         *)
(* First type correctness: what the operations on the two queues return,   *)
(* then what SimultaneousKeyPresses returns, then that every handler keeps *)
(* the type of every variable. Then the safety properties, each with its   *)
(* inductive invariant.                                                    *)
(*                                                                         *)
(* At the end: the queue leaves no key stuck or forgotten. What the        *)
(* hardware holds down, what PressingPhysicalKeys counts and what the      *)
(* remapper believes pressed follow one another through the queue, through *)
(* BlockUntilKeyUpHandler and through the devices that come and go. This   *)
(* is proved without simultaneous items and without the bouncing filter,   *)
(* with which the reset does come too early (see the run EIQ_chatter).     *)
(***************************************************************************)
EXTENDS EventInputQueue, SequenceTheorems, WellFoundedInduction, TLAPS

-----------------------------------------------------------------------------
(* Numbers and sequences *)

\* A set of natural numbers that is not empty has a least member.
LEMMA MinExists ==
  ASSUME NEW T \in SUBSET Nat, T # {}
  PROVE  \E x \in T : \A y \in T : x <= y
<1> DEFINE R == {p \in Nat \X Nat : p[1] < p[2]}
<1>1. IsWellFoundedOn(R, Nat)
  BY NatLessThanWellFounded DEF OpToRel
<1>2. PICK x \in T : \A y \in T : ~(<<y, x>> \in R)
  BY <1>1, WFMin
<1>3. ASSUME NEW y \in T PROVE x <= y
  <2>1. y < x => <<y, x>> \in R
    OBVIOUS
  <2> QED
    BY <1>2, <2>1
<1> QED
  BY <1>3

\* A bounded set of natural numbers that is not empty has a greatest member.
LEMMA MaxExists ==
  ASSUME NEW n \in Nat, NEW T \in SUBSET (0..n), T # {}
  PROVE  \E x \in T : \A y \in T : y <= x
<1> DEFINE D == {n - x : x \in T}
<1>1. D \in SUBSET Nat /\ D # {}
  OBVIOUS
<1>2. PICK d \in D : \A e \in D : d <= e
  <2> HIDE DEF D
  <2> QED
    BY <1>1, MinExists
<1>3. PICK x \in T : d = n - x
  OBVIOUS
<1>4. ASSUME NEW y \in T PROVE y <= x
  <2>1. n - y \in D
    OBVIOUS
  <2> QED
    BY <1>2, <1>3, <2>1
<1> QED
  BY <1>4

\* Taking an element out of a sequence and putting one in keep its type.
LEMMA RemoveAtType ==
  ASSUME NEW S, NEW q \in Seq(S), NEW i \in DOMAIN q
  PROVE  RemoveAt(q, i) \in Seq(S) /\ Len(RemoveAt(q, i)) = Len(q) - 1
<1>1. Len(q) \in Nat /\ i \in 1..Len(q) /\ \A j \in 1..Len(q) : q[j] \in S
  BY LenProperties, ElementOfSeq
<1>2. SubSeq(q, 1, i-1) \in Seq(S) /\ Len(SubSeq(q, 1, i-1)) = i-1
  BY <1>1, SubSeqProperties
<1>3. SubSeq(q, i+1, Len(q)) \in Seq(S) /\ Len(SubSeq(q, i+1, Len(q))) = Len(q) - i
  BY <1>1, SubSeqProperties
<1>4. /\ RemoveAt(q, i) \in Seq(S)
      /\ Len(RemoveAt(q, i)) = Len(SubSeq(q, 1, i-1)) + Len(SubSeq(q, i+1, Len(q)))
  BY <1>2, <1>3, ConcatProperties DEF RemoveAt
<1>5. \A m, n, l \in Int : m = n - 1 /\ l = Len(q) - n => m + l = Len(q) - 1
  BY <1>1
<1>6. Len(RemoveAt(q, i)) = Len(q) - 1
  <2> DEFINE m == Len(SubSeq(q, 1, i-1))
             l == Len(SubSeq(q, i+1, Len(q)))
  <2>1. m \in Int /\ l \in Int /\ i \in Int /\ m = i - 1 /\ l = Len(q) - i
    BY <1>1, <1>2, <1>3
  <2> HIDE DEF m, l
  <2>2. m + l = Len(q) - 1
    BY <1>5, <2>1
  <2> QED
    BY <1>4, <2>2 DEF m, l
<1> QED
  BY <1>4, <1>6

\* An event put into a sequence of events leaves one that is not empty.
LEMMA InsertAtType ==
  ASSUME NEW S, NEW q \in Seq(S), NEW i \in 1..Len(q)+1, NEW e \in S
  PROVE  InsertAt(q, i, e) \in Seq(S) /\ InsertAt(q, i, e) # << >>
<1>1. Len(q) \in Nat /\ \A j \in 1..Len(q) : q[j] \in S
  BY LenProperties, ElementOfSeq
<1>2. SubSeq(q, 1, i-1) \in Seq(S) /\ Len(SubSeq(q, 1, i-1)) = i-1
  BY <1>1, SubSeqProperties
<1>3. SubSeq(q, i, Len(q)) \in Seq(S) /\ Len(SubSeq(q, i, Len(q))) \in Nat
  BY <1>1, SubSeqProperties
<1>4. <<e>> \in Seq(S) /\ Len(<<e>>) = 1
  OBVIOUS
<1>5. SubSeq(q, 1, i-1) \o <<e>> \in Seq(S) /\ Len(SubSeq(q, 1, i-1) \o <<e>>) = i
  BY <1>1, <1>2, <1>4, ConcatProperties
<1>6. InsertAt(q, i, e) \in Seq(S) /\ Len(InsertAt(q, i, e)) = i + Len(SubSeq(q, i, Len(q)))
  BY <1>3, <1>5, ConcatProperties DEF InsertAt
<1> QED
  BY <1>1, <1>3, <1>6, EmptySeq

\* The replayed events are events.
LEMMA ReplayedType ==
  ASSUME NEW q \in Seq(ItemType)
  PROVE  Replayed(q) \in Seq(ItemType) /\ Len(Replayed(q)) = Len(q)
<1>1. Len(q) \in Nat /\ DOMAIN q = 1..Len(q) /\ \A j \in 1..Len(q) : q[j] \in ItemType
  BY LenProperties, ElementOfSeq
<1>2. \A j \in 1..Len(q) : [q[j] EXCEPT !.replay = TRUE] \in ItemType
  BY <1>1 DEF ItemType
<1>3. Replayed(q) \in [1..Len(q) -> ItemType]
  BY <1>1, <1>2 DEF Replayed
<1> HIDE DEF Replayed
<1>4. Replayed(q) \in Seq(ItemType)
  BY <1>1, <1>3, SeqDef
<1> QED
  BY <1>1, <1>3, <1>4
-----------------------------------------------------------------------------
(* SimultaneousKeyPresses keeps the types *)

\* What RemapSimultaneousKeyPresses returns.
ResultType == [result : {"APPLIED", "QUEUE_CHANGED", "NOT_CHANGED"}, queue : Seq(ItemType),
               active : SUBSET ActiveType, removed : SUBSET Nat]

\* The pointers of an event are pointers, and the events made for an item are events.
LEMMA ItemFacts ==
  /\ \A x \in ItemType : DevicePtr(x) \in PtrType
  /\ \A id \in Nat, k \in DownUps \cup {Motion}, down \in BOOLEAN, ptr \in PtrType :
        RawItem(id, k, down, ptr) \in ItemType
BY DEF ItemType, PtrType, DevicePtr, RawItem

\* When the scan succeeds, the press it found for a key is in the queue.
LEMMA DownKeyFound ==
  ASSUME NEW q \in Seq(ItemType), NEW item \in SimultaneousItem, AllKeysDown(item, q),
         NEW k \in {item.key1, item.key2}
  PROVE  DownKey(item, q, k) \in DOMAIN q /\ q[DownKey(item, q, k)].key = k
<1>1. Len(q) \in Nat /\ DOMAIN q = 1..Len(q)
  BY LenProperties
<1>2. ScanEnds(item, q) \in SUBSET Nat /\ ScanEnds(item, q) # {}
  BY <1>1 DEF AllKeysDown, ScanEnds
<1> DEFINE n == CHOOSE n \in ScanEnds(item, q) : \A o \in ScanEnds(item, q) : n <= o
<1>3. n \in ScanEnds(item, q)
  BY <1>2, MinExists
<1> HIDE DEF n
<1> DEFINE T == {m \in 1..n : TargetDown(q, m, k)}
<1>4. n \in 1..Len(q) /\ T \in SUBSET (0..n) /\ T # {}
  BY <1>1, <1>3 DEF ScanEnds
<1>5. \E m \in T : \A o \in T : o <= m
  <2>1. n \in Nat
    BY <1>1, <1>4
  <2> HIDE DEF T
  <2> QED
    BY <1>4, <2>1, MaxExists
<1>6. DownKey(item, q, k) \in T
  <2>1. \E m \in 1..n : TargetDown(q, m, k) /\ \A o \in 1..n : TargetDown(q, o, k) => o <= m
    BY <1>5
  <2> QED
    BY <2>1 DEF DownKey, n
<1> QED
  BY <1>1, <1>4, <1>6 DEF TargetDown

\* push_remapped
LEMMA PushRemappedType ==
  ASSUME NEW q \in Seq(ItemType), NEW item \in SimultaneousItem, NEW down \in BOOLEAN, NEW ptr \in PtrType
  PROVE  PushRemapped(item, q, down, ptr) \in Seq(ItemType)
<1>1. CASE item.vk = VK_NONE
  BY <1>1 DEF PushRemapped
<1>2. CASE item.vk # VK_NONE
  <2>1. RawItem(0, item.vk, down, ptr) \in ItemType
    BY <1>2, ItemFacts DEF SimultaneousItem
  <2>2. <<RawItem(0, item.vk, down, ptr)>> \in Seq(ItemType)
    BY <2>1
  <2> QED
    BY <1>2, <2>2, ConcatProperties DEF PushRemapped
<1> QED
  BY <1>1, <1>2

\* Taking two presses out of the queue and putting the virtual key's press, and with raw
\* their copies, at its front keeps the types of the queue and of the active items.
LEMMA ApplyDownType ==
  ASSUME NEW r \in DOMAIN Items, NEW item \in SimultaneousItem, NEW q \in Seq(ItemType), q # << >>,
         AllKeysDown(item, q), item.key1 # item.key2,
         NEW active \in SUBSET ActiveType, NEW live, NEW serial \in Nat
  PROVE  ApplyDown(r, item, q, active, live, serial) \in ResultType
<1> DEFINE p1 == DownKey(item, q, item.key1)
           p2 == DownKey(item, q, item.key2)
           rest == IF p1 < p2 THEN RemoveAt(RemoveAt(q, p2), p1) ELSE RemoveAt(RemoveAt(q, p1), p2)
           raws == IF item.raw
                   THEN <<RawItem(q[p1].id, item.key1, TRUE, DevicePtr(q[1])),
                          RawItem(q[p2].id, item.key2, TRUE, DevicePtr(q[1]))>>
                   ELSE << >>
<1>1. Len(q) \in Nat /\ DOMAIN q = 1..Len(q) /\ (\A j \in 1..Len(q) : q[j] \in ItemType) /\ Len(q) > 0
  BY LenProperties, ElementOfSeq, EmptySeq
<1>2. p1 \in 1..Len(q) /\ p2 \in 1..Len(q) /\ p1 # p2
  BY <1>1, DownKeyFound
<1> HIDE DEF p1, p2
<1>3. rest \in Seq(ItemType)
  <2>1. CASE p1 < p2
    <3>1. RemoveAt(q, p2) \in Seq(ItemType) /\ Len(RemoveAt(q, p2)) = Len(q) - 1
      BY <1>1, <1>2, RemoveAtType
    <3>2. p1 \in DOMAIN RemoveAt(q, p2)
      BY <1>1, <1>2, <2>1, <3>1, LenProperties
    <3> QED
      BY <2>1, <3>1, <3>2, RemoveAtType
  <2>2. CASE p2 < p1
    <3>1. RemoveAt(q, p1) \in Seq(ItemType) /\ Len(RemoveAt(q, p1)) = Len(q) - 1
      BY <1>1, <1>2, RemoveAtType
    <3>2. p2 \in DOMAIN RemoveAt(q, p1)
      BY <1>1, <1>2, <2>2, <3>1, LenProperties
    <3>3. ~(p1 < p2)
      BY <1>2, <2>2
    <3> QED
      BY <3>1, <3>2, <3>3, RemoveAtType
  <2> QED
    BY <1>2, <2>1, <2>2
<1>4. q[p1] \in ItemType /\ q[p2] \in ItemType /\ q[1] \in ItemType
  BY <1>1, <1>2
<1>5. /\ DevicePtr(q[1]) \in PtrType /\ DevicePtr(q[p1]) \in PtrType /\ DevicePtr(q[p2]) \in PtrType
      /\ q[p1].id \in Nat /\ q[p2].id \in Nat /\ item.key1 \in DownUps /\ item.key2 \in DownUps
  BY <1>4, ItemFacts DEF ItemType, SimultaneousItem
<1>6. raws \in Seq(ItemType)
  <2>1. /\ RawItem(q[p1].id, item.key1, TRUE, DevicePtr(q[1])) \in ItemType
        /\ RawItem(q[p2].id, item.key2, TRUE, DevicePtr(q[1])) \in ItemType
    BY <1>5, ItemFacts
  <2>2. << >> \in Seq(ItemType)
    OBVIOUS
  <2>3. \A x, y \in ItemType : <<x, y>> \in Seq(ItemType)
    OBVIOUS
  <2>4. <<RawItem(q[p1].id, item.key1, TRUE, DevicePtr(q[1])),
          RawItem(q[p2].id, item.key2, TRUE, DevicePtr(q[1]))>> \in Seq(ItemType)
    BY <2>1, <2>3
  <2> QED
    BY <2>2, <2>4, Zenon
<1> HIDE DEF rest, raws
<1>7. raws \o rest \in Seq(ItemType)
  BY <1>3, <1>6, ConcatProperties
<1>8. PushRemapped(item, raws \o rest, TRUE, DevicePtr(q[1])) \in Seq(ItemType)
  BY <1>5, <1>7, PushRemappedType
<1>9. /\ ActiveFromInfo(r, item.key1, DevicePtr(q[p1]), q[1], serial) \in ActiveType
      /\ ActiveFromInfo(r, item.key2, DevicePtr(q[p2]), q[1], serial) \in ActiveType
  BY <1>5 DEF ActiveFromInfo, ActiveType
<1> DEFINE act == {e \in active : e.device \in live}
                    \cup {ActiveFromInfo(r, item.key1, DevicePtr(q[p1]), q[1], serial),
                          ActiveFromInfo(r, item.key2, DevicePtr(q[p2]), q[1], serial)}
           rem == IF item.raw THEN {} ELSE {q[p1].id, q[p2].id}
<1>10. act \in SUBSET ActiveType /\ rem \in SUBSET Nat
  BY <1>5, <1>9
<1>11. ApplyDown(r, item, q, active, live, serial) =
         [result |-> "APPLIED", queue |-> PushRemapped(item, raws \o rest, TRUE, DevicePtr(q[1])),
          active |-> act, removed |-> rem]
  BY Zenon DEF ApplyDown, p1, p2, rest, raws
<1> HIDE DEF act, rem
<1>12. \A qq \in Seq(ItemType), aa \in SUBSET ActiveType, rr \in SUBSET Nat :
         [result |-> "APPLIED", queue |-> qq, active |-> aa, removed |-> rr] \in ResultType
  BY DEF ResultType, ActiveType
<1> QED
  BY <1>8, <1>10, <1>11, <1>12, Zenon

\* The oldest entry of a key that has entries is one of them.
LEMMA FindFirstActive ==
  ASSUME NEW r, NEW active \in SUBSET ActiveType, NEW x, Find(r, active, x) # {}
  PROVE  FindFirst(r, active, x) \in active
<1> DEFINE F == Find(r, active, x)
           N == {o.serial : o \in F}
<1>1. F \subseteq active /\ F # {} /\ N \in SUBSET Nat /\ N # {}
  BY DEF Find, ActiveType
<1> HIDE DEF F
<1>2. \E n \in N : \A y \in N : n <= y
  <2> HIDE DEF N
  <2> QED
    BY <1>1, MinExists
<1>3. \E o \in F : \A y \in F : o.serial <= y.serial
  BY <1>2
<1>4. FindFirst(r, active, x) \in F
  BY <1>3 DEF FindFirst, F
<1> QED
  BY <1>1, <1>4

\* A release of one of the two keys of an active item keeps the types of the queue
\* and of the active items, whether it is turned into the virtual release or taken out.
LEMMA ApplyUpType ==
  ASSUME NEW r \in DOMAIN Items, NEW item \in SimultaneousItem, NEW q \in Seq(ItemType), q # << >>,
         NEW active \in SUBSET ActiveType, Find(r, active, q[1]) # {}, NEW live
  PROVE  ApplyUp(r, item, q, active, live) \in ResultType
<1> DEFINE e == FindFirst(r, active, q[1])
           left == {o \in active : o.device \in live} \ {e}
           rest == IF item.raw THEN [q EXCEPT ![1].target = FALSE] ELSE Tail(q)
           done == ~\E o \in left : o.item = r /\ o.serial = e.serial
           rem  == IF item.raw THEN {} ELSE {q[1].id}
<1>1. Len(q) \in Nat /\ DOMAIN q = 1..Len(q) /\ 1 \in 1..Len(q) /\ q[1] \in ItemType
  BY LenProperties, ElementOfSeq, EmptySeq
<1>2. e \in active
  BY FindFirstActive
<1> HIDE DEF e
<1>3. rest \in Seq(ItemType)
  <2>1. [q[1] EXCEPT !.target = FALSE] \in ItemType
    BY <1>1 DEF ItemType
  <2>2. [q EXCEPT ![1] = [q[1] EXCEPT !.target = FALSE]] \in Seq(ItemType)
    BY <1>1, <2>1, ExceptSeq
  <2>3. Tail(q) \in Seq(ItemType)
    BY HeadTailProperties
  <2> QED
    BY <2>2, <2>3
<1>4. left \in SUBSET ActiveType /\ rem \in SUBSET Nat
  BY <1>1 DEF ItemType
<1> HIDE DEF rest, left
<1>5. e.front \in PtrType
  BY <1>2 DEF ActiveType
<1>6. PushRemapped(item, rest, FALSE, e.front) \in Seq(ItemType)
  BY <1>3, <1>5, PushRemappedType
<1>7. ApplyUp(r, item, q, active, live) =
        [result |-> IF done THEN "APPLIED" ELSE "QUEUE_CHANGED",
         queue  |-> IF done THEN PushRemapped(item, rest, FALSE, e.front) ELSE rest,
         active |-> left, removed |-> rem]
  BY Zenon DEF ApplyUp, e, left, rest
<1> HIDE DEF done, rem
<1>8. \A qq \in Seq(ItemType), aa \in SUBSET ActiveType, rr \in SUBSET Nat,
         res \in {"APPLIED", "QUEUE_CHANGED"} :
         [result |-> res, queue |-> qq, active |-> aa, removed |-> rr] \in ResultType
  BY DEF ResultType, ActiveType
<1>9. /\ (IF done THEN "APPLIED" ELSE "QUEUE_CHANGED") \in {"APPLIED", "QUEUE_CHANGED"}
      /\ (IF done THEN PushRemapped(item, rest, FALSE, e.front) ELSE rest) \in Seq(ItemType)
  BY <1>3, <1>6, Zenon
<1> QED
  BY <1>4, <1>7, <1>8, <1>9, Zenon

\* Whatever an item does to the queue, the queue holds events afterwards.
LEMMA RemapType ==
  ASSUME NEW r \in DOMAIN Items, NEW item \in SimultaneousItem, item.key1 # item.key2,
         NEW q \in Seq(ItemType), NEW active \in SUBSET ActiveType, NEW live, NEW serial \in Nat
  PROVE  RemapSimultaneousKeyPresses(r, item, q, active, live, serial) \in ResultType
<1> DEFINE up == q # << >> /\ q[1].target /\ ~q[1].down /\ q[1].key \in {item.key1, item.key2}
                   /\ Find(r, active, q[1]) # {}
           down == q # << >> /\ AllKeysDown(item, q)
<1>1. CASE up
  <2>1. RemapSimultaneousKeyPresses(r, item, q, active, live, serial) = ApplyUp(r, item, q, active, live)
    BY <1>1, Zenon DEF RemapSimultaneousKeyPresses
  <2>2. ApplyUp(r, item, q, active, live) \in ResultType
    BY <1>1, ApplyUpType
  <2> QED
    BY <2>1, <2>2, Zenon
<1>2. CASE ~up /\ down
  <2>1. RemapSimultaneousKeyPresses(r, item, q, active, live, serial)
          = ApplyDown(r, item, q, active, live, serial)
    BY <1>2, Zenon DEF RemapSimultaneousKeyPresses
  <2>2. ApplyDown(r, item, q, active, live, serial) \in ResultType
    BY <1>2, ApplyDownType
  <2> QED
    BY <2>1, <2>2, Zenon
<1>3. CASE ~up /\ ~down
  <2>1. RemapSimultaneousKeyPresses(r, item, q, active, live, serial)
          = [result |-> "NOT_CHANGED", queue |-> q, active |-> active, removed |-> {}]
    BY <1>3, Zenon DEF RemapSimultaneousKeyPresses
  <2> QED
    BY <2>1 DEF ResultType, ActiveType
<1> QED
  BY <1>1, <1>2, <1>3
-----------------------------------------------------------------------------
(* Type correctness *)

\* What a part of the state needs to keep its type when nothing touches it.
LEMMA Unchanged ==
  ASSUME TypeOK
  PROVE  /\ UNCHANGED deviceVars => DeviceTypeOK'
         /\ UNCHANGED pressingPhysicalKeys => CountTypeOK'
         /\ UNCHANGED queue_ => QueueTypeOK'
         /\ UNCHANGED timerVars => TimerTypeOK'
         /\ UNCHANGED blockVars => BlockTypeOK'
         /\ UNCHANGED skpVars => SkpTypeOK'
         /\ UNCHANGED configVars => ConfigTypeOK'
         /\ UNCHANGED <<pc, loop>> => HandlerTypeOK'
         /\ UNCHANGED outVars => OutTypeOK'
         /\ UNCHANGED clockVars => ClockTypeOK'
<1>1. UNCHANGED deviceVars => DeviceTypeOK'
  BY DEF TypeOK, DeviceTypeOK, deviceVars
<1>2. UNCHANGED pressingPhysicalKeys => CountTypeOK'
  BY DEF TypeOK, CountTypeOK
<1>3. UNCHANGED queue_ => QueueTypeOK'
  BY DEF TypeOK, QueueTypeOK
<1>4. UNCHANGED timerVars => TimerTypeOK'
  BY DEF TypeOK, TimerTypeOK, timerVars
<1>5. UNCHANGED blockVars => BlockTypeOK'
  BY DEF TypeOK, BlockTypeOK, blockVars
<1>6. UNCHANGED skpVars => SkpTypeOK'
  BY DEF TypeOK, SkpTypeOK, skpVars
<1>7. UNCHANGED configVars => ConfigTypeOK'
  BY DEF TypeOK, ConfigTypeOK, configVars
<1>8. UNCHANGED <<pc, loop>> => HandlerTypeOK'
  BY DEF TypeOK, HandlerTypeOK
<1>9. UNCHANGED outVars => OutTypeOK'
  BY DEF TypeOK, OutTypeOK, outVars
<1>10. UNCHANGED clockVars => ClockTypeOK'
  BY DEF TypeOK, ClockTypeOK, clockVars
<1> QED
  BY <1>1, <1>2, <1>3, <1>4, <1>5, <1>6, <1>7, <1>8, <1>9, <1>10

\* setTimer arms the timer for an event of the queue.
LEMMA SetTimerType ==
  ASSUME TypeOK, QueueTypeOK', SetTimer
  PROVE  TimerTypeOK'
<1>1. CASE UNCHANGED timerVars
  BY <1>1, Unchanged
<1>2. CASE queue_' # << >> /\ fireTimer' = TRUE
  <2>1. Head(queue_') \in ItemType
    BY <1>2, HeadTailProperties DEF QueueTypeOK
  <2>2. /\ [id |-> Head(queue_').id, kind |-> Kind(Head(queue_').key)] \in [id : Nat, kind : KindType]
        /\ NotArmed \in [id : Nat, kind : KindType]
    BY <2>1 DEF ItemType, Kind, KindType, NotArmed
  <2>3. armedFor' \in [id : Nat, kind : KindType]
    <3>1. CASE UNCHANGED timerVars
      BY <3>1 DEF timerVars, TypeOK, TimerTypeOK
    <3>2. CASE armedFor' \in {[id |-> Head(queue_').id, kind |-> Kind(Head(queue_').key)], NotArmed}
      BY <3>2, <2>2
    <3> QED
      BY <3>1, <3>2, Zenon DEF SetTimer
  <2> QED
    BY <1>2, <2>3 DEF TimerTypeOK
<1> QED
  BY <1>1, <1>2, Zenon DEF SetTimer

\* A hardware event of a known key is appended with a time that has passed.
LEMMA AppendType ==
  ASSUME TypeOK, NEW since \in Nat, NEW d \in Devices, NEW k \in DownUps \cup {Motion}, NEW down \in BOOLEAN,
         queue_' = Append(queue_, NewItem(lastId + 1, since, d, k, down)),
         Advance(lastId + 1, since, k)
  PROVE  QueueTypeOK' /\ ClockTypeOK'
<1>1. lastId \in Nat /\ gen[d] \in Nat /\ aged \in [KindType -> Nat] /\ Kind(k) \in KindType
  BY DEF TypeOK, ClockTypeOK, DeviceTypeOK, Kind, KindType
<1>2. NewItem(lastId + 1, since, d, k, down) \in ItemType
  BY <1>1 DEF NewItem, ItemType
<1>3. QueueTypeOK'
  BY <1>2, AppendProperties DEF TypeOK, QueueTypeOK
<1>4. ClockTypeOK'
  BY <1>1 DEF Advance, ClockTypeOK
<1> QED
  BY <1>3, <1>4

\* The times an event may have are natural numbers.
LEMMA SincesType ==
  ASSUME TypeOK, NEW k, NEW down, NEW since \in Sinces(k, down)
  PROVE  since \in Nat
<1>1. lastId \in Nat /\ aged[Kind(k)] \in Nat
  BY DEF TypeOK, ClockTypeOK, Kind, KindType
<1> QED
  BY <1>1 DEF Sinces

\* The counts of the physical keys stay natural numbers.
LEMMA UpdateType ==
  ASSUME TypeOK, NEW x \in ItemType, UpdatePressingPhysicalKeys(x)
  PROVE  CountTypeOK'
<1>1. pressingPhysicalKeys \in [Devices -> [DownUps -> Nat]]
  BY DEF TypeOK, CountTypeOK
<1>2. CASE ~(DevicePtr(x) \in Live /\ IsDownUp(x) /\ x.key \notin CapsLock)
  BY <1>1, <1>2 DEF UpdatePressingPhysicalKeys, CountTypeOK
<1>3. CASE DevicePtr(x) \in Live /\ IsDownUp(x) /\ x.key \notin CapsLock
  <2>1. x.dev \in Devices /\ x.key \in DownUps
    BY <1>3 DEF ItemType, IsDownUp
  <2> DEFINE n == pressingPhysicalKeys[x.dev][x.key]
             m == CASE x.down -> n + 1
                    [] ~x.down /\ allow_devices_multiple_same_key /\ n > 0 -> n - 1
                    [] OTHER -> 0
  <2>2. n \in Nat
    BY <1>1, <2>1
  <2>3. m \in Nat
    <3> HIDE DEF n
    <3>1. CASE x.down
      BY <2>2, <3>1
    <3>2. CASE ~x.down
      BY <2>2, <3>2
    <3> QED
      BY <3>1, <3>2
  <2>4. pressingPhysicalKeys' = [pressingPhysicalKeys EXCEPT ![x.dev][x.key] = m]
    BY <1>3 DEF UpdatePressingPhysicalKeys
  <2> HIDE DEF m
  <2> QED
    BY <1>1, <2>1, <2>3, <2>4 DEF CountTypeOK
<1> QED
  BY <1>2, <1>3

\* doFire moves the front of the queue to the events that were fired.
LEMMA DoFireType ==
  ASSUME TypeOK, NEW q \in Seq(ItemType), q # << >>, DoFire(q)
  PROVE  QueueTypeOK' /\ OutTypeOK' /\ SkpTypeOK'
<1>1. Head(q) \in ItemType /\ Tail(q) \in Seq(ItemType)
  BY HeadTailProperties
<1>2. QueueTypeOK'
  BY <1>1 DEF DoFire, QueueTypeOK
<1>3. fired' \in Seq(ItemType)
  BY <1>1, AppendProperties DEF DoFire, TypeOK, OutTypeOK
<1>4. internal' \subseteq [dev : Devices, gen : Nat, key : DownUps]
  <2>1. IsDownUp(Head(q)) => KeyOf(Head(q)) \in [dev : Devices, gen : Nat, key : DownUps]
    BY <1>1 DEF KeyOf, IsDownUp, ItemType
  <2>2. \/ internal' = {}
        \/ internal' = internal
        \/ IsDownUp(Head(q)) /\ internal' = internal \cup {KeyOf(Head(q))}
        \/ internal' = internal \ {KeyOf(Head(q))}
    <3> DEFINE reset == IsDownUp(Head(q)) /\ NeedsReset(Tail(q))
    <3>0. internal' = CASE reset -> {}
                        [] ~reset /\ ~IsDownUp(Head(q)) -> internal
                        [] ~reset /\ IsDownUp(Head(q)) /\ Head(q).down -> internal \cup {KeyOf(Head(q))}
                        [] OTHER -> internal \ {KeyOf(Head(q))}
      BY Zenon DEF DoFire
    <3> HIDE DEF reset
    <3>1. CASE reset
      BY <3>0, <3>1
    <3>2. CASE ~reset /\ ~IsDownUp(Head(q))
      BY <3>0, <3>2
    <3>3. CASE ~reset /\ IsDownUp(Head(q)) /\ Head(q).down
      BY <3>0, <3>3
    <3>4. CASE ~reset /\ IsDownUp(Head(q)) /\ ~Head(q).down
      BY <3>0, <3>4
    <3> QED
      BY <3>1, <3>2, <3>3, <3>4
  <2> QED
    BY <2>1, <2>2 DEF TypeOK, OutTypeOK
<1>5. SkpTypeOK'
  <2>1. /\ activeFromInfos' = {} \/ activeFromInfos' = activeFromInfos
        /\ activeItems' = [r \in DOMAIN Items |-> 0] \/ activeItems' = activeItems
    BY Zenon DEF DoFire
  <2> QED
    BY <2>1 DEF TypeOK, SkpTypeOK
<1> QED
  BY <1>2, <1>3, <1>4, <1>5 DEF OutTypeOK

\* What every branch of the last part of fire_timer_callback keeps.
LEMMA FireFrontType ==
  ASSUME TypeOK, FireFront
  PROVE  /\ DeviceTypeOK' /\ CountTypeOK' /\ ConfigTypeOK' /\ HandlerTypeOK' /\ ClockTypeOK'
         /\ serialNumber_' \in Nat /\ removed' \subseteq Nat
         /\ FrontItem \in ItemType /\ Tail(queue_) \in Seq(ItemType)
         /\ PressingEvents \subseteq [key : DownUps, ignore : BOOLEAN] \/ ~IsDownUp(FrontItem)
<1>1. Head(queue_) \in ItemType /\ Tail(queue_) \in Seq(ItemType)
  BY HeadTailProperties DEF FireFront, TypeOK, QueueTypeOK
<1>2. CountTypeOK'
  BY <1>1, UpdateType DEF FireFront
<1>3. DeviceTypeOK' /\ ConfigTypeOK' /\ ClockTypeOK'
  BY Unchanged DEF FireFront
<1>4. HandlerTypeOK'
  BY DEF FireFront, HandlerTypeOK, NoLoop, LoopType
<1>5. serialNumber_' \in Nat /\ removed' \subseteq Nat
  BY DEF FireFront, TypeOK
<1>6. IsDownUp(FrontItem) => PressingEvents \subseteq [key : DownUps, ignore : BOOLEAN]
  <2> SUFFICES ASSUME IsDownUp(FrontItem) PROVE PressingEvents \subseteq [key : DownUps, ignore : BOOLEAN]
    OBVIOUS
  <2>1. FrontItem.key \in DownUps
    BY <1>1 DEF FrontItem, IsDownUp, ItemType
  <2>2. [key |-> FrontItem.key, ignore |-> FALSE] \in [key : DownUps, ignore : BOOLEAN]
    BY <2>1
  <2>3. pressingEvents_ \subseteq [key : DownUps, ignore : BOOLEAN]
    BY DEF TypeOK, BlockTypeOK
  <2> QED
    BY <2>2, <2>3, Zenon DEF PressingEvents
<1> QED
  BY <1>1, <1>2, <1>3, <1>4, <1>5, <1>6 DEF FrontItem

\* Case 2 inserts the release inside the blocked events.
LEMMA LastDownType ==
  ASSUME TypeOK, NEW k
  PROVE  LastDown(k) + 1 \in 1..Len(blockedQueue_) + 1
<1>1. Len(blockedQueue_) \in Nat /\ DOMAIN blockedQueue_ = 1..Len(blockedQueue_)
  BY LenProperties DEF TypeOK, BlockTypeOK
<1> DEFINE T == {i \in DOMAIN blockedQueue_ : blockedQueue_[i].key = k /\ blockedQueue_[i].down}
<1>2. CASE DownInBlockedQueue(k)
  <2>1. T \in SUBSET (0..Len(blockedQueue_)) /\ T # {}
    BY <1>1, <1>2 DEF DownInBlockedQueue
  <2>2. \E i \in T : \A j \in T : j <= i
    <3> HIDE DEF T
    <3> QED
      BY <1>1, <2>1, MaxExists
  <2>3. LastDown(k) \in DOMAIN blockedQueue_
    BY <1>2, <2>2 DEF LastDown
  <2> QED
    BY <1>1, <2>3
<1>3. CASE ~DownInBlockedQueue(k)
  BY <1>1, <1>3 DEF LastDown
<1> QED
  BY <1>2, <1>3

\* setIgnoreToAll keeps the keys of the pressing events.
LEMMA IgnoreAllType ==
  ASSUME NEW pe \in SUBSET [key : DownUps, ignore : BOOLEAN]
  PROVE  IgnoreAll(pe) \subseteq [key : DownUps, ignore : BOOLEAN]
<1>1. \A e \in pe : e.key \in DownUps
  OBVIOUS
<1>2. \A k \in DownUps : [key |-> k, ignore |-> TRUE] \in [key : DownUps, ignore : BOOLEAN]
  OBVIOUS
<1> QED
  BY <1>1, <1>2, Zenon DEF IgnoreAll

\* A loop over the items that goes on to the next one.
LEMMA LoopStep ==
  ASSUME NEW l \in LoopType
  PROVE  /\ [l EXCEPT !.at = @ + 1, !.changed = TRUE] \in LoopType
         /\ [l EXCEPT !.at = @ + 1] \in LoopType
         /\ [l EXCEPT !.at = @ + 1, !.changed = TRUE].at > 0
         /\ [l EXCEPT !.at = @ + 1].at > 0
<1>1. l.at \in Nat /\ l.at + 1 \in Nat /\ l.at + 1 > 0
  BY DEF LoopType
<1>2. [l EXCEPT !.at = @ + 1].at = l.at + 1 /\ [l EXCEPT !.at = @ + 1, !.changed = TRUE].at = l.at + 1
  BY DEF LoopType
<1>3. [l EXCEPT !.at = @ + 1] \in LoopType
  BY <1>1 DEF LoopType
<1>4. [l EXCEPT !.at = @ + 1, !.changed = TRUE] \in LoopType
  BY <1>1 DEF LoopType
<1> QED
  BY <1>1, <1>2, <1>3, <1>4

\* Every variable keeps its type in every step: in particular no position of
\* queue_ or blockedQueue_ outside the list is read or erased, and no count of
\* PressingPhysicalKeys or ActiveItems goes below zero.
THEOREM TypeCorrect == Spec => []TypeOK
<1>1. Init => TypeOK
  <2> SUFFICES ASSUME Init PROVE TypeOK
    OBVIOUS
  <2>1. DeviceTypeOK /\ CountTypeOK
    BY DEF Init, DeviceTypeOK, CountTypeOK
  <2>2. QueueTypeOK /\ TimerTypeOK /\ BlockTypeOK /\ OutTypeOK
    <3>1. << >> \in Seq(ItemType)
      OBVIOUS
    <3>2. NotArmed \in [id : Nat, kind : KindType]
      BY DEF NotArmed, KindType
    <3> QED
      BY <3>1, <3>2, Zenon DEF Init, QueueTypeOK, TimerTypeOK, BlockTypeOK, OutTypeOK
  <2>3. SkpTypeOK /\ ConfigTypeOK
    BY DEF Init, SkpTypeOK, ConfigTypeOK
  <2>4. HandlerTypeOK /\ ClockTypeOK
    BY DEF Init, HandlerTypeOK, ClockTypeOK, NoLoop, LoopType, KindType
  <2> QED
    BY <2>1, <2>2, <2>3, <2>4 DEF TypeOK, Init
<1>2. TypeOK /\ [Next]_vars => TypeOK'
  <2> SUFFICES ASSUME TypeOK, [Next]_vars PROVE TypeOK'
    OBVIOUS
  <2>1. ASSUME NEW d \in Keyboards, NEW k \in Keys, NEW down \in BOOLEAN, NEW repeat \in BOOLEAN,
               push_KeyboardEventCallback(d, k, down, repeat)
        PROVE  TypeOK'
    <3>1. d \in Devices /\ k \in DownUps
      BY DEF Devices, DownUps
    <3>2. DeviceTypeOK'
      BY <2>1, <3>1 DEF push_KeyboardEventCallback, TypeOK, DeviceTypeOK
    <3>3. CountTypeOK'
      BY <2>1 DEF push_KeyboardEventCallback, TypeOK, CountTypeOK, ClearInternal
    <3>4. QueueTypeOK' /\ TimerTypeOK' /\ ClockTypeOK'
      <4>1. CASE UNCHANGED <<queue_, timerVars, clockVars>>
        BY <4>1, Unchanged
      <4>2. CASE /\ \E since \in Sinces(k, down) :
                       /\ queue_' = Append(queue_, NewItem(lastId + 1, since, d, k, down))
                       /\ Advance(lastId + 1, since, k)
                 /\ SetTimer
        <5>1. QueueTypeOK' /\ ClockTypeOK'
          BY <4>2, <3>1, SincesType, AppendType
        <5> QED
          BY <4>2, <5>1, SetTimerType
      <4> QED
        BY <2>1, <4>1, <4>2, Zenon DEF push_KeyboardEventCallback
    <3>5. /\ UNCHANGED <<blockVars, skpVars, configVars, pc, loop, outVars>>
          /\ UNCHANGED <<serialNumber_, removed>>
      BY <2>1 DEF push_KeyboardEventCallback
    <3> QED
      BY <3>2, <3>3, <3>4, <3>5, Unchanged DEF TypeOK
  <2>2. ASSUME NEW d \in Pointings, NEW B \in SUBSET {Buttons[i] : i \in DOMAIN Buttons},
               NEW moved \in BOOLEAN, push_RelativePointerEventCallback(d, B, moved)
        PROVE  TypeOK'
    <3>1. HandlerTypeOK'
      <4>1. loop' = [at |-> 1, down |-> FALSE, changed |-> FALSE, dev |-> d, buttons |-> B, moved |-> moved]
        BY <2>2 DEF push_RelativePointerEventCallback, NoLoop
      <4>2. d \in Devices /\ B \in SUBSET DownUps
        BY DEF Devices, DownUps
      <4>3. pc' = "buttons"
        BY <2>2 DEF push_RelativePointerEventCallback
      <4> QED
        BY <4>1, <4>2, <4>3 DEF HandlerTypeOK, LoopType
    <3>2. UNCHANGED <<deviceVars, pressingPhysicalKeys, queue_, timerVars, serialNumber_, blockVars,
                      skpVars, configVars, outVars, clockVars, removed>>
      BY <2>2 DEF push_RelativePointerEventCallback
    <3> QED
      BY <3>1, <3>2, Unchanged DEF TypeOK
  <2>3. ASSUME NEW d \in Pointings, push_ScrollWheelEventCallback(d)
        PROVE  TypeOK'
    <3>1. QueueTypeOK' /\ ClockTypeOK'
      BY <2>3, AppendType DEF push_ScrollWheelEventCallback, Devices
    <3>2. TimerTypeOK'
      BY <2>3, <3>1, SetTimerType DEF push_ScrollWheelEventCallback
    <3>3. UNCHANGED <<deviceVars, pressingPhysicalKeys, serialNumber_, blockVars, skpVars, configVars,
                      pc, loop, outVars, removed>>
      BY <2>3 DEF push_ScrollWheelEventCallback
    <3> QED
      BY <3>1, <3>2, <3>3, Unchanged DEF TypeOK
  <2>4. ASSUME NEW d \in Devices, Connect(d) \/ Disconnect(d)
        PROVE  TypeOK'
    <3>1. DeviceTypeOK'
      BY <2>4 DEF Connect, Disconnect, TypeOK, DeviceTypeOK
    <3>2. CountTypeOK'
      BY <2>4 DEF Connect, Disconnect, TypeOK, CountTypeOK
    <3>3. UNCHANGED <<queue_, timerVars, serialNumber_, blockVars, skpVars, configVars, pc, loop, outVars,
                      clockVars, removed>>
      BY <2>4 DEF Connect, Disconnect
    <3> QED
      BY <3>1, <3>2, <3>3, Unchanged DEF TypeOK
  <2>5. ASSUME SetConfig PROVE TypeOK'
    <3>1. ConfigTypeOK'
      BY <2>5 DEF SetConfig, TypeOK, ConfigTypeOK
    <3>2. UNCHANGED <<deviceVars, pressingPhysicalKeys, queue_, timerVars, serialNumber_, blockVars,
                      skpVars, pc, loop, outVars, clockVars, removed>>
      BY <2>5 DEF SetConfig
    <3> QED
      BY <3>1, <3>2, Unchanged DEF TypeOK
  <2>6. ASSUME PushButton PROVE TypeOK'
    <3> DEFINE btn == Buttons[loop.at]
    <3>1. loop.dev \in Devices /\ loop.at \in Nat /\ loop.at > 0
      BY <2>6 DEF PushButton, TypeOK, HandlerTypeOK, LoopType
    <3>2. btn \in DownUps
      <4>1. Buttons \in Seq({Buttons[i] : i \in DOMAIN Buttons})
        BY ConstantsAssumption
      <4>2. loop.at \in DOMAIN Buttons
        BY <2>6, <3>1, <4>1, LenProperties DEF PushButton
      <4> QED
        BY <4>2 DEF DownUps
    <3>3. QueueTypeOK' /\ ClockTypeOK'
      <4>1. CASE UNCHANGED <<queue_, clockVars>>
        BY <4>1, Unchanged
      <4>2. CASE \E since \in Sinces(btn, btn \in loop.buttons) :
                    /\ queue_' = Append(queue_, NewItem(lastId + 1, since, loop.dev, btn, btn \in loop.buttons))
                    /\ Advance(lastId + 1, since, btn)
        <5> DEFINE pressed == btn \in loop.buttons
        <5>1. pressed \in BOOLEAN
          OBVIOUS
        <5> HIDE DEF btn, pressed
        <5>2. PICK since \in Sinces(btn, pressed) :
                 /\ queue_' = Append(queue_, NewItem(lastId + 1, since, loop.dev, btn, pressed))
                 /\ Advance(lastId + 1, since, btn)
          BY <4>2, Zenon DEF pressed
        <5>3. since \in Nat
          BY SincesType
        <5> QED
          BY <3>1, <3>2, <5>1, <5>2, <5>3, AppendType
      <4> QED
        BY <2>6, <4>1, <4>2, Zenon DEF PushButton
    <3>4. HandlerTypeOK'
      BY <2>6 DEF PushButton, TypeOK, HandlerTypeOK, LoopType
    <3>5. UNCHANGED <<deviceVars, pressingPhysicalKeys, timerVars, serialNumber_, blockVars, skpVars,
                      configVars, outVars, removed>>
      BY <2>6 DEF PushButton
    <3> QED
      BY <3>3, <3>4, <3>5, Unchanged DEF TypeOK
  <2>7. ASSUME PushMotion PROVE TypeOK'
    <3>1. loop.dev \in Devices /\ loop.buttons \in SUBSET DownUps
      BY <2>7 DEF PushMotion, TypeOK, HandlerTypeOK, LoopType
    <3>2. DeviceTypeOK'
      BY <2>7, <3>1 DEF PushMotion, TypeOK, DeviceTypeOK
    <3>3. QueueTypeOK' /\ ClockTypeOK'
      <4>1. CASE UNCHANGED <<queue_, clockVars>>
        BY <4>1, Unchanged
      <4>2. CASE /\ queue_' = Append(queue_, NewItem(lastId + 1, 0, loop.dev, Motion, FALSE))
                 /\ Advance(lastId + 1, 0, Motion)
        BY <4>2, <3>1, AppendType
      <4> QED
        BY <2>7, <4>1, <4>2, Zenon DEF PushMotion
    <3>4. TimerTypeOK'
      BY <2>7, <3>3, SetTimerType DEF PushMotion
    <3>5. HandlerTypeOK'
      BY <2>7 DEF PushMotion, HandlerTypeOK, NoLoop, LoopType
    <3>6. UNCHANGED <<pressingPhysicalKeys, serialNumber_, blockVars, skpVars, configVars, outVars, removed>>
      BY <2>7 DEF PushMotion
    <3> QED
      BY <3>2, <3>3, <3>4, <3>5, <3>6, Unchanged DEF TypeOK
  <2>8. ASSUME RemoveBouncing PROVE TypeOK'
    <3>1. PICK p \in BouncingPairs :
             /\ queue_' = RemoveAt(RemoveAt(queue_, p[2]), p[1])
             /\ removed' = removed \cup {queue_[p[1]].id, queue_[p[2]].id}
      BY <2>8 DEF RemoveBouncing
    <3>2. p[1] \in DOMAIN queue_ /\ p[2] \in DOMAIN queue_ /\ p[1] < p[2]
      BY DEF BouncingPairs
    <3>3. queue_ \in Seq(ItemType) /\ Len(queue_) \in Nat /\ DOMAIN queue_ = 1..Len(queue_)
      BY LenProperties DEF TypeOK, QueueTypeOK
    <3>4. RemoveAt(queue_, p[2]) \in Seq(ItemType) /\ Len(RemoveAt(queue_, p[2])) = Len(queue_) - 1
      BY <3>2, <3>3, RemoveAtType
    <3>5. p[1] \in DOMAIN RemoveAt(queue_, p[2])
      BY <3>2, <3>3, <3>4, LenProperties
    <3>6. QueueTypeOK'
      BY <3>1, <3>4, <3>5, RemoveAtType DEF QueueTypeOK
    <3>7. removed' \subseteq Nat
      <4>1. queue_[p[1]] \in ItemType /\ queue_[p[2]] \in ItemType
        BY <3>2, <3>3, ElementOfSeq
      <4> QED
        BY <3>1, <4>1 DEF TypeOK, ItemType
    <3>8. UNCHANGED <<deviceVars, pressingPhysicalKeys, timerVars, serialNumber_, blockVars, skpVars,
                      configVars, pc, loop, outVars, clockVars>>
      BY <2>8 DEF RemoveBouncing
    <3> QED
      BY <3>6, <3>7, <3>8, Unchanged DEF TypeOK
  <2>9. ASSUME BouncingDone PROVE TypeOK'
    <3>1. HandlerTypeOK'
      BY <2>9 DEF BouncingDone, TypeOK, HandlerTypeOK
    <3>2. UNCHANGED <<deviceVars, pressingPhysicalKeys, queue_, timerVars, serialNumber_, blockVars,
                      skpVars, configVars, outVars, clockVars, removed>>
      BY <2>9 DEF BouncingDone
    <3> QED
      BY <3>1, <3>2, Unchanged DEF TypeOK
  <2>10. ASSUME SimultaneousRound PROVE TypeOK'
    <3>1. HandlerTypeOK'
      <4>1. CASE queue_ = << >>
        BY <2>10, <4>1 DEF SimultaneousRound, TypeOK, HandlerTypeOK
      <4>2. CASE queue_ # << >>
        <5>1. Head(queue_) \in ItemType
          BY <4>2, HeadTailProperties DEF TypeOK, QueueTypeOK
        <5>2. (Head(queue_).down \/ ~IsDownUp(Head(queue_))) \in BOOLEAN
          BY <5>1 DEF ItemType, IsDownUp
        <5>3. /\ pc' = "simultaneous"
              /\ loop' = [loop EXCEPT !.at = 1, !.down = Head(queue_).down \/ ~IsDownUp(Head(queue_)),
                                      !.changed = FALSE]
          BY <2>10, <4>2 DEF SimultaneousRound
        <5>4. ASSUME NEW b \in BOOLEAN
              PROVE  [loop EXCEPT !.at = 1, !.down = b, !.changed = FALSE] \in LoopType
                     /\ [loop EXCEPT !.at = 1, !.down = b, !.changed = FALSE].at = 1
          BY DEF TypeOK, HandlerTypeOK, LoopType
        <5>5. loop' \in LoopType /\ loop'.at = 1
          BY <5>2, <5>3, <5>4, Zenon
        <5> QED
          BY <5>3, <5>5 DEF HandlerTypeOK
      <4> QED
        BY <4>1, <4>2
    <3>2. UNCHANGED <<deviceVars, pressingPhysicalKeys, queue_, timerVars, serialNumber_, blockVars,
                      skpVars, configVars, outVars, clockVars, removed>>
      BY <2>10 DEF SimultaneousRound
    <3> QED
      BY <3>1, <3>2, Unchanged DEF TypeOK
  <2>11. ASSUME remap_SimultaneousKeyPresses PROVE TypeOK'
    <3> DEFINE r == loop.at
               called == IF loop.down THEN r \in enabledItems ELSE activeItems[r] > 0
               res == RemapSimultaneousKeyPresses(r, Items[r], queue_, activeFromInfos, Live, serialNumber_)
    <3>1. r \in DOMAIN Items /\ Items[r] \in SimultaneousItem /\ Items[r].key1 # Items[r].key2
      <4>1. Items \in Seq(SimultaneousItem)
        BY ConstantsAssumption
      <4>2. r \in Nat /\ r > 0
        BY <2>11 DEF remap_SimultaneousKeyPresses, TypeOK, HandlerTypeOK, LoopType
      <4>3. r \in DOMAIN Items
        BY <2>11, <4>1, <4>2, LenProperties DEF remap_SimultaneousKeyPresses
      <4> QED
        BY <4>1, <4>3, ElementOfSeq, LenProperties, ConstantsAssumption
    <3>2. res \in ResultType
      BY <3>1, RemapType DEF TypeOK, QueueTypeOK, SkpTypeOK
    <3>3. HandlerTypeOK'
      <4>1. loop \in LoopType /\ pc' = pc /\ pc = "simultaneous"
        BY <2>11 DEF remap_SimultaneousKeyPresses, TypeOK, HandlerTypeOK
      <4>2. \/ loop' = [loop EXCEPT !.at = @ + 1, !.changed = TRUE]
            \/ loop' = [loop EXCEPT !.at = @ + 1]
        BY <2>11, Zenon DEF remap_SimultaneousKeyPresses
      <4>3. /\ [loop EXCEPT !.at = @ + 1, !.changed = TRUE] \in LoopType
            /\ [loop EXCEPT !.at = @ + 1] \in LoopType
            /\ [loop EXCEPT !.at = @ + 1, !.changed = TRUE].at > 0
            /\ [loop EXCEPT !.at = @ + 1].at > 0
        BY <4>1, LoopStep
      <4>4. loop' \in LoopType /\ loop'.at > 0
        BY <4>2, <4>3, Zenon
      <4> QED
        BY <4>1, <4>4 DEF HandlerTypeOK
    <3>4. QueueTypeOK' /\ SkpTypeOK' /\ removed' \subseteq Nat
      <4>1. CASE called /\ res.result # "NOT_CHANGED"
        <5>1. /\ queue_' = res.queue
              /\ activeFromInfos' = res.active
              /\ activeItems' = [activeItems EXCEPT ![r] = CASE res.result # "APPLIED" -> @
                                                             [] loop.down -> @ + 1
                                                             [] OTHER -> @ - 1]
              /\ removed' = removed \cup res.removed
          BY <2>11, <4>1, Zenon DEF remap_SimultaneousKeyPresses
        <5>2. /\ res.queue \in Seq(ItemType) /\ res.active \in SUBSET ActiveType
              /\ res.removed \in SUBSET Nat
          <6> HIDE DEF res
          <6> QED
            BY <3>2 DEF ResultType
        <5>3. activeItems \in [DOMAIN Items -> Nat] /\ activeItems[r] \in Nat
          BY <3>1 DEF TypeOK, SkpTypeOK
        <5> DEFINE n == CASE res.result # "APPLIED" -> activeItems[r]
                          [] loop.down -> activeItems[r] + 1
                          [] OTHER -> activeItems[r] - 1
        <5>4. n \in Nat
          <6>1. loop.down \/ activeItems[r] > 0
            BY <4>1
          <6> HIDE DEF res
          <6>2. CASE res.result # "APPLIED"
            <7> HIDE DEF called
            <7>1. CASE loop.down
              BY <5>3, <6>2, <7>1
            <7>2. CASE ~loop.down
              BY <5>3, <6>2, <7>2
            <7> QED
              BY <7>1, <7>2
          <6>3. CASE res.result = "APPLIED" /\ loop.down
            BY <5>3, <6>3
          <6>4. CASE res.result = "APPLIED" /\ ~loop.down
            BY <5>3, <6>1, <6>4
          <6> QED
            BY <6>2, <6>3, <6>4
        <5>5. activeItems' = [activeItems EXCEPT ![r] = n]
          BY <5>1, Zenon
        <5> HIDE DEF n
        <5>6. activeItems' \in [DOMAIN Items -> Nat]
          BY <5>3, <5>4, <5>5
        <5> HIDE DEF res
        <5> QED
          BY <5>1, <5>2, <5>6 DEF TypeOK, QueueTypeOK, SkpTypeOK
      <4>2. CASE ~(called /\ res.result # "NOT_CHANGED")
        <5>1. UNCHANGED <<queue_, skpVars, removed>>
          BY <2>11, <4>2, Zenon DEF remap_SimultaneousKeyPresses
        <5> QED
          BY <5>1, Unchanged DEF TypeOK
      <4> QED
        BY <4>1, <4>2
    <3>5. UNCHANGED <<deviceVars, pressingPhysicalKeys, timerVars, serialNumber_, blockVars, configVars,
                      outVars, clockVars>>
      BY <2>11 DEF remap_SimultaneousKeyPresses
    <3> QED
      BY <3>3, <3>4, <3>5, Unchanged DEF TypeOK
  <2>12. ASSUME SimultaneousDone PROVE TypeOK'
    <3>1. HandlerTypeOK'
      <4>1. NoLoop \in LoopType
        BY DEF NoLoop, LoopType
      <4>2. pc' \in {"front", "fire"} /\ loop' = NoLoop
        BY <2>12, Zenon DEF SimultaneousDone
      <4> QED
        BY <4>1, <4>2 DEF HandlerTypeOK
    <3>2. UNCHANGED <<deviceVars, pressingPhysicalKeys, queue_, timerVars, serialNumber_, blockVars,
                      skpVars, configVars, outVars, clockVars, removed>>
      BY <2>12 DEF SimultaneousDone
    <3> QED
      BY <3>1, <3>2, Unchanged DEF TypeOK
  <2>13. ASSUME FirePassing PROVE TypeOK'
    <3>1. queue_ \in Seq(ItemType) /\ queue_ # << >>
      BY <2>13 DEF FirePassing, FireFront, TypeOK, QueueTypeOK
    <3>2. QueueTypeOK' /\ OutTypeOK' /\ SkpTypeOK'
      BY <2>13, <3>1, DoFireType DEF FirePassing
    <3>3. TimerTypeOK' /\ BlockTypeOK'
      BY <2>13, <3>2, SetTimerType, Unchanged DEF FirePassing
    <3> QED
      BY <2>13, <3>2, <3>3, FireFrontType DEF FirePassing, TypeOK
  <2>14. ASSUME FireUnblocked PROVE TypeOK'
    <3> DEFINE q == Replayed(blockedQueue_) \o queue_
    <3>1. queue_ \in Seq(ItemType) /\ queue_ # << >> /\ blockedQueue_ \in Seq(ItemType)
      BY <2>14 DEF FireUnblocked, FireFront, TypeOK, QueueTypeOK, BlockTypeOK
    <3>2. q \in Seq(ItemType) /\ q # << >>
      BY <3>1, ReplayedType, ConcatProperties, LenProperties, EmptySeq
    <3> HIDE DEF q
    <3>3. QueueTypeOK' /\ OutTypeOK' /\ SkpTypeOK'
      BY <2>14, <3>2, DoFireType DEF FireUnblocked, q
    <3>4. TimerTypeOK'
      BY <2>14, <3>3, SetTimerType DEF FireUnblocked
    <3>5. BlockTypeOK'
      <4>1. PressingEvents \subseteq [key : DownUps, ignore : BOOLEAN]
        BY <2>14, FireFrontType DEF FireUnblocked, Passes
      <4>2. << >> \in Seq(ItemType)
        OBVIOUS
      <4> QED
        BY <2>14, <4>1, <4>2, Zenon DEF FireUnblocked, BlockTypeOK
    <3> QED
      BY <2>14, <3>3, <3>4, <3>5, FireFrontType DEF FireUnblocked, TypeOK
  <2>15. ASSUME ReleaseBlockingKey PROVE TypeOK'
    <3> DEFINE b == InsertAt(blockedQueue_, LastDown(FrontItem.key) + 1, FrontItem)
               q == Replayed(b) \o Tail(queue_)
    <3>1. FrontItem \in ItemType /\ Tail(queue_) \in Seq(ItemType) /\ blockedQueue_ \in Seq(ItemType)
      BY <2>15, FireFrontType DEF ReleaseBlockingKey, TypeOK, BlockTypeOK
    <3>2. b \in Seq(ItemType) /\ b # << >>
      BY <3>1, LastDownType, InsertAtType
    <3> HIDE DEF b
    <3>3. q \in Seq(ItemType) /\ q # << >>
      BY <3>1, <3>2, ReplayedType, ConcatProperties, LenProperties, EmptySeq
    <3> HIDE DEF q
    <3>4. QueueTypeOK' /\ OutTypeOK' /\ SkpTypeOK'
      BY <2>15, <3>3, DoFireType DEF ReleaseBlockingKey, b, q
    <3>5. TimerTypeOK'
      BY <2>15, <3>4, SetTimerType DEF ReleaseBlockingKey
    <3>6. BlockTypeOK'
      <4>1. PressingEvents \subseteq [key : DownUps, ignore : BOOLEAN]
        BY <2>15, FireFrontType DEF ReleaseBlockingKey, Passes
      <4>2. << >> \in Seq(ItemType)
        OBVIOUS
      <4> QED
        BY <2>15, <4>1, <4>2, Zenon DEF ReleaseBlockingKey, BlockTypeOK
    <3> QED
      BY <2>15, <3>4, <3>5, <3>6, FireFrontType DEF ReleaseBlockingKey, TypeOK
  <2>16. ASSUME ReleaseTappedKey PROVE TypeOK'
    <3> DEFINE b == Append(blockedQueue_, FrontItem)
               q == Replayed(b) \o Tail(queue_)
    <3>1. FrontItem \in ItemType /\ Tail(queue_) \in Seq(ItemType) /\ blockedQueue_ \in Seq(ItemType)
      BY <2>16, FireFrontType DEF ReleaseTappedKey, TypeOK, BlockTypeOK
    <3>2. b \in Seq(ItemType) /\ b # << >>
      BY <3>1, AppendProperties
    <3> HIDE DEF b
    <3>3. q \in Seq(ItemType) /\ q # << >>
      BY <3>1, <3>2, ReplayedType, ConcatProperties, LenProperties, EmptySeq
    <3> HIDE DEF q
    <3>4. QueueTypeOK' /\ OutTypeOK' /\ SkpTypeOK'
      BY <2>16, <3>3, DoFireType DEF ReleaseTappedKey, b, q
    <3>5. TimerTypeOK'
      BY <2>16, <3>4, SetTimerType DEF ReleaseTappedKey
    <3>6. BlockTypeOK'
      <4>1. PressingEvents \subseteq [key : DownUps, ignore : BOOLEAN]
        BY <2>16, FireFrontType DEF ReleaseTappedKey, Passes
      <4>2. IgnoreAll(PressingEvents) \subseteq [key : DownUps, ignore : BOOLEAN]
        BY <4>1, IgnoreAllType
      <4>3. << >> \in Seq(ItemType)
        OBVIOUS
      <4> QED
        BY <2>16, <4>2, <4>3, Zenon DEF ReleaseTappedKey, BlockTypeOK
    <3> QED
      BY <2>16, <3>4, <3>5, <3>6, FireFrontType DEF ReleaseTappedKey, TypeOK
  <2>17. ASSUME Block PROVE TypeOK'
    <3>1. FrontItem \in ItemType /\ Tail(queue_) \in Seq(ItemType) /\ blockedQueue_ \in Seq(ItemType)
      BY <2>17, FireFrontType DEF Block, TypeOK, BlockTypeOK
    <3>2. QueueTypeOK'
      BY <2>17, <3>1 DEF Block, QueueTypeOK
    <3>3. TimerTypeOK' /\ SkpTypeOK' /\ OutTypeOK'
      BY <2>17, <3>2, SetTimerType, Unchanged DEF Block
    <3>4. BlockTypeOK'
      BY <2>17, <3>1, FireFrontType, AppendProperties DEF Block, Passes, BlockTypeOK
    <3> QED
      BY <2>17, <3>2, <3>3, <3>4, FireFrontType DEF Block, TypeOK
  <2>18. ASSUME fire_timer_callback PROVE TypeOK'
    <3>1. TimerTypeOK' /\ HandlerTypeOK'
      BY <2>18 DEF fire_timer_callback, TimerTypeOK, HandlerTypeOK, NotArmed, KindType, NoLoop, LoopType
    <3>2. ClockTypeOK'
      BY <2>18 DEF fire_timer_callback, TypeOK, TimerTypeOK, ClockTypeOK, KindType
    <3>3. UNCHANGED <<deviceVars, pressingPhysicalKeys, queue_, serialNumber_, blockVars, skpVars,
                      configVars, outVars, removed>>
      BY <2>18 DEF fire_timer_callback
    <3> QED
      BY <3>1, <3>2, <3>3, Unchanged DEF TypeOK
  <2>19. ASSUME blockingTimeOut_timer_callback PROVE TypeOK'
    <3>1. queue_ \in Seq(ItemType) /\ blockedQueue_ \in Seq(ItemType)
      BY DEF TypeOK, QueueTypeOK, BlockTypeOK
    <3>2. QueueTypeOK'
      BY <2>19, <3>1, ReplayedType, ConcatProperties DEF blockingTimeOut_timer_callback, QueueTypeOK
    <3>3. TimerTypeOK'
      BY <2>19, <3>2, SetTimerType DEF blockingTimeOut_timer_callback
    <3>4. BlockTypeOK'
      <4>1. IgnoreAll(pressingEvents_) \subseteq [key : DownUps, ignore : BOOLEAN]
        BY IgnoreAllType DEF TypeOK, BlockTypeOK
      <4>2. << >> \in Seq(ItemType)
        OBVIOUS
      <4> QED
        BY <2>19, <4>1, <4>2, Zenon DEF blockingTimeOut_timer_callback, BlockTypeOK
    <3>5. UNCHANGED <<deviceVars, pressingPhysicalKeys, serialNumber_, skpVars, configVars, pc, loop,
                      outVars, clockVars, removed>>
      BY <2>19 DEF blockingTimeOut_timer_callback
    <3> QED
      BY <3>2, <3>3, <3>4, <3>5, Unchanged DEF TypeOK
  <2>20. CASE UNCHANGED vars
    BY <2>20, Unchanged DEF vars, TypeOK
  <2> QED
    BY <2>1, <2>2, <2>3, <2>4, <2>5, <2>6, <2>7, <2>8, <2>9, <2>10, <2>11, <2>12, <2>13, <2>14, <2>15,
       <2>16, <2>17, <2>18, <2>19, <2>20, Zenon DEF Next, HardwareNext, HandlerNext, TimerNext
<1> QED
  BY <1>1, <1>2, PTL DEF Spec

-----------------------------------------------------------------------------
(* TimersArmed is inductive as it stands: every handler that leaves an     *)
(* event in queue_ ends in setTimer, and blockedQueue_ and its timer       *)
(* change together.                                                        *)

\* setTimer leaves no waiting event without its timer.
LEMMA SetTimerArms == SetTimer => (queue_' # << >> => fireTimer')
BY DEF SetTimer, timerVars

\* No wakeup is lost, whatever the interleaving of hardware callbacks and timers
\* (EventInputQueue::setTimer, BlockUntilKeyUpHandler::endBlocking).
THEOREM TimersArmedTheorem == Spec => []TimersArmed
<1>1. Init => TimersArmed
  BY DEF Init, TimersArmed
<1>2. TimersArmed /\ [Next]_vars => TimersArmed'
  <2> SUFFICES ASSUME TimersArmed, [Next]_vars PROVE TimersArmed'
    OBVIOUS
  <2>1. CASE HardwareNext
    <3>1. CASE \E d \in Keyboards, k \in Keys, down, repeat \in BOOLEAN : push_KeyboardEventCallback(d, k, down, repeat)
      BY <3>1, SetTimerArms DEF TimersArmed, push_KeyboardEventCallback, timerVars, blockVars
    <3>2. CASE \E d \in Pointings, B \in SUBSET {Buttons[i] : i \in DOMAIN Buttons}, moved \in BOOLEAN :
                  push_RelativePointerEventCallback(d, B, moved)
      BY <3>2 DEF TimersArmed, push_RelativePointerEventCallback, blockVars
    <3>3. CASE \E d \in Pointings : push_ScrollWheelEventCallback(d)
      <4> PICK d \in Pointings : push_ScrollWheelEventCallback(d)
        BY <3>3
      <4>1. /\ queue_' # << >> => fireTimer'
            /\ blockedQueue_' = blockedQueue_ /\ blockingTimer' = blockingTimer
        BY SetTimerArms DEF push_ScrollWheelEventCallback, blockVars
      <4> QED
        BY <4>1 DEF TimersArmed
    <3>4. CASE \E d \in Devices : Connect(d) \/ Disconnect(d)
      BY <3>4 DEF TimersArmed, Connect, Disconnect, timerVars, blockVars
    <3>5. CASE SetConfig
      BY <3>5 DEF TimersArmed, SetConfig, timerVars, blockVars
    <3> QED
      BY <2>1, <3>1, <3>2, <3>3, <3>4, <3>5 DEF HardwareNext
  <2>2. CASE HandlerNext
    <3>1. CASE PushButton \/ RemoveBouncing \/ BouncingDone \/ remap_SimultaneousKeyPresses \/ SimultaneousDone
      BY <3>1 DEF TimersArmed, PushButton, RemoveBouncing, BouncingDone, remap_SimultaneousKeyPresses,
                  SimultaneousDone, blockVars
    <3>2. CASE PushMotion
      BY <3>2, SetTimerArms DEF TimersArmed, PushMotion, blockVars
    <3>3. CASE SimultaneousRound
      BY <3>3 DEF TimersArmed, SimultaneousRound, blockVars, timerVars
    <3>4. CASE FirePassing
      BY <3>4, SetTimerArms DEF TimersArmed, FirePassing, blockVars
    <3>5. CASE FireUnblocked \/ ReleaseBlockingKey \/ ReleaseTappedKey
      BY <3>5, SetTimerArms DEF TimersArmed, FireUnblocked, ReleaseBlockingKey, ReleaseTappedKey
    <3>6. CASE Block
      BY <3>6, SetTimerArms DEF TimersArmed, Block
    <3> QED
      BY <2>2, <3>1, <3>2, <3>3, <3>4, <3>5, <3>6 DEF HandlerNext
  <2>3. CASE TimerNext
    BY <2>3, SetTimerArms DEF TimersArmed, TimerNext, fire_timer_callback, blockingTimeOut_timer_callback, blockVars
  <2>4. CASE UNCHANGED vars
    BY <2>4 DEF TimersArmed, vars, timerVars, blockVars
  <2> QED
    BY <2>1, <2>2, <2>3, <2>4 DEF Next
<1> QED
  BY <1>1, <1>2, PTL DEF Spec

-----------------------------------------------------------------------------
(* BlockedWhilePressing is inductive as it stands: an event is blocked     *)
(* only on account of a press that is not ignored, or of its own press,    *)
(* and whatever ignores or releases the last one empties blockedQueue_.    *)

\* The pressing events explain why the front event is held back.
LEMMA BlockHasReason ==
  ASSUME Block
  PROVE  \E e \in pressingEvents_' : ~e.ignore
<1>1. CASE \E e \in PressingEvents : ~e.ignore /\ e.key \in blockTargets
  BY <1>1, Zenon DEF Block
<1>2. CASE FrontItem.key \in blockTargets
  <2>1. FrontItem.down
    BY <1>2 DEF Block
  <2>2. [key |-> FrontItem.key, ignore |-> FALSE] \in PressingEvents
    BY <2>1, Zenon DEF PressingEvents
  <2>3. ~[key |-> FrontItem.key, ignore |-> FALSE].ignore
    OBVIOUS
  <2> QED
    BY <2>2, <2>3, Zenon DEF Block
<1> QED
  BY <1>1, <1>2, Zenon DEF Block, NeedToBlock

\* No event stays blocked after the press it was blocked for is over
\* (BlockUntilKeyUpHandler::doBlockUntilKeyUp, endBlocking, setIgnoreToAll).
THEOREM BlockedWhilePressingTheorem == Spec => []BlockedWhilePressing
<1>1. Init => BlockedWhilePressing
  BY DEF Init, BlockedWhilePressing
<1>2. BlockedWhilePressing /\ [Next]_vars => BlockedWhilePressing'
  <2> SUFFICES ASSUME BlockedWhilePressing, [Next]_vars PROVE BlockedWhilePressing'
    OBVIOUS
  <2>1. ASSUME UNCHANGED blockVars PROVE BlockedWhilePressing'
    BY <2>1 DEF BlockedWhilePressing, blockVars
  <2>2. ASSUME blockedQueue_' = << >> PROVE BlockedWhilePressing'
    BY <2>2 DEF BlockedWhilePressing
  <2>3. CASE HardwareNext
    BY <2>1, <2>3 DEF HardwareNext, push_KeyboardEventCallback, push_RelativePointerEventCallback,
                      push_ScrollWheelEventCallback, Connect, Disconnect, SetConfig
  <2>4. CASE PushButton \/ PushMotion \/ RemoveBouncing \/ BouncingDone \/ SimultaneousRound
               \/ remap_SimultaneousKeyPresses \/ SimultaneousDone
    BY <2>1, <2>4 DEF PushButton, PushMotion, RemoveBouncing, BouncingDone, SimultaneousRound,
                      remap_SimultaneousKeyPresses, SimultaneousDone
  <2>5. CASE FirePassing \/ fire_timer_callback
    BY <2>1, <2>5 DEF FirePassing, fire_timer_callback
  <2>6. CASE FireUnblocked \/ ReleaseBlockingKey \/ ReleaseTappedKey \/ blockingTimeOut_timer_callback
    BY <2>2, <2>6 DEF FireUnblocked, ReleaseBlockingKey, ReleaseTappedKey, blockingTimeOut_timer_callback
  <2>7. CASE Block
    BY <2>7, BlockHasReason DEF BlockedWhilePressing
  <2>8. CASE UNCHANGED vars
    BY <2>1, <2>8 DEF vars
  <2> QED
    BY <2>3, <2>4, <2>5, <2>6, <2>7, <2>8, Zenon DEF Next, HandlerNext, TimerNext
<1> QED
  BY <1>1, <1>2, PTL DEF Spec

-----------------------------------------------------------------------------
(* Lists of events *)

\* The events of s are related by R in the order of s.
Fine(s, R) == \A i, j \in DOMAIN s : i < j => <<s[i], s[j]>> \in R

\* Every event of s is related by R to every event of t.
Cross(s, t, R) == \A x \in Range(s) : \A y \in Range(t) : <<x, y>> \in R

\* What is related in a concatenation.
LEMMA FineConcat ==
  ASSUME NEW S, NEW s \in Seq(S), NEW t \in Seq(S), NEW R
  PROVE  Fine(s \o t, R) <=> Fine(s, R) /\ Fine(t, R) /\ Cross(s, t, R)
<1> DEFINE u == s \o t
           m == Len(s)
           n == Len(t)
<1>1. /\ m \in Nat /\ n \in Nat /\ Len(u) = m + n
      /\ DOMAIN s = 1..m /\ DOMAIN t = 1..n /\ DOMAIN u = 1..(m + n)
      /\ \A i \in 1..(m + n) : u[i] = IF i <= m THEN s[i] ELSE t[i - m]
  <2>1. u \in Seq(S)
    BY ConcatProperties
  <2> QED BY <2>1, ConcatProperties, LenProperties
<1>2. Range(s) = {s[i] : i \in 1..m} /\ Range(t) = {t[i] : i \in 1..n}
  BY RangeEquality
<1> HIDE DEF u, m, n
<1>3. ASSUME Fine(u, R) PROVE Fine(s, R) /\ Fine(t, R) /\ Cross(s, t, R)
  <2>1. Fine(s, R)
    <3> SUFFICES ASSUME NEW i \in 1..m, NEW j \in 1..m, i < j PROVE <<s[i], s[j]>> \in R
      BY <1>1 DEF Fine
    <3>1. i \in 1..(m + n) /\ j \in 1..(m + n) /\ u[i] = s[i] /\ u[j] = s[j]
      BY <1>1
    <3> QED BY <1>1, <1>3, <3>1 DEF Fine
  <2>2. Fine(t, R)
    <3> SUFFICES ASSUME NEW i \in 1..n, NEW j \in 1..n, i < j PROVE <<t[i], t[j]>> \in R
      BY <1>1 DEF Fine
    <3>1. /\ m + i \in 1..(m + n) /\ m + j \in 1..(m + n) /\ m + i < m + j
          /\ ~(m + i <= m) /\ ~(m + j <= m) /\ (m + i) - m = i /\ (m + j) - m = j
      BY <1>1
    <3>2. u[m + i] = t[i] /\ u[m + j] = t[j]
      BY <1>1, <3>1
    <3> QED BY <1>1, <1>3, <3>1, <3>2 DEF Fine
  <2>3. Cross(s, t, R)
    <3> SUFFICES ASSUME NEW i \in 1..m, NEW j \in 1..n PROVE <<s[i], t[j]>> \in R
      BY <1>2 DEF Cross
    <3>1. /\ i \in 1..(m + n) /\ m + j \in 1..(m + n) /\ i < m + j
          /\ i <= m /\ ~(m + j <= m) /\ (m + j) - m = j
      BY <1>1
    <3>2. u[i] = s[i] /\ u[m + j] = t[j]
      BY <1>1, <3>1
    <3> QED BY <1>1, <1>3, <3>1, <3>2 DEF Fine
  <2> QED BY <2>1, <2>2, <2>3
<1>4. ASSUME Fine(s, R), Fine(t, R), Cross(s, t, R) PROVE Fine(u, R)
  <2> SUFFICES ASSUME NEW i \in 1..(m + n), NEW j \in 1..(m + n), i < j PROVE <<u[i], u[j]>> \in R
    BY <1>1 DEF Fine
  <2>1. CASE j <= m
    <3>1. i \in 1..m /\ j \in 1..m /\ i <= m
      BY <1>1, <2>1
    <3> QED BY <1>1, <1>4, <2>1, <3>1 DEF Fine
  <2>2. CASE i <= m /\ ~(j <= m)
    <3>1. i \in 1..m /\ j - m \in 1..n
      BY <1>1, <2>2
    <3>2. u[i] = s[i] /\ u[j] = t[j - m]
      BY <1>1, <2>2
    <3> QED BY <1>2, <1>4, <3>1, <3>2 DEF Cross
  <2>3. CASE ~(i <= m) /\ ~(j <= m)
    <3>1. i - m \in 1..n /\ j - m \in 1..n /\ i - m < j - m
      BY <1>1, <2>3
    <3>2. u[i] = t[i - m] /\ u[j] = t[j - m]
      BY <1>1, <2>3
    <3> QED BY <1>1, <1>4, <3>1, <3>2 DEF Fine
  <2>4. j <= m \/ (i <= m /\ ~(j <= m)) \/ (~(i <= m) /\ ~(j <= m))
    BY <1>1
  <2> QED BY <2>1, <2>2, <2>3, <2>4
<1> QED
  BY <1>3, <1>4 DEF u

\* The lists of none and of one event.
LEMMA FineShort ==
  /\ Range(<< >>) = {} /\ \A R : Fine(<< >>, R)
  /\ \A x : /\ Range(<<x>>) = {x} /\ <<x>> \in Seq({x})
            /\ \A R : Fine(<<x>>, R)
<1>1. ASSUME NEW x
      PROVE  /\ Range(<<x>>) = {x} /\ <<x>> \in Seq({x})
             /\ \A R : Fine(<<x>>, R)
  <2>1. DOMAIN <<x>> = {1} /\ <<x>>[1] = x /\ <<x>> \in Seq({x})
    OBVIOUS
  <2>2. Range(<<x>>) = {x}
    BY <2>1 DEF Range
  <2>3. \A R : Fine(<<x>>, R)
    BY <2>1 DEF Fine
  <2> QED BY <2>1, <2>2, <2>3
<1>2. Range(<< >>) = {} /\ \A R : Fine(<< >>, R)
  <2>1. DOMAIN << >> = {}
    OBVIOUS
  <2> QED BY <2>1 DEF Range, Fine
<1> QED
  BY <1>1, <1>2

\* A list in pieces: before, at and behind a position.
LEMMA Cut ==
  ASSUME NEW S, NEW s \in Seq(S), NEW i \in DOMAIN s
  PROVE  \E p, r \in Seq(S) : /\ s = p \o (<<s[i]>> \o r) /\ RemoveAt(s, i) = p \o r
                              /\ s[i] \in S /\ Len(p) = i - 1
<1> DEFINE p == SubSeq(s, 1, i - 1)
           r == SubSeq(s, i + 1, Len(s))
<1>1. Len(s) \in Nat /\ i \in 1..Len(s) /\ \A j \in 1..Len(s) : s[j] \in S
  BY LenProperties, ElementOfSeq
<1>2. p \in Seq(S) /\ r \in Seq(S) /\ Len(p) = i - 1
  BY <1>1, SubSeqProperties
<1>3. p \o SubSeq(s, i, Len(s)) = s
  <2>1. 1 \in 1..Len(s) + 1 /\ i - 1 \in 0..Len(s) /\ Len(s) \in (i - 1)..Len(s) /\ (i - 1) + 1 = i
    BY <1>1
  <2>2. SubSeq(s, 1, i - 1) \o SubSeq(s, (i - 1) + 1, Len(s)) = SubSeq(s, 1, Len(s))
    <3> DEFINE j == i - 1
    <3>1. j \in Nat /\ j + 1 = i /\ 1 \in 1..Len(s)+1 /\ j \in (1-1)..Len(s) /\ Len(s) \in j..Len(s)
      BY <1>1
    <3> HIDE DEF j
    <3>2. SubSeq(s, 1, j) \o SubSeq(s, j+1, Len(s)) = SubSeq(s, 1, Len(s))
      BY <3>1, ConcatAdjacentSubSeq
    <3> QED BY <3>1, <3>2 DEF j
  <2> QED BY <2>1, <2>2, SubSeqFull
<1>4. SubSeq(s, i, Len(s)) = <<s[i]>> \o r
  <2>1. Len(s) \in i..Len(s)
    BY <1>1
  <2> QED BY <1>1, <2>1, SubSeqRecursiveFirst
<1>5. RemoveAt(s, i) = p \o r
  BY DEF RemoveAt
<1> HIDE DEF p, r
<1> QED
  BY <1>1, <1>2, <1>3, <1>4, <1>5

-----------------------------------------------------------------------------
(* Conservation.  An event is a name: what Conservation asks of the lists  *)
(* of events is which positive ids they hold, each once.  With that, every *)
(* step is a move of ids between fired, blockedQueue_, queue_ and removed. *)

\* The ids of s that name an event of the hardware.
Hardware(s) == Ids(s) \ {0}

\* The pairs of events that are not one event of the hardware.
Distinct == {p \in ItemType \X ItemType : p[1].id > 0 => p[1].id # p[2].id}

\* The ids 1..n are spread over the lists f, b and q and the set R, each at one place.
Accounts(f, b, q, R, n) ==
    /\ NoDuplicate(f) /\ NoDuplicate(b) /\ NoDuplicate(q)
    /\ Hardware(f) \cap Hardware(b) = {}
    /\ Hardware(f) \cap Hardware(q) = {}
    /\ Hardware(b) \cap Hardware(q) = {}
    /\ (Hardware(f) \cup Hardware(b) \cup Hardware(q)) \cap R = {}
    /\ 1..n = (Hardware(f) \cup Hardware(b) \cup Hardware(q) \cup R) \ {0}

\* A list of events and the range of it.
LEMMA IdsRange ==
  ASSUME NEW s \in Seq(ItemType)
  PROVE  /\ Ids(s) = {x.id : x \in Range(s)}
         /\ Range(s) \subseteq ItemType /\ Ids(s) \subseteq Nat
         /\ NoDuplicate(s) <=> Fine(s, Distinct)
<1>1. Range(s) = {s[i] : i \in DOMAIN s} /\ DOMAIN s \subseteq Nat
  BY RangeEquality, LenProperties
<1>2. \A i \in DOMAIN s : s[i] \in ItemType /\ s[i].id \in Nat
  <2>1. \A i \in DOMAIN s : s[i] \in ItemType
    BY ElementOfSeq, LenProperties
  <2> QED BY <2>1 DEF ItemType
<1>3. NoDuplicate(s) => Fine(s, Distinct)
  <2> SUFFICES ASSUME NoDuplicate(s), NEW i \in DOMAIN s, NEW j \in DOMAIN s, i < j
               PROVE  <<s[i], s[j]>> \in Distinct
    BY DEF Fine
  <2>1. i # j
    BY <1>1
  <2> QED BY <1>2, <2>1 DEF NoDuplicate, Distinct
<1>4. Fine(s, Distinct) => NoDuplicate(s)
  <2> SUFFICES ASSUME Fine(s, Distinct), NEW i \in DOMAIN s, NEW j \in DOMAIN s, i # j, s[i].id > 0
               PROVE  s[i].id # s[j].id
    BY DEF NoDuplicate
  <2>1. i < j \/ j < i
    BY <1>1
  <2>2. CASE i < j
    BY <2>2 DEF Fine, Distinct
  <2>3. CASE j < i
    <3>1. s[j].id > 0 => s[j].id # s[i].id
      BY <2>3 DEF Fine, Distinct
    <3> QED BY <1>2, <3>1
  <2> QED BY <2>1, <2>2, <2>3
<1> QED
  BY <1>1, <1>2, <1>3, <1>4 DEF Ids

\* The ids of a concatenation.
LEMMA IdsConcat ==
  ASSUME NEW s \in Seq(ItemType), NEW t \in Seq(ItemType)
  PROVE  /\ s \o t \in Seq(ItemType) /\ Ids(s \o t) = Ids(s) \cup Ids(t)
         /\ NoDuplicate(s \o t) <=> /\ NoDuplicate(s) /\ NoDuplicate(t)
                                    /\ Hardware(s) \cap Hardware(t) = {}
<1> DEFINE u == s \o t
<1>1. u \in Seq(ItemType) /\ Range(u) = Range(s) \cup Range(t)
  BY ConcatProperties, RangeConcatenation
<1>2. Fine(u, Distinct) <=> Fine(s, Distinct) /\ Fine(t, Distinct) /\ Cross(s, t, Distinct)
  BY FineConcat
<1> HIDE DEF u
<1>3. Cross(s, t, Distinct) <=> Hardware(s) \cap Hardware(t) = {}
  <2>1. \A x \in ItemType : x.id \in Nat
    BY DEF ItemType
  <2>2. ASSUME NEW x \in Range(s), NEW y \in Range(t)
        PROVE  <<x, y>> \in Distinct <=> (x.id = 0 \/ x.id # y.id)
    <3>1. x \in ItemType /\ y \in ItemType
      BY IdsRange
    <3>2. x.id \in Nat /\ <<x, y>> \in ItemType \X ItemType /\ <<x, y>>[1] = x /\ <<x, y>>[2] = y
      BY <2>1, <3>1
    <3>3. x.id > 0 <=> x.id # 0
      BY <3>2
    <3> QED BY <3>2, <3>3 DEF Distinct
  <2> QED BY <2>2, IdsRange DEF Cross, Hardware
<1>4. Ids(u) = Ids(s) \cup Ids(t)
  BY <1>1, IdsRange
<1> QED
  BY <1>1, <1>2, <1>3, <1>4, IdsRange DEF u

\* The ids of the lists of none and of one event.
LEMMA IdsShort ==
  /\ Ids(<< >>) = {} /\ NoDuplicate(<< >>) /\ << >> \in Seq(ItemType)
  /\ \A x \in ItemType : Ids(<<x>>) = {x.id} /\ NoDuplicate(<<x>>) /\ <<x>> \in Seq(ItemType)
<1>1. Ids(<< >>) = {} /\ NoDuplicate(<< >>) /\ << >> \in Seq(ItemType)
  BY DEF Ids, NoDuplicate
<1>2. ASSUME NEW x \in ItemType PROVE Ids(<<x>>) = {x.id} /\ NoDuplicate(<<x>>) /\ <<x>> \in Seq(ItemType)
  <2>1. DOMAIN <<x>> = {1} /\ <<x>>[1] = x /\ <<x>> \in Seq(ItemType)
    OBVIOUS
  <2> QED BY <2>1 DEF Ids, NoDuplicate
<1> QED
  BY <1>1, <1>2

\* The ids of a list with one more event at its front.
LEMMA IdsPush ==
  ASSUME NEW s \in Seq(ItemType), NEW x \in ItemType
  PROVE  /\ <<x>> \o s \in Seq(ItemType) /\ Ids(<<x>> \o s) = {x.id} \cup Ids(s)
         /\ NoDuplicate(<<x>> \o s) <=> NoDuplicate(s) /\ (x.id = 0 \/ x.id \notin Ids(s))
<1> DEFINE h == <<x>>
<1>1. h \in Seq(ItemType) /\ Ids(h) = {x.id} /\ NoDuplicate(h)
  BY IdsShort
<1> HIDE DEF h
<1>2. /\ h \o s \in Seq(ItemType) /\ Ids(h \o s) = {x.id} \cup Ids(s)
      /\ NoDuplicate(h \o s) <=> NoDuplicate(s) /\ ({x.id} \ {0}) \cap (Ids(s) \ {0}) = {}
  BY <1>1, IdsConcat DEF Hardware
<1> QED
  BY <1>2 DEF h

\* The head and the tail.
LEMMA IdsHeadTail ==
  ASSUME NEW s \in Seq(ItemType), s # << >>
  PROVE  /\ s = <<Head(s)>> \o Tail(s) /\ Head(s) \in ItemType /\ Tail(s) \in Seq(ItemType)
         /\ Ids(s) = {Head(s).id} \cup Ids(Tail(s))
         /\ NoDuplicate(s) <=> NoDuplicate(Tail(s)) /\ (Head(s).id = 0 \/ Head(s).id \notin Ids(Tail(s)))
<1>1. Head(s) \in ItemType /\ Tail(s) \in Seq(ItemType)
  BY HeadTailProperties
<1>2. s = <<Head(s)>> \o Tail(s)
  <2>1. Len(s) \in Nat \ {0} /\ Head(s) = s[1]
    BY EmptySeq
  <2>2. SubSeq(s, 1, Len(s)) = <<s[1]>> \o SubSeq(s, 1 + 1, Len(s))
    <3>1. 1 \in 1..Len(s) /\ Len(s) \in 1..Len(s)
      BY <2>1
    <3> QED BY <3>1, SubSeqRecursiveFirst
  <2>3. 1 + 1 = 2
    OBVIOUS
  <2> QED BY <2>1, <2>2, <2>3, SubSeqFull, TailIsSubSeq
<1> DEFINE x == Head(s)
           t == Tail(s)
<1>3. x \in ItemType /\ t \in Seq(ItemType) /\ s = <<x>> \o t
  BY <1>1, <1>2
<1> HIDE DEF x, t
<1>4. /\ Ids(s) = {x.id} \cup Ids(t)
      /\ NoDuplicate(s) <=> NoDuplicate(t) /\ (x.id = 0 \/ x.id \notin Ids(t))
  BY <1>3, IdsPush
<1> QED
  BY <1>1, <1>2, <1>4 DEF x, t

\* An event put in anywhere, or behind the last one.
LEMMA IdsInsert ==
  ASSUME NEW s \in Seq(ItemType), NEW x \in ItemType, NEW i \in 1..Len(s)+1
  PROVE  /\ InsertAt(s, i, x) \in Seq(ItemType) /\ Ids(InsertAt(s, i, x)) = Ids(s) \cup {x.id}
         /\ NoDuplicate(InsertAt(s, i, x)) <=> NoDuplicate(s) /\ (x.id = 0 \/ x.id \notin Ids(s))
<1> DEFINE p == SubSeq(s, 1, i - 1)
           r == SubSeq(s, i, Len(s))
           h == <<x>>
<1>1. Len(s) \in Nat /\ i \in Nat /\ \A j \in 1..Len(s) : s[j] \in ItemType
  BY LenProperties, ElementOfSeq
<1>2. p \in Seq(ItemType) /\ r \in Seq(ItemType)
  BY <1>1, SubSeqProperties
<1>3. s = p \o r
  <2> DEFINE j == i - 1
  <2>1. j \in Nat /\ j + 1 = i /\ 1 \in 1..Len(s)+1 /\ j \in (1-1)..Len(s) /\ Len(s) \in j..Len(s)
    BY <1>1
  <2> HIDE DEF j
  <2>2. SubSeq(s, 1, j) \o SubSeq(s, j+1, Len(s)) = SubSeq(s, 1, Len(s))
    BY <2>1, ConcatAdjacentSubSeq
  <2> QED BY <2>1, <2>2, SubSeqFull DEF j
<1>4. h \in Seq(ItemType) /\ Ids(h) = {x.id} /\ NoDuplicate(h)
  BY IdsShort
<1>5. InsertAt(s, i, x) = (p \o h) \o r
  BY DEF InsertAt
<1> DEFINE t == p \o h
<1> HIDE DEF p, h, r
<1>6. /\ t \in Seq(ItemType) /\ Ids(t) = Ids(p) \cup {x.id}
      /\ NoDuplicate(t) <=> NoDuplicate(p) /\ (Ids(p) \ {0}) \cap ({x.id} \ {0}) = {}
  BY <1>2, <1>4, IdsConcat DEF Hardware
<1>7. InsertAt(s, i, x) = t \o r
  BY <1>5
<1> HIDE DEF t
<1>8. /\ t \o r \in Seq(ItemType) /\ Ids(t \o r) = Ids(t) \cup Ids(r)
      /\ NoDuplicate(t \o r) <=> NoDuplicate(t) /\ NoDuplicate(r) /\ (Ids(t) \ {0}) \cap (Ids(r) \ {0}) = {}
  BY <1>2, <1>6, IdsConcat DEF Hardware
<1>9. /\ Ids(s) = Ids(p) \cup Ids(r)
      /\ NoDuplicate(s) <=> NoDuplicate(p) /\ NoDuplicate(r) /\ (Ids(p) \ {0}) \cap (Ids(r) \ {0}) = {}
  BY <1>2, <1>3, IdsConcat DEF Hardware
<1>10. InsertAt(s, i, x) \in Seq(ItemType) /\ Ids(InsertAt(s, i, x)) = Ids(s) \cup {x.id}
  BY <1>6, <1>7, <1>8, <1>9
<1>11. NoDuplicate(t \o r) <=> NoDuplicate(s) /\ (x.id = 0 \/ x.id \notin Ids(s))
  BY <1>6, <1>8, <1>9
<1> QED
  BY <1>7, <1>10, <1>11

\* An event put in behind the last one.
LEMMA IdsAppend ==
  ASSUME NEW s \in Seq(ItemType), NEW x \in ItemType
  PROVE  /\ Append(s, x) \in Seq(ItemType) /\ Ids(Append(s, x)) = Ids(s) \cup {x.id}
         /\ NoDuplicate(Append(s, x)) <=> NoDuplicate(s) /\ (x.id = 0 \/ x.id \notin Ids(s))
<1> DEFINE h == <<x>>
<1>1. h \in Seq(ItemType) /\ Ids(h) = {x.id} /\ NoDuplicate(h)
  BY IdsShort
<1>2. Append(s, x) = s \o h
  BY AppendIsConcat
<1> HIDE DEF h
<1>3. /\ s \o h \in Seq(ItemType) /\ Ids(s \o h) = Ids(s) \cup {x.id}
      /\ NoDuplicate(s \o h) <=> NoDuplicate(s) /\ (Ids(s) \ {0}) \cap ({x.id} \ {0}) = {}
  BY <1>1, IdsConcat DEF Hardware
<1> QED
  BY <1>2, <1>3

\* An event taken out.
LEMMA IdsRemove ==
  ASSUME NEW s \in Seq(ItemType), NEW i \in DOMAIN s
  PROVE  /\ RemoveAt(s, i) \in Seq(ItemType) /\ Ids(s) = Ids(RemoveAt(s, i)) \cup {s[i].id}
         /\ NoDuplicate(s) <=> /\ NoDuplicate(RemoveAt(s, i))
                               /\ s[i].id = 0 \/ s[i].id \notin Ids(RemoveAt(s, i))
<1>1. PICK p, r \in Seq(ItemType) : /\ s = p \o (<<s[i]>> \o r) /\ RemoveAt(s, i) = p \o r
                                    /\ s[i] \in ItemType /\ Len(p) = i - 1
  BY Cut
<1> DEFINE x == s[i]
           t == <<x>> \o r
<1>2. x \in ItemType /\ s = p \o t
  BY <1>1
<1> HIDE DEF x
<1>3. /\ t \in Seq(ItemType) /\ Ids(t) = {x.id} \cup Ids(r)
      /\ NoDuplicate(t) <=> NoDuplicate(r) /\ (x.id = 0 \/ x.id \notin Ids(r))
  BY <1>1, <1>2, IdsPush
<1> HIDE DEF t
<1>4. /\ Ids(s) = Ids(p) \cup Ids(t)
      /\ NoDuplicate(s) <=> NoDuplicate(p) /\ NoDuplicate(t) /\ (Ids(p) \ {0}) \cap (Ids(t) \ {0}) = {}
  BY <1>1, <1>2, <1>3, IdsConcat DEF Hardware
<1>5. /\ RemoveAt(s, i) \in Seq(ItemType) /\ Ids(RemoveAt(s, i)) = Ids(p) \cup Ids(r)
      /\ NoDuplicate(RemoveAt(s, i))
           <=> NoDuplicate(p) /\ NoDuplicate(r) /\ (Ids(p) \ {0}) \cap (Ids(r) \ {0}) = {}
  BY <1>1, IdsConcat DEF Hardware
<1>6. Ids(s) = Ids(RemoveAt(s, i)) \cup {x.id}
  BY <1>3, <1>4, <1>5
<1>7. NoDuplicate(s) <=> NoDuplicate(RemoveAt(s, i)) /\ (x.id = 0 \/ x.id \notin Ids(RemoveAt(s, i)))
  BY <1>3, <1>4, <1>5
<1> QED
  BY <1>5, <1>6, <1>7 DEF x

\* endBlocking keeps the names of the events it marks.
LEMMA IdsReplayed ==
  ASSUME NEW s \in Seq(ItemType)
  PROVE  /\ Replayed(s) \in Seq(ItemType) /\ Ids(Replayed(s)) = Ids(s)
         /\ NoDuplicate(Replayed(s)) <=> NoDuplicate(s)
<1>1. DOMAIN Replayed(s) = DOMAIN s
  BY DEF Replayed
<1>2. \A i \in DOMAIN s : Replayed(s)[i].id = s[i].id
  <2>1. \A i \in DOMAIN s : s[i] \in ItemType
    BY ElementOfSeq, LenProperties
  <2>2. \A i \in DOMAIN s : Replayed(s)[i] = [s[i] EXCEPT !.replay = TRUE]
    BY DEF Replayed
  <2> QED BY <2>1, <2>2 DEF ItemType
<1>3. Replayed(s) \in Seq(ItemType)
  BY ReplayedType
<1> QED
  BY <1>1, <1>2, <1>3 DEF Ids, NoDuplicate

-----------------------------------------------------------------------------
(* The moves *)

\* A new event is queued.
LEMMA AccountsPush ==
  ASSUME NEW f \in Seq(ItemType), NEW b \in Seq(ItemType), NEW q \in Seq(ItemType), NEW R \in SUBSET Nat,
         NEW n \in Nat, Accounts(f, b, q, R, n), NEW x \in ItemType, x.id = n + 1
  PROVE  Accounts(f, b, Append(q, x), R, n + 1)
<1> DEFINE k == n + 1
           a == Append(q, x)
<1>1. k \in Nat /\ k # 0 /\ k \notin 1..n /\ 1..k = 1..n \cup {k} /\ x.id = k
  OBVIOUS
<1>2. /\ Ids(a) = Ids(q) \cup {x.id}
      /\ NoDuplicate(a) <=> NoDuplicate(q) /\ (x.id = 0 \/ x.id \notin Ids(q))
  BY IdsAppend
<1> HIDE DEF k, a
<1>3. k \notin Hardware(f) \cup Hardware(b) \cup Hardware(q) \cup R
  BY <1>1 DEF Accounts
<1>4. Hardware(a) = Hardware(q) \cup {k} /\ NoDuplicate(a)
  BY <1>1, <1>2, <1>3 DEF Hardware, Accounts
<1>5. Accounts(f, b, a, R, k)
  BY <1>1, <1>3, <1>4 DEF Accounts
<1> QED
  BY <1>5 DEF a, k

\* Events are taken out of the queue.
LEMMA AccountsTake ==
  ASSUME NEW f, NEW b, NEW q, NEW R, NEW n, Accounts(f, b, q, R, n),
         NEW t, NoDuplicate(t), NEW M, Hardware(t) \cap M = {}, Hardware(t) \cup (M \ {0}) = Hardware(q)
  PROVE  Accounts(f, b, t, R \cup M, n)
<1>1. 0 \notin Hardware(f) /\ 0 \notin Hardware(b) /\ 0 \notin Hardware(t) /\ 0 \notin Hardware(q)
  BY DEF Hardware
<1>2. /\ Hardware(f) \cap M = {} /\ Hardware(b) \cap M = {}
      /\ Hardware(f) \cap Hardware(t) = {} /\ Hardware(b) \cap Hardware(t) = {}
      /\ Hardware(t) \cap R = {}
  BY <1>1 DEF Accounts
<1>3. (Hardware(f) \cup Hardware(b) \cup Hardware(q) \cup R) \ {0}
        = (Hardware(f) \cup Hardware(b) \cup Hardware(t) \cup (R \cup M)) \ {0}
  BY <1>1
<1> QED
  BY <1>2, <1>3 DEF Accounts

\* The front event is fired.
LEMMA AccountsFire ==
  ASSUME NEW f \in Seq(ItemType), NEW b, NEW q \in Seq(ItemType), q # << >>, NEW R, NEW n,
         Accounts(f, b, q, R, n)
  PROVE  Accounts(Append(f, Head(q)), b, Tail(q), R, n)
<1> DEFINE x == Head(q)
           t == Tail(q)
           g == Append(f, x)
<1>1. /\ x \in ItemType /\ t \in Seq(ItemType) /\ Ids(q) = {x.id} \cup Ids(t)
      /\ NoDuplicate(q) <=> NoDuplicate(t) /\ (x.id = 0 \/ x.id \notin Ids(t))
  BY IdsHeadTail
<1> HIDE DEF x, t
<1>2. /\ Ids(g) = Ids(f) \cup {x.id}
      /\ NoDuplicate(g) <=> NoDuplicate(f) /\ (x.id = 0 \/ x.id \notin Ids(f))
  BY <1>1, IdsAppend
<1> HIDE DEF g
<1>3. NoDuplicate(g) /\ NoDuplicate(t)
  BY <1>1, <1>2 DEF Accounts, Hardware
<1>4. /\ Hardware(g) = Hardware(f) \cup ({x.id} \ {0}) /\ Hardware(q) = ({x.id} \ {0}) \cup Hardware(t)
      /\ ({x.id} \ {0}) \cap Hardware(t) = {}
  BY <1>1, <1>2 DEF Accounts, Hardware
<1> DEFINE X == {x.id} \ {0}
<1>5. Hardware(g) = Hardware(f) \cup X /\ Hardware(q) = X \cup Hardware(t) /\ X \cap Hardware(t) = {}
  BY <1>4
<1> HIDE DEF X
<1> QED
  BY <1>3, <1>5 DEF Accounts, g, x, t

\* The front event is put among the blocked events.
LEMMA AccountsBlock ==
  ASSUME NEW f, NEW b \in Seq(ItemType), NEW q \in Seq(ItemType), q # << >>, NEW R, NEW n,
         Accounts(f, b, q, R, n), NEW c, Ids(c) = Ids(b) \cup {Head(q).id},
         NoDuplicate(c) <=> NoDuplicate(b) /\ (Head(q).id = 0 \/ Head(q).id \notin Ids(b))
  PROVE  Accounts(f, c, Tail(q), R, n)
<1> DEFINE x == Head(q)
           t == Tail(q)
<1>1. /\ x \in ItemType /\ t \in Seq(ItemType) /\ Ids(q) = {x.id} \cup Ids(t)
      /\ NoDuplicate(q) <=> NoDuplicate(t) /\ (x.id = 0 \/ x.id \notin Ids(t))
  BY IdsHeadTail
<1>2. /\ Ids(c) = Ids(b) \cup {x.id}
      /\ NoDuplicate(c) <=> NoDuplicate(b) /\ (x.id = 0 \/ x.id \notin Ids(b))
  OBVIOUS
<1> HIDE DEF x, t
<1>3. NoDuplicate(c) /\ NoDuplicate(t)
  BY <1>1, <1>2 DEF Accounts, Hardware
<1>4. /\ Hardware(c) = Hardware(b) \cup ({x.id} \ {0}) /\ Hardware(q) = ({x.id} \ {0}) \cup Hardware(t)
      /\ ({x.id} \ {0}) \cap Hardware(t) = {}
  BY <1>1, <1>2 DEF Accounts, Hardware
<1> DEFINE X == {x.id} \ {0}
<1>5. Hardware(c) = Hardware(b) \cup X /\ Hardware(q) = X \cup Hardware(t) /\ X \cap Hardware(t) = {}
  BY <1>4
<1> HIDE DEF X
<1> QED
  BY <1>3, <1>5 DEF Accounts, x, t

\* The blocked events go back to the front of the queue.
LEMMA AccountsReplay ==
  ASSUME NEW f, NEW b \in Seq(ItemType), NEW q \in Seq(ItemType), NEW R, NEW n, Accounts(f, b, q, R, n)
  PROVE  /\ Replayed(b) \o q \in Seq(ItemType)
         /\ Accounts(f, << >>, Replayed(b) \o q, R, n)
<1> DEFINE p == Replayed(b)
           t == p \o q
<1>1. /\ p \in Seq(ItemType) /\ Ids(p) = Ids(b)
      /\ NoDuplicate(p) <=> NoDuplicate(b)
  BY IdsReplayed
<1> HIDE DEF p
<1>2. /\ t \in Seq(ItemType) /\ Ids(t) = Ids(p) \cup Ids(q)
      /\ NoDuplicate(t) <=> NoDuplicate(p) /\ NoDuplicate(q) /\ Hardware(p) \cap Hardware(q) = {}
  BY <1>1, IdsConcat
<1> HIDE DEF t
<1>3. Hardware(t) = Hardware(b) \cup Hardware(q) /\ Hardware(p) = Hardware(b) /\ NoDuplicate(t)
  BY <1>1, <1>2 DEF Hardware, Accounts
<1>4. Hardware(<< >>) = {} /\ NoDuplicate(<< >>)
  BY IdsShort DEF Hardware
<1>5. Accounts(f, << >>, t, R, n)
  BY <1>3, <1>4 DEF Accounts
<1> QED
  BY <1>2, <1>5 DEF t, p

-----------------------------------------------------------------------------
(* What SimultaneousKeyPresses and the bouncing filter take out *)

\* t is q without the events M, and names every other event of q once.
Takes(q, t, M) ==
    /\ t \in Seq(ItemType) /\ NoDuplicate(t)
    /\ Hardware(t) \cap M = {}
    /\ Hardware(t) \cup (M \ {0}) = Hardware(q)

\* A pair of events.
LEMMA IdsPair ==
  ASSUME NEW x \in ItemType, NEW y \in ItemType
  PROVE  /\ <<x, y>> \in Seq(ItemType) /\ Ids(<<x, y>>) = {x.id, y.id}
         /\ (x.id = 0 \/ x.id # y.id) => NoDuplicate(<<x, y>>)
<1> DEFINE s == <<x, y>>
<1>1. DOMAIN s = {1, 2} /\ s[1] = x /\ s[2] = y /\ s \in Seq(ItemType)
  OBVIOUS
<1> HIDE DEF s
<1>2. x.id \in Nat /\ y.id \in Nat
  BY DEF ItemType
<1> QED
  BY <1>1, <1>2 DEF Ids, NoDuplicate, s

\* Taking out an event leaves the ones before it where they are.
LEMMA RemoveAtBefore ==
  ASSUME NEW S, NEW s \in Seq(S), NEW j \in DOMAIN s, NEW i \in DOMAIN s, i < j
  PROVE  i \in DOMAIN RemoveAt(s, j) /\ RemoveAt(s, j)[i] = s[i]
<1>1. PICK p, r \in Seq(S) : /\ s = p \o (<<s[j]>> \o r) /\ RemoveAt(s, j) = p \o r
                             /\ s[j] \in S /\ Len(p) = j - 1
  BY Cut
<1>2. <<s[j]>> \in Seq(S)
  BY <1>1
<1> DEFINE h == <<s[j]>>
           t == h \o r
           m == Len(p)
<1>3. h \in Seq(S) /\ s = p \o t
  BY <1>1, <1>2
<1> HIDE DEF h
<1>4. t \in Seq(S)
  BY <1>3, ConcatProperties
<1> HIDE DEF t
<1>5. m \in Nat /\ i \in 1..m
  BY <1>1, LenProperties
<1> HIDE DEF m
<1>6. \A u \in Seq(S) : i \in DOMAIN (p \o u) /\ (p \o u)[i] = p[i]
  <2> SUFFICES ASSUME NEW u \in Seq(S) PROVE i \in DOMAIN (p \o u) /\ (p \o u)[i] = p[i]
    OBVIOUS
  <2> DEFINE v == p \o u
             n == Len(u)
  <2>1. /\ v \in Seq(S) /\ Len(v) = m + n /\ n \in Nat
        /\ \A k \in 1..(m + n) : v[k] = IF k <= m THEN p[k] ELSE u[k - m]
    BY ConcatProperties, LenProperties DEF m
  <2>2. DOMAIN v = 1..(m + n)
    BY <2>1, LenProperties
  <2> HIDE DEF v, n
  <2>3. i \in 1..(m + n) /\ i <= m
    BY <1>5, <2>1
  <2> QED BY <2>1, <2>2, <2>3 DEF v
<1> QED
  BY <1>1, <1>3, <1>4, <1>6

\* Taking out two events, the later one first.
LEMMA TakesTwo ==
  ASSUME NEW q \in Seq(ItemType), NoDuplicate(q), NEW i \in DOMAIN q, NEW j \in DOMAIN q, i < j
  PROVE  /\ Takes(q, RemoveAt(RemoveAt(q, j), i), {q[i].id, q[j].id})
         /\ q[i].id = 0 \/ q[i].id # q[j].id
<1> DEFINE o == RemoveAt(q, j)
           t == RemoveAt(o, i)
           x == q[i].id
           y == q[j].id
<1>1. /\ o \in Seq(ItemType) /\ Ids(q) = Ids(o) \cup {y}
      /\ NoDuplicate(o) /\ (y = 0 \/ y \notin Ids(o))
  BY IdsRemove
<1>2. i \in DOMAIN o /\ o[i].id = x
  BY RemoveAtBefore
<1> HIDE DEF o
<1>3. /\ t \in Seq(ItemType) /\ Ids(o) = Ids(t) \cup {x}
      /\ NoDuplicate(t) /\ (x = 0 \/ x \notin Ids(t))
  BY <1>1, <1>2, IdsRemove
<1> HIDE DEF t, x, y
<1>4. Takes(q, t, {x, y}) /\ (x = 0 \/ x # y)
  BY <1>1, <1>3 DEF Takes, Hardware
<1> QED
  BY <1>4 DEF t, o, x, y

\* push_remapped: the virtual key's event is none of the hardware.
LEMMA TakesPushRemapped ==
  ASSUME NEW q, NEW t, NEW M, Takes(q, t, M),
         NEW item \in SimultaneousItem, NEW down \in BOOLEAN, NEW ptr \in PtrType
  PROVE  Takes(q, PushRemapped(item, t, down, ptr), M)
<1>1. CASE item.vk = VK_NONE
  BY <1>1 DEF PushRemapped
<1>2. CASE item.vk # VK_NONE
  <2> DEFINE x == RawItem(0, item.vk, down, ptr)
             u == <<x>> \o t
  <2>1. x \in ItemType /\ x.id = 0
    BY <1>2, ItemFacts DEF SimultaneousItem, RawItem
  <2> HIDE DEF x
  <2>2. u \in Seq(ItemType) /\ Ids(u) = {0} \cup Ids(t) /\ NoDuplicate(u)
    BY <2>1, IdsPush DEF Takes
  <2>3. PushRemapped(item, t, down, ptr) = u
    BY <1>2 DEF PushRemapped, x
  <2> HIDE DEF u
  <2> QED BY <2>2, <2>3 DEF Takes, Hardware
<1> QED
  BY <1>1, <1>2

\* Both keys are down: their events leave, or with raw come back behind the virtual key.
LEMMA ApplyDownTakes ==
  ASSUME NEW r \in DOMAIN Items, NEW item \in SimultaneousItem, NEW q \in Seq(ItemType), q # << >>,
         NoDuplicate(q), AllKeysDown(item, q), item.key1 # item.key2, NEW active, NEW live, NEW serial
  PROVE  LET res == ApplyDown(r, item, q, active, live, serial) IN Takes(q, res.queue, res.removed)
<1> DEFINE p1 == DownKey(item, q, item.key1)
           p2 == DownKey(item, q, item.key2)
           rest == IF p1 < p2 THEN RemoveAt(RemoveAt(q, p2), p1) ELSE RemoveAt(RemoveAt(q, p1), p2)
           ptr == DevicePtr(q[1])
           x == RawItem(q[p1].id, item.key1, TRUE, ptr)
           y == RawItem(q[p2].id, item.key2, TRUE, ptr)
           raws == IF item.raw THEN <<x, y>> ELSE << >>
           rem == IF item.raw THEN {} ELSE {q[p1].id, q[p2].id}
           res == ApplyDown(r, item, q, active, live, serial)
<1>1. Len(q) \in Nat /\ DOMAIN q = 1..Len(q) /\ (\A j \in 1..Len(q) : q[j] \in ItemType) /\ 1 \in 1..Len(q)
  BY LenProperties, ElementOfSeq, EmptySeq
<1>2. p1 \in DOMAIN q /\ p2 \in DOMAIN q /\ p1 # p2
  BY DownKeyFound
<1>3. res.queue = PushRemapped(item, raws \o rest, TRUE, ptr) /\ res.removed = rem
  BY DEF ApplyDown
<1> HIDE DEF res, p1, p2
<1>4. Takes(q, rest, {q[p1].id, q[p2].id}) /\ (q[p1].id = 0 \/ q[p1].id # q[p2].id)
  <2>1. CASE p1 < p2
    BY <1>2, <2>1, TakesTwo
  <2>2. CASE p2 < p1 /\ ~(p1 < p2)
    <3>1. /\ Takes(q, RemoveAt(RemoveAt(q, p1), p2), {q[p2].id, q[p1].id})
          /\ q[p2].id = 0 \/ q[p2].id # q[p1].id
      BY <1>2, <2>2, TakesTwo
    <3>2. {q[p2].id, q[p1].id} = {q[p1].id, q[p2].id}
      OBVIOUS
    <3> QED BY <2>2, <3>1, <3>2
  <2> QED BY <1>1, <1>2, <2>1, <2>2
<1>5. /\ ptr \in PtrType /\ q[p1].id \in Nat /\ q[p2].id \in Nat
      /\ item.key1 \in DownUps /\ item.key2 \in DownUps
  <2>1. q[1] \in ItemType /\ q[p1] \in ItemType /\ q[p2] \in ItemType
    BY <1>1, <1>2
  <2> QED BY <2>1, ItemFacts DEF ItemType, SimultaneousItem
<1> HIDE DEF rest, ptr
<1>6. x \in ItemType /\ y \in ItemType /\ x.id = q[p1].id /\ y.id = q[p2].id
  <2>1. x \in ItemType /\ y \in ItemType
    BY <1>5, ItemFacts
  <2> QED BY <2>1 DEF RawItem
<1> HIDE DEF x, y
<1>7. Takes(q, raws \o rest, rem)
  <2>1. CASE ~item.raw
    <3>1. << >> \o rest = rest
      BY <1>4, ConcatEmptySeq DEF Takes
    <3> QED BY <1>4, <2>1, <3>1
  <2>2. CASE item.raw
    <3> DEFINE z == <<x, y>>
    <3>1. z \in Seq(ItemType) /\ Ids(z) = {x.id, y.id} /\ NoDuplicate(z)
      BY <1>4, <1>6, IdsPair
    <3> HIDE DEF z
    <3>2. rest \in Seq(ItemType) /\ NoDuplicate(rest)
      BY <1>4 DEF Takes
    <3>3. /\ z \o rest \in Seq(ItemType) /\ Ids(z \o rest) = Ids(z) \cup Ids(rest)
          /\ NoDuplicate(z \o rest) <=> /\ NoDuplicate(z) /\ NoDuplicate(rest)
                                        /\ Hardware(z) \cap Hardware(rest) = {}
      BY <3>1, <3>2, IdsConcat
    <3>4. Takes(q, z \o rest, {})
      BY <1>4, <1>6, <3>1, <3>2, <3>3 DEF Takes, Hardware
    <3> QED BY <2>2, <3>4 DEF z
  <2> QED BY <2>1, <2>2
<1> HIDE DEF raws, rem
<1>8. Takes(q, PushRemapped(item, raws \o rest, TRUE, ptr), rem)
  BY <1>5, <1>7, TakesPushRemapped
<1> QED
  BY <1>3, <1>8 DEF res

\* A release of an active item's key leaves, or with raw stays as a non-target.
LEMMA ApplyUpTakes ==
  ASSUME NEW r \in DOMAIN Items, NEW item \in SimultaneousItem, NEW q \in Seq(ItemType), q # << >>,
         NoDuplicate(q), NEW active \in SUBSET ActiveType, Find(r, active, q[1]) # {}, NEW live
  PROVE  LET res == ApplyUp(r, item, q, active, live) IN Takes(q, res.queue, res.removed)
<1> DEFINE e == FindFirst(r, active, q[1])
           left == {o \in active : o.device \in live} \ {e}
           rest == IF item.raw THEN [q EXCEPT ![1].target = FALSE] ELSE Tail(q)
           done == ~\E o \in left : o.item = r /\ o.serial = e.serial
           rem  == IF item.raw THEN {} ELSE {q[1].id}
           res  == ApplyUp(r, item, q, active, live)
<1>1. Len(q) \in Nat /\ DOMAIN q = 1..Len(q) /\ 1 \in 1..Len(q) /\ q[1] \in ItemType
  BY LenProperties, ElementOfSeq, EmptySeq
<1>2. /\ res.queue = IF done THEN PushRemapped(item, rest, FALSE, e.front) ELSE rest
      /\ res.removed = rem
  BY DEF ApplyUp
<1>3. e.front \in PtrType
  BY FindFirstActive DEF ActiveType
<1> HIDE DEF res, done, e
<1>4. Takes(q, rest, rem)
  <2>1. CASE ~item.raw
    <3> DEFINE t == Tail(q)
    <3>1. /\ t \in Seq(ItemType) /\ Ids(q) = {Head(q).id} \cup Ids(t)
          /\ NoDuplicate(t) /\ (Head(q).id = 0 \/ Head(q).id \notin Ids(t))
      BY IdsHeadTail
    <3>2. Head(q) = q[1]
      BY <1>1, EmptySeq
    <3> HIDE DEF t
    <3>3. Takes(q, t, {q[1].id})
      BY <3>1, <3>2 DEF Takes, Hardware
    <3> QED BY <2>1, <3>3 DEF t
  <2>2. CASE item.raw
    <3> DEFINE x == [q[1] EXCEPT !.target = FALSE]
               u == [q EXCEPT ![1] = x]
    <3>1. x \in ItemType /\ x.id = q[1].id
      BY <1>1 DEF ItemType
    <3> HIDE DEF x
    <3>2. u \in Seq(ItemType)
      BY <1>1, <3>1, ExceptSeq
    <3>3. DOMAIN u = DOMAIN q /\ \A i \in DOMAIN q : u[i].id = q[i].id
      BY <3>1
    <3>4. rest = u
      BY <2>2 DEF x
    <3> HIDE DEF u
    <3>5. Ids(u) = Ids(q) /\ NoDuplicate(u)
      BY <3>3 DEF Ids, NoDuplicate
    <3>6. Takes(q, u, {})
      BY <3>2, <3>5 DEF Takes, Hardware
    <3> QED BY <2>2, <3>4, <3>6
  <2> QED BY <2>1, <2>2
<1> HIDE DEF rest, rem
<1>5. Takes(q, PushRemapped(item, rest, FALSE, e.front), rem)
  BY <1>3, <1>4, TakesPushRemapped
<1> QED
  BY <1>2, <1>4, <1>5 DEF res

\* Whatever an item does to the queue, what it does not put down as removed is still there, once.
LEMMA RemapTakes ==
  ASSUME NEW r \in DOMAIN Items, NEW item \in SimultaneousItem, item.key1 # item.key2,
         NEW q \in Seq(ItemType), NoDuplicate(q), NEW active \in SUBSET ActiveType, NEW live, NEW serial
  PROVE  LET res == RemapSimultaneousKeyPresses(r, item, q, active, live, serial)
         IN  Takes(q, res.queue, res.removed)
<1> DEFINE up == q # << >> /\ q[1].target /\ ~q[1].down /\ q[1].key \in {item.key1, item.key2}
                   /\ Find(r, active, q[1]) # {}
           down == q # << >> /\ AllKeysDown(item, q)
           res == RemapSimultaneousKeyPresses(r, item, q, active, live, serial)
<1>1. CASE up
  <2>1. res = ApplyUp(r, item, q, active, live)
    BY <1>1, Zenon DEF RemapSimultaneousKeyPresses
  <2> HIDE DEF res
  <2> QED
    BY <1>1, <2>1, ApplyUpTakes DEF res
<1>2. CASE ~up /\ down
  <2>1. res = ApplyDown(r, item, q, active, live, serial)
    BY <1>2, Zenon DEF RemapSimultaneousKeyPresses
  <2> HIDE DEF res
  <2> QED
    BY <1>2, <2>1, ApplyDownTakes DEF res
<1>3. CASE ~up /\ ~down
  <2>1. res = [result |-> "NOT_CHANGED", queue |-> q, active |-> active, removed |-> {}]
    BY <1>3, Zenon DEF RemapSimultaneousKeyPresses
  <2> HIDE DEF res
  <2>2. Takes(q, q, {})
    BY DEF Takes, Hardware
  <2> QED
    BY <2>1, <2>2 DEF res
<1> QED
  BY <1>1, <1>2, <1>3

-----------------------------------------------------------------------------
(* Every step is a move *)

\* Conservation of the three lists one by one.
LEMMA AccountsConservation ==
  ASSUME fired \in Seq(ItemType), blockedQueue_ \in Seq(ItemType), queue_ \in Seq(ItemType)
  PROVE  Conservation <=> Accounts(fired, blockedQueue_, queue_, removed, lastId)
<1>1. /\ Ids(Pipeline) = Ids(blockedQueue_) \cup Ids(queue_)
      /\ NoDuplicate(Pipeline) <=> /\ NoDuplicate(blockedQueue_) /\ NoDuplicate(queue_)
                                   /\ Hardware(blockedQueue_) \cap Hardware(queue_) = {}
  BY IdsConcat DEF Pipeline
<1>2. /\ Ids(Pipeline) \cap Ids(fired) \subseteq {0}
           <=> /\ Hardware(fired) \cap Hardware(blockedQueue_) = {}
               /\ Hardware(fired) \cap Hardware(queue_) = {}
      /\ (Ids(Pipeline) \cup Ids(fired)) \cap removed \subseteq {0}
           <=> (Hardware(fired) \cup Hardware(blockedQueue_) \cup Hardware(queue_)) \cap removed = {}
  BY <1>1 DEF Hardware
<1>3. (Ids(Pipeline) \cup Ids(fired) \cup removed) \ {0}
        = (Hardware(fired) \cup Hardware(blockedQueue_) \cup Hardware(queue_) \cup removed) \ {0}
  BY <1>1 DEF Hardware
<1> QED
  BY <1>1, <1>2, <1>3 DEF Conservation, Accounts

\* What the steps are about.
Accounted == Accounts(fired, blockedQueue_, queue_, removed, lastId)

\* An event of the hardware is appended to the queue.
LEMMA AccountedPush ==
  ASSUME TypeOK, Accounted, NEW since \in Nat, NEW d \in Devices, NEW k \in DownUps \cup {Motion},
         NEW down \in BOOLEAN, queue_' = Append(queue_, NewItem(lastId + 1, since, d, k, down)),
         Advance(lastId + 1, since, k), UNCHANGED <<fired, blockedQueue_, removed>>
  PROVE  Accounted'
<1> DEFINE x == NewItem(lastId + 1, since, d, k, down)
<1>1. lastId \in Nat /\ gen[d] \in Nat
  BY DEF TypeOK, ClockTypeOK, DeviceTypeOK
<1>2. x \in ItemType /\ x.id = lastId + 1
  BY <1>1 DEF NewItem, ItemType
<1>3. queue_' = Append(queue_, x) /\ lastId' = lastId + 1
  BY DEF Advance
<1> HIDE DEF x
<1>4. Accounts(fired, blockedQueue_, Append(queue_, x), removed, lastId + 1)
  BY <1>1, <1>2, AccountsPush DEF TypeOK, OutTypeOK, BlockTypeOK, QueueTypeOK, Accounted
<1> QED
  BY <1>3, <1>4 DEF Accounted

\* doFire on a queue that accounts for every event.
LEMMA AccountedFire ==
  ASSUME TypeOK, NEW q \in Seq(ItemType), q # << >>, DoFire(q), UNCHANGED <<removed, lastId>>,
         Accounts(fired, blockedQueue_', q, removed, lastId)
  PROVE  Accounted'
<1>1. fired \in Seq(ItemType)
  BY DEF TypeOK, OutTypeOK
<1>2. Accounts(Append(fired, Head(q)), blockedQueue_', Tail(q), removed, lastId)
  BY <1>1, AccountsFire
<1>3. queue_' = Tail(q) /\ fired' = Append(fired, Head(q))
  BY Zenon DEF DoFire
<1> QED
  BY <1>2, <1>3 DEF Accounted

\* The front event has moved to the blocked ones, which go back to the front of the queue
\* and start to be fired.
LEMMA AccountedReplay ==
  ASSUME TypeOK, Accounted, queue_ # << >>, NEW c \in Seq(ItemType), c # << >>,
         Ids(c) = Ids(blockedQueue_) \cup {Head(queue_).id},
         NoDuplicate(c) <=> /\ NoDuplicate(blockedQueue_)
                            /\ Head(queue_).id = 0 \/ Head(queue_).id \notin Ids(blockedQueue_),
         DoFire(Replayed(c) \o Tail(queue_)), blockedQueue_' = << >>, UNCHANGED <<removed, lastId>>
  PROVE  Accounted'
<1> DEFINE t == Tail(queue_)
           q == Replayed(c) \o t
<1>1. /\ queue_ \in Seq(ItemType) /\ blockedQueue_ \in Seq(ItemType) /\ t \in Seq(ItemType)
  BY HeadTailProperties DEF TypeOK, QueueTypeOK, BlockTypeOK
<1>2. Accounts(fired, c, t, removed, lastId)
  BY <1>1, AccountsBlock DEF Accounted
<1> HIDE DEF t
<1>3. q \in Seq(ItemType) /\ Accounts(fired, << >>, q, removed, lastId)
  BY <1>1, <1>2, AccountsReplay
<1>4. q # << >>
  <2>1. Replayed(c) \in Seq(ItemType) /\ Len(Replayed(c)) = Len(c) /\ Len(c) \in Nat \ {0}
    BY ReplayedType, EmptySeq, LenProperties
  <2>2. Len(q) = Len(Replayed(c)) + Len(t) /\ Len(t) \in Nat
    BY <1>1, <2>1, ConcatProperties, LenProperties
  <2>3. Len(q) # 0
    BY <2>1, <2>2
  <2> QED BY <1>3, <2>3, EmptySeq
<1>5. DoFire(q)
  BY DEF t
<1> HIDE DEF q
<1> QED
  BY <1>3, <1>4, <1>5, AccountedFire

\* The item a round of the loop asks.
LEMMA ItemOfRound ==
  ASSUME TypeOK, remap_SimultaneousKeyPresses
  PROVE  /\ loop.at \in DOMAIN Items /\ Items[loop.at] \in SimultaneousItem
         /\ Items[loop.at].key1 # Items[loop.at].key2
<1>1. Items \in Seq(SimultaneousItem)
  BY ConstantsAssumption
<1>2. loop.at \in Nat /\ loop.at > 0
  BY DEF remap_SimultaneousKeyPresses, TypeOK, HandlerTypeOK, LoopType
<1>3. loop.at \in DOMAIN Items
  BY <1>1, <1>2, LenProperties DEF remap_SimultaneousKeyPresses
<1> QED
  BY <1>1, <1>3, ElementOfSeq, LenProperties, ConstantsAssumption

\* A step leaves the lists of events and what is put down about them alone.
LEMMA AccountedUnchanged ==
  ASSUME Accounted, UNCHANGED <<fired, blockedQueue_, queue_, removed, lastId>>
  PROVE  Accounted'
BY DEF Accounted

\* The steps of the hardware and of the handlers before the front event is fired.
LEMMA AccountedBefore ==
  ASSUME TypeOK, Accounted,
         \/ HardwareNext \/ PushButton \/ PushMotion \/ RemoveBouncing \/ BouncingDone
         \/ SimultaneousRound \/ remap_SimultaneousKeyPresses \/ SimultaneousDone \/ fire_timer_callback
  PROVE  Accounted'
<1>1. ASSUME NEW d \in Keyboards, NEW k \in Keys, NEW down \in BOOLEAN, NEW repeat \in BOOLEAN,
             push_KeyboardEventCallback(d, k, down, repeat)
      PROVE  Accounted'
  <2>1. d \in Devices /\ k \in DownUps \cup {Motion}
    BY DEF Devices, DownUps
  <2>2. UNCHANGED <<fired, blockedQueue_, removed>>
    BY <1>1 DEF push_KeyboardEventCallback, outVars, blockVars
  <2>3. CASE UNCHANGED <<queue_, clockVars>>
    BY <2>2, <2>3, AccountedUnchanged DEF clockVars
  <2>4. CASE \E since \in Sinces(k, down) : /\ queue_' = Append(queue_, NewItem(lastId + 1, since, d, k, down))
                                            /\ Advance(lastId + 1, since, k)
    BY <2>1, <2>2, <2>4, SincesType, AccountedPush
  <2> QED
    BY <1>1, <2>3, <2>4, Zenon DEF push_KeyboardEventCallback
<1>2. ASSUME NEW d \in Pointings, push_ScrollWheelEventCallback(d)
      PROVE  Accounted'
  <2>1. d \in Devices /\ Motion \in DownUps \cup {Motion} /\ 0 \in Nat /\ FALSE \in BOOLEAN
    BY DEF Devices
  <2>2. UNCHANGED <<fired, blockedQueue_, removed>>
    BY <1>2 DEF push_ScrollWheelEventCallback, outVars, blockVars
  <2>3. /\ queue_' = Append(queue_, NewItem(lastId + 1, 0, d, Motion, FALSE))
        /\ Advance(lastId + 1, 0, Motion)
    BY <1>2 DEF push_ScrollWheelEventCallback
  <2> QED
    BY <2>1, <2>2, <2>3, AccountedPush
<1>3. ASSUME \/ \E d \in Pointings, B \in SUBSET {Buttons[i] : i \in DOMAIN Buttons}, moved \in BOOLEAN :
                   push_RelativePointerEventCallback(d, B, moved)
             \/ \E d \in Devices : Connect(d) \/ Disconnect(d)
             \/ SetConfig \/ BouncingDone \/ SimultaneousRound \/ SimultaneousDone \/ fire_timer_callback
      PROVE  Accounted'
  <2>1. UNCHANGED <<fired, blockedQueue_, queue_, removed, lastId>>
    BY <1>3 DEF push_RelativePointerEventCallback, Connect, Disconnect, SetConfig, BouncingDone, SimultaneousRound,
                SimultaneousDone, fire_timer_callback, outVars, blockVars, clockVars
  <2> QED
    BY <2>1, AccountedUnchanged
<1>4. ASSUME PushButton PROVE Accounted'
  <2> DEFINE btn == Buttons[loop.at]
             pressed == btn \in loop.buttons
  <2>1. loop.dev \in Devices /\ loop.at \in Nat /\ loop.at > 0
    BY <1>4 DEF PushButton, TypeOK, HandlerTypeOK, LoopType
  <2>2. btn \in DownUps \cup {Motion} /\ pressed \in BOOLEAN
    <3>1. Buttons \in Seq({Buttons[i] : i \in DOMAIN Buttons})
      BY ConstantsAssumption
    <3>2. loop.at \in DOMAIN Buttons
      BY <1>4, <2>1, <3>1, LenProperties DEF PushButton
    <3> QED
      BY <3>2 DEF DownUps
  <2>3. UNCHANGED <<fired, blockedQueue_, removed>>
    BY <1>4 DEF PushButton, outVars, blockVars
  <2>4. \/ UNCHANGED <<queue_, clockVars>>
        \/ \E since \in Sinces(btn, pressed) :
              /\ queue_' = Append(queue_, NewItem(lastId + 1, since, loop.dev, btn, pressed))
              /\ Advance(lastId + 1, since, btn)
    BY <1>4, Zenon DEF PushButton
  <2>5. CASE UNCHANGED <<queue_, clockVars>>
    BY <2>3, <2>5, AccountedUnchanged DEF clockVars
  <2> HIDE DEF btn, pressed
  <2>6. CASE \E since \in Sinces(btn, pressed) :
                /\ queue_' = Append(queue_, NewItem(lastId + 1, since, loop.dev, btn, pressed))
                /\ Advance(lastId + 1, since, btn)
    BY <2>1, <2>2, <2>3, <2>6, SincesType, AccountedPush
  <2> QED
    BY <2>4, <2>5, <2>6, Zenon
<1>5. ASSUME PushMotion PROVE Accounted'
  <2>1. loop.dev \in Devices /\ Motion \in DownUps \cup {Motion} /\ 0 \in Nat /\ FALSE \in BOOLEAN
    BY <1>5 DEF PushMotion, TypeOK, HandlerTypeOK, LoopType
  <2>2. UNCHANGED <<fired, blockedQueue_, removed>>
    BY <1>5 DEF PushMotion, outVars, blockVars
  <2>3. CASE UNCHANGED <<queue_, clockVars>>
    BY <2>2, <2>3, AccountedUnchanged DEF clockVars
  <2>4. CASE /\ queue_' = Append(queue_, NewItem(lastId + 1, 0, loop.dev, Motion, FALSE))
             /\ Advance(lastId + 1, 0, Motion)
    BY <2>1, <2>2, <2>4, AccountedPush
  <2> QED
    BY <1>5, <2>3, <2>4, Zenon DEF PushMotion
<1>6. ASSUME RemoveBouncing PROVE Accounted'
  <2>1. PICK p \in BouncingPairs :
           /\ queue_' = RemoveAt(RemoveAt(queue_, p[2]), p[1])
           /\ removed' = removed \cup {queue_[p[1]].id, queue_[p[2]].id}
    BY <1>6 DEF RemoveBouncing
  <2>2. p[1] \in DOMAIN queue_ /\ p[2] \in DOMAIN queue_ /\ p[1] < p[2]
    BY DEF BouncingPairs
  <2>3. UNCHANGED <<fired, blockedQueue_, lastId>>
    BY <1>6 DEF RemoveBouncing, outVars, blockVars, clockVars
  <2>4. queue_ \in Seq(ItemType) /\ NoDuplicate(queue_)
    BY DEF TypeOK, QueueTypeOK, Accounted, Accounts
  <2>5. Takes(queue_, RemoveAt(RemoveAt(queue_, p[2]), p[1]), {queue_[p[1]].id, queue_[p[2]].id})
    BY <2>2, <2>4, TakesTwo
  <2>6. Accounts(fired, blockedQueue_, queue_', removed', lastId)
    BY <2>1, <2>5, AccountsTake DEF Takes, Accounted
  <2> QED
    BY <2>3, <2>6 DEF Accounted
<1>7. ASSUME remap_SimultaneousKeyPresses PROVE Accounted'
  <2> DEFINE r == loop.at
             res == RemapSimultaneousKeyPresses(r, Items[r], queue_, activeFromInfos, Live, serialNumber_)
  <2>1. UNCHANGED <<fired, blockedQueue_, lastId>>
    BY <1>7 DEF remap_SimultaneousKeyPresses, outVars, blockVars, clockVars
  <2>2. \/ queue_' = res.queue /\ removed' = removed \cup res.removed
        \/ UNCHANGED <<queue_, removed>>
    BY <1>7, Zenon DEF remap_SimultaneousKeyPresses
  <2>3. Takes(queue_, res.queue, res.removed)
    BY <1>7, ItemOfRound, RemapTakes DEF TypeOK, QueueTypeOK, SkpTypeOK, Accounted, Accounts
  <2> HIDE DEF res
  <2>4. CASE queue_' = res.queue /\ removed' = removed \cup res.removed
    <3>1. Accounts(fired, blockedQueue_, res.queue, removed \cup res.removed, lastId)
      BY <2>3, AccountsTake DEF Takes, Accounted
    <3> QED
      BY <2>1, <2>4, <3>1 DEF Accounted
  <2>5. CASE UNCHANGED <<queue_, removed>>
    BY <2>1, <2>5, AccountedUnchanged
  <2> QED
    BY <2>2, <2>4, <2>5
<1> QED
  BY <1>1, <1>2, <1>3, <1>4, <1>5, <1>6, <1>7, Zenon DEF HardwareNext

\* Firing, blocking and replaying.
LEMMA AccountedFiring ==
  ASSUME TypeOK, Accounted,
         FirePassing \/ FireUnblocked \/ ReleaseBlockingKey \/ ReleaseTappedKey \/ Block \/ blockingTimeOut_timer_callback
  PROVE  Accounted'
<1>1. fired \in Seq(ItemType) /\ blockedQueue_ \in Seq(ItemType) /\ queue_ \in Seq(ItemType)
  BY DEF TypeOK, OutTypeOK, BlockTypeOK, QueueTypeOK
<1>2. ASSUME FireFront PROVE UNCHANGED <<removed, lastId>> /\ queue_ # << >> /\ FrontItem \in ItemType
  BY <1>2, FireFrontType DEF FireFront, clockVars
<1>3. ASSUME FirePassing PROVE Accounted'
  <2>1. FireFront /\ DoFire(queue_) /\ blockedQueue_' = blockedQueue_
    BY <1>3 DEF FirePassing, blockVars
  <2>2. Accounts(fired, blockedQueue_', queue_, removed, lastId)
    BY <2>1 DEF Accounted
  <2> QED
    BY <1>1, <1>2, <2>1, <2>2, AccountedFire
<1>4. ASSUME FireUnblocked PROVE Accounted'
  <2> DEFINE q == Replayed(blockedQueue_) \o queue_
  <2>1. FireFront /\ DoFire(q) /\ blockedQueue_' = << >>
    BY <1>4 DEF FireUnblocked
  <2>2. q \in Seq(ItemType) /\ Accounts(fired, << >>, q, removed, lastId)
    BY <1>1, AccountsReplay DEF Accounted
  <2>3. q # << >>
    BY <1>1, <1>2, <2>1, ReplayedType, ConcatProperties, LenProperties, EmptySeq
  <2> HIDE DEF q
  <2> QED
    BY <1>2, <2>1, <2>2, <2>3, AccountedFire
<1>5. ASSUME ReleaseBlockingKey PROVE Accounted'
  <2> DEFINE c == InsertAt(blockedQueue_, LastDown(FrontItem.key) + 1, FrontItem)
  <2>1. FireFront /\ DoFire(Replayed(c) \o Tail(queue_)) /\ blockedQueue_' = << >>
    BY <1>5, Zenon DEF ReleaseBlockingKey
  <2>2. LastDown(FrontItem.key) + 1 \in 1..Len(blockedQueue_) + 1
    BY LastDownType
  <2>3. /\ c \in Seq(ItemType) /\ c # << >> /\ Ids(c) = Ids(blockedQueue_) \cup {FrontItem.id}
        /\ NoDuplicate(c) <=> /\ NoDuplicate(blockedQueue_)
                              /\ FrontItem.id = 0 \/ FrontItem.id \notin Ids(blockedQueue_)
    BY <1>1, <1>2, <2>1, <2>2, IdsInsert, InsertAtType
  <2> HIDE DEF c
  <2> QED
    BY <1>2, <2>1, <2>3, AccountedReplay DEF FrontItem
<1>6. ASSUME ReleaseTappedKey PROVE Accounted'
  <2> DEFINE c == Append(blockedQueue_, FrontItem)
  <2>1. FireFront /\ DoFire(Replayed(c) \o Tail(queue_)) /\ blockedQueue_' = << >>
    BY <1>6, Zenon DEF ReleaseTappedKey
  <2>2. /\ c \in Seq(ItemType) /\ c # << >> /\ Ids(c) = Ids(blockedQueue_) \cup {FrontItem.id}
        /\ NoDuplicate(c) <=> /\ NoDuplicate(blockedQueue_)
                              /\ FrontItem.id = 0 \/ FrontItem.id \notin Ids(blockedQueue_)
    BY <1>1, <1>2, <2>1, IdsAppend, AppendProperties
  <2> HIDE DEF c
  <2> QED
    BY <1>2, <2>1, <2>2, AccountedReplay DEF FrontItem
<1>7. ASSUME Block PROVE Accounted'
  <2> DEFINE c == Append(blockedQueue_, FrontItem)
  <2>1. FireFront /\ blockedQueue_' = c /\ queue_' = Tail(queue_) /\ fired' = fired
    BY <1>7 DEF Block, outVars
  <2>2. /\ Ids(c) = Ids(blockedQueue_) \cup {FrontItem.id}
        /\ NoDuplicate(c) <=> /\ NoDuplicate(blockedQueue_)
                              /\ FrontItem.id = 0 \/ FrontItem.id \notin Ids(blockedQueue_)
    BY <1>1, <1>2, <2>1, IdsAppend
  <2> HIDE DEF c
  <2>3. Accounts(fired, c, Tail(queue_), removed, lastId)
    BY <1>1, <1>2, <2>1, <2>2, AccountsBlock DEF Accounted, FrontItem
  <2> QED
    BY <1>2, <2>1, <2>3 DEF Accounted
<1>8. ASSUME blockingTimeOut_timer_callback PROVE Accounted'
  <2>1. /\ queue_' = Replayed(blockedQueue_) \o queue_ /\ blockedQueue_' = << >>
        /\ UNCHANGED <<fired, removed, lastId>>
    BY <1>8 DEF blockingTimeOut_timer_callback, outVars, clockVars
  <2>2. Accounts(fired, << >>, Replayed(blockedQueue_) \o queue_, removed, lastId)
    BY <1>1, AccountsReplay DEF Accounted
  <2> QED
    BY <2>1, <2>2 DEF Accounted
<1> QED
  BY <1>3, <1>4, <1>5, <1>6, <1>7, <1>8

\* Every event accepted from the hardware is in exactly one place, in every
\* behaviour: queued, blocked, fired, or put down as taken out.  Whatever the
\* items, the bouncing filter and the blocking do to the two queues, none is
\* lost and none is delivered twice (EventInputQueue::enqueue_ and
\* fire_timer_callback, SimultaneousKeyPresses, BlockUntilKeyUpHandler).
THEOREM ConservationTheorem == Spec => []Conservation
<1>1. Init => Accounted
  <2>1. Hardware(<< >>) = {} /\ NoDuplicate(<< >>)
    BY IdsShort DEF Hardware
  <2> QED
    BY <2>1 DEF Init, Accounted, Accounts
<1>2. TypeOK /\ Accounted /\ [Next]_vars => Accounted'
  <2> SUFFICES ASSUME TypeOK, Accounted, [Next]_vars PROVE Accounted'
    OBVIOUS
  <2>1. CASE UNCHANGED vars
    BY <2>1, AccountedUnchanged DEF vars, outVars, blockVars, clockVars
  <2> QED
    BY <2>1, AccountedBefore, AccountedFiring DEF Next, HandlerNext, TimerNext
<1>3. TypeOK /\ Accounted => Conservation
  BY AccountsConservation DEF TypeOK, OutTypeOK, BlockTypeOK, QueueTypeOK, Accounted
<1> QED
  BY <1>1, <1>2, <1>3, TypeCorrect, PTL DEF Spec

-----------------------------------------------------------------------------
(* KeyOrder.  What stands in the line fired, blockedQueue_, queue_ is      *)
(* ordered per device and key; the line changes only at its end, or where  *)
(* a replayed event, a motion or the release of a blocking key overtakes   *)
(* blocked events, and none of these is of the key it overtakes.           *)

\* Of two events of one device and key the first is the older one.
Ordered == {p \in ItemType \X ItemType : SameKey(p[1], p[2]) => p[1].id < p[2].id}

\* In front of a replayed event stand replayed events and events of no hardware.
ReplayFirst == {p \in ItemType \X ItemType : p[2].replay => p[1].replay \/ p[1].id = 0}

\* No replayed event stands behind a blocked one of the hardware.
NoReplayBehind == {p \in ItemType \X ItemType : p[1].id > 0 => ~p[2].replay}

\* The line f, b, q.
Line(f, b, q) ==
    /\ Fine(f, Ordered) /\ Fine(b, Ordered) /\ Fine(q, Ordered)
    /\ Cross(f, b, Ordered) /\ Cross(f, q, Ordered) /\ Cross(b, q, Ordered)
    /\ Fine(q, ReplayFirst) /\ Cross(b, q, NoReplayBehind)

\* Only presses and releases are blocked.
KeptBlocked(b) == \A x \in Range(b) : IsDownUp(x)

\* The release of a blocking key overtakes no event of its key: none is blocked
\* behind the last press of the key.
OvertakesNone ==
    \A j \in DOMAIN blockedQueue_ : j > LastDown(FrontItem.key) => ~SameKey(FrontItem, blockedQueue_[j])

\* The list with x at its front.
LEMMA FinePush ==
  ASSUME NEW s \in Seq(ItemType), NEW x \in ItemType, NEW R
  PROVE  /\ <<x>> \o s \in Seq(ItemType) /\ Range(<<x>> \o s) = {x} \cup Range(s)
         /\ Fine(<<x>> \o s, R) <=> Fine(s, R) /\ \A y \in Range(s) : <<x, y>> \in R
<1> DEFINE h == <<x>>
<1>1. h \in Seq(ItemType) /\ Range(h) = {x} /\ Fine(h, R)
  BY FineShort
<1> HIDE DEF h
<1>2. h \o s \in Seq(ItemType) /\ Range(h \o s) = {x} \cup Range(s)
  BY <1>1, ConcatProperties, RangeConcatenation
<1>3. Fine(h \o s, R) <=> Fine(h, R) /\ Fine(s, R) /\ Cross(h, s, R)
  BY <1>1, FineConcat
<1>4. Cross(h, s, R) <=> \A y \in Range(s) : <<x, y>> \in R
  BY <1>1 DEF Cross
<1> QED
  BY <1>1, <1>2, <1>3, <1>4 DEF h

\* The head and the tail.
LEMMA FineHeadTail ==
  ASSUME NEW s \in Seq(ItemType), s # << >>, NEW R
  PROVE  /\ Range(s) = {Head(s)} \cup Range(Tail(s))
         /\ Fine(s, R) <=> Fine(Tail(s), R) /\ \A y \in Range(Tail(s)) : <<Head(s), y>> \in R
<1> DEFINE x == Head(s)
           t == Tail(s)
<1>1. x \in ItemType /\ t \in Seq(ItemType) /\ s = <<x>> \o t
  BY IdsHeadTail
<1> HIDE DEF x, t
<1>2. /\ Range(s) = {x} \cup Range(t)
      /\ Fine(s, R) <=> Fine(t, R) /\ \A y \in Range(t) : <<x, y>> \in R
  BY <1>1, FinePush
<1> QED
  BY <1>2 DEF x, t

\* The list with x behind its last event.
LEMMA FineAppend ==
  ASSUME NEW s \in Seq(ItemType), NEW x \in ItemType, NEW R
  PROVE  /\ Range(Append(s, x)) = Range(s) \cup {x}
         /\ Fine(Append(s, x), R) <=> Fine(s, R) /\ \A y \in Range(s) : <<y, x>> \in R
<1> DEFINE h == <<x>>
<1>1. h \in Seq(ItemType) /\ Range(h) = {x} /\ Fine(h, R)
  BY FineShort
<1>2. Append(s, x) = s \o h
  BY AppendIsConcat
<1> HIDE DEF h
<1>3. Range(s \o h) = Range(s) \cup {x}
  BY <1>1, RangeConcatenation
<1>4. Fine(s \o h, R) <=> Fine(s, R) /\ Fine(h, R) /\ Cross(s, h, R)
  BY <1>1, FineConcat
<1>5. Cross(s, h, R) <=> \A y \in Range(s) : <<y, x>> \in R
  BY <1>1 DEF Cross
<1> QED
  BY <1>1, <1>2, <1>3, <1>4, <1>5

\* The list with x after its first i - 1 events.
LEMMA FineInsert ==
  ASSUME NEW s \in Seq(ItemType), NEW x \in ItemType, NEW i \in 1..Len(s)+1, NEW R, Fine(s, R),
         \A j \in DOMAIN s : j < i => <<s[j], x>> \in R,
         \A j \in DOMAIN s : j >= i => <<x, s[j]>> \in R
  PROVE  Range(InsertAt(s, i, x)) = Range(s) \cup {x} /\ Fine(InsertAt(s, i, x), R)
<1> DEFINE p == SubSeq(s, 1, i - 1)
           r == SubSeq(s, i, Len(s))
           h == <<x>>
<1>1. Len(s) \in Nat /\ i \in Nat /\ DOMAIN s = 1..Len(s) /\ \A j \in 1..Len(s) : s[j] \in ItemType
  BY LenProperties, ElementOfSeq
<1>2. p \in Seq(ItemType) /\ r \in Seq(ItemType)
  BY <1>1, SubSeqProperties
<1>3. s = p \o r
  <2> DEFINE j == i - 1
  <2>1. j \in Nat /\ j + 1 = i /\ 1 \in 1..Len(s)+1 /\ j \in (1-1)..Len(s) /\ Len(s) \in j..Len(s)
    BY <1>1
  <2> HIDE DEF j
  <2>2. SubSeq(s, 1, j) \o SubSeq(s, j+1, Len(s)) = SubSeq(s, 1, Len(s))
    BY <2>1, ConcatAdjacentSubSeq
  <2> QED BY <2>1, <2>2, SubSeqFull DEF j
<1>4. \A y \in Range(p) : <<y, x>> \in R
  <2>1. /\ Len(p) = i - 1 /\ DOMAIN p = 1..(i - 1)
        /\ \A j \in 1..(i - 1) : p[j] = s[j]
    BY <1>1, SubSeqProperties
  <2>2. \A j \in 1..(i - 1) : j \in DOMAIN s /\ j < i
    BY <1>1
  <2> HIDE DEF p
  <2>3. Range(p) = {p[j] : j \in 1..(i - 1)}
    BY <1>2, <2>1, RangeEquality
  <2> QED BY <2>1, <2>2, <2>3
<1>5. \A y \in Range(r) : <<x, y>> \in R
  <2> DEFINE m == Len(r)
  <2>1. m \in Nat /\ DOMAIN r = 1..m /\ \A j \in 1..m : r[j] = s[i + j - 1] /\ i + j - 1 \in 1..Len(s)
    <3>1. i \in 1..Len(s)+1 /\ Len(s) \in Nat
      BY <1>1
    <3>2. m = IF i <= Len(s) THEN Len(s) - i + 1 ELSE 0
      BY <1>1, SubSeqProperties
    <3>3. DOMAIN r = 1..m /\ \A j \in 1..m : r[j] = s[i + j - 1]
      BY <1>1, <1>2, SubSeqProperties, LenProperties
    <3> HIDE DEF m, r
    <3> QED BY <1>1, <3>2, <3>3
  <2> HIDE DEF r, m
  <2>2. Range(r) = {r[j] : j \in 1..m}
    BY <2>1 DEF Range
  <2>3. \A j \in 1..m : i + j - 1 \in DOMAIN s /\ i + j - 1 >= i
    BY <1>1, <2>1
  <2> QED BY <2>1, <2>2, <2>3
<1>6. h \in Seq(ItemType) /\ Range(h) = {x} /\ Fine(h, R)
  BY FineShort
<1>7. InsertAt(s, i, x) = (p \o h) \o r
  BY DEF InsertAt
<1> HIDE DEF p, h, r
<1> DEFINE t == p \o h
<1>8. Fine(p, R) /\ Fine(r, R) /\ Cross(p, r, R) /\ Range(s) = Range(p) \cup Range(r)
  BY <1>2, <1>3, FineConcat, RangeConcatenation
<1>9. t \in Seq(ItemType) /\ Range(t) = Range(p) \cup {x} /\ Fine(t, R)
  <2>1. Cross(p, h, R)
    BY <1>4, <1>6 DEF Cross
  <2> QED BY <1>2, <1>6, <1>8, <2>1, ConcatProperties, FineConcat, RangeConcatenation
<1>10. InsertAt(s, i, x) = t \o r
  BY <1>7
<1> HIDE DEF t
<1>11. Cross(t, r, R)
  BY <1>5, <1>8, <1>9 DEF Cross
<1>12. Fine(t \o r, R)
  BY <1>2, <1>8, <1>9, <1>11, FineConcat
<1>13. Range(t \o r) = Range(t) \cup Range(r)
  BY <1>2, <1>9, RangeConcatenation
<1> QED
  BY <1>8, <1>9, <1>10, <1>12, <1>13

\* An event taken out.
LEMMA FineRemove ==
  ASSUME NEW s \in Seq(ItemType), NEW i \in DOMAIN s, NEW R, Fine(s, R)
  PROVE  /\ Fine(RemoveAt(s, i), R)
         /\ Range(RemoveAt(s, i)) \subseteq Range(s)
<1>1. PICK p, r \in Seq(ItemType) : /\ s = p \o (<<s[i]>> \o r) /\ RemoveAt(s, i) = p \o r
                                    /\ s[i] \in ItemType /\ Len(p) = i - 1
  BY Cut
<1> DEFINE t == <<s[i]>> \o r
<1>2. t \in Seq(ItemType) /\ Range(t) = {s[i]} \cup Range(r) /\ (Fine(t, R) => Fine(r, R)) /\ s = p \o t
  BY <1>1, FinePush
<1> HIDE DEF t
<1>3. Range(s) = Range(p) \cup Range(t) /\ Fine(p, R) /\ Fine(t, R) /\ Cross(p, t, R)
  <2>1. Fine(p \o t, R)
    BY <1>2
  <2> QED BY <1>1, <1>2, <2>1, RangeConcatenation, FineConcat
<1>4. Cross(p, r, R)
  BY <1>2, <1>3 DEF Cross
<1>5. Fine(p \o r, R) /\ Range(p \o r) = Range(p) \cup Range(r)
  BY <1>1, <1>2, <1>3, <1>4, FineConcat, RangeConcatenation
<1> QED
  BY <1>1, <1>2, <1>3, <1>5

\* The replayed events are the events, marked.
LEMMA RangeReplayed ==
  ASSUME NEW s \in Seq(ItemType)
  PROVE  /\ Replayed(s) \in Seq(ItemType)
         /\ Range(Replayed(s)) = {[x EXCEPT !.replay = TRUE] : x \in Range(s)}
         /\ Fine(s, Ordered) => Fine(Replayed(s), Ordered)
         /\ Fine(Replayed(s), ReplayFirst)
<1>1. DOMAIN s \subseteq Nat /\ \A i \in DOMAIN s : s[i] \in ItemType
  BY LenProperties, ElementOfSeq
<1>2. DOMAIN Replayed(s) = DOMAIN s /\ \A i \in DOMAIN s : Replayed(s)[i] = [s[i] EXCEPT !.replay = TRUE]
  BY DEF Replayed
<1>3. Replayed(s) \in Seq(ItemType)
  BY ReplayedType
<1>4. Range(s) = {s[i] : i \in DOMAIN s} /\ Range(Replayed(s)) = {Replayed(s)[i] : i \in DOMAIN s}
  BY <1>2 DEF Range
<1>5. \A x \in ItemType : LET y == [x EXCEPT !.replay = TRUE]
                          IN  y \in ItemType /\ y.replay /\ y.id = x.id /\ y.key = x.key /\ y.dev = x.dev
  BY DEF ItemType
<1>6. Range(Replayed(s)) = {[x EXCEPT !.replay = TRUE] : x \in Range(s)}
  <2> DEFINE Mark(x) == [x EXCEPT !.replay = TRUE]
  <2>1. \A i \in DOMAIN s : Replayed(s)[i] = Mark(s[i])
    BY <1>2
  <2> HIDE DEF Mark, Replayed
  <2>2. Range(Replayed(s)) = {Mark(s[i]) : i \in DOMAIN s}
    BY <1>4, <2>1
  <2>3. Range(Replayed(s)) = {Mark(x) : x \in Range(s)}
    BY <1>4, <2>2
  <2> QED BY <2>3 DEF Mark
<1> HIDE DEF Replayed
<1>7. \A i \in DOMAIN s : /\ Replayed(s)[i] \in ItemType /\ Replayed(s)[i].replay
                          /\ Replayed(s)[i].id = s[i].id /\ Replayed(s)[i].key = s[i].key
                          /\ Replayed(s)[i].dev = s[i].dev
  <2> SUFFICES ASSUME NEW i \in DOMAIN s
               PROVE  /\ Replayed(s)[i] \in ItemType /\ Replayed(s)[i].replay
                      /\ Replayed(s)[i].id = s[i].id /\ Replayed(s)[i].key = s[i].key
                      /\ Replayed(s)[i].dev = s[i].dev
    OBVIOUS
  <2> DEFINE x == s[i]
             y == [x EXCEPT !.replay = TRUE]
  <2>1. x \in ItemType /\ Replayed(s)[i] = y
    BY <1>1, <1>2
  <2> HIDE DEF x
  <2>2. y \in ItemType /\ y.replay /\ y.id = x.id /\ y.key = x.key /\ y.dev = x.dev
    BY <1>5, <2>1
  <2> QED BY <2>1, <2>2 DEF x
<1>8. ASSUME Fine(s, Ordered) PROVE Fine(Replayed(s), Ordered)
  <2> SUFFICES ASSUME NEW i \in DOMAIN s, NEW j \in DOMAIN s, i < j
               PROVE  <<Replayed(s)[i], Replayed(s)[j]>> \in Ordered
    BY <1>2 DEF Fine
  <2>1. <<s[i], s[j]>> \in Ordered
    BY <1>8 DEF Fine
  <2> QED BY <1>1, <1>7, <2>1 DEF Ordered, SameKey
<1>9. Fine(Replayed(s), ReplayFirst)
  BY <1>2, <1>7 DEF Fine, ReplayFirst
<1> QED
  BY <1>3, <1>6, <1>8, <1>9

-----------------------------------------------------------------------------
(* The moves in the line *)

\* The events of a list are events.
LEMMA RangeItems ==
  ASSUME NEW s \in Seq(ItemType)
  PROVE  Range(s) \subseteq ItemType
BY IdsRange

\* A new event is queued.
LEMMA LinePush ==
  ASSUME NEW f \in Seq(ItemType), NEW b \in Seq(ItemType), NEW q \in Seq(ItemType), Line(f, b, q),
         NEW x \in ItemType, ~x.replay, \A y \in Range(f) \cup Range(b) \cup Range(q) : y.id < x.id
  PROVE  Line(f, b, Append(q, x))
<1>1. \A y \in Range(f) \cup Range(b) \cup Range(q) : y \in ItemType
  BY RangeItems
<1>2. \A y \in Range(f) \cup Range(b) \cup Range(q) :
         <<y, x>> \in Ordered /\ <<y, x>> \in ReplayFirst /\ <<y, x>> \in NoReplayBehind
  BY <1>1 DEF Ordered, ReplayFirst, NoReplayBehind
<1> DEFINE a == Append(q, x)
<1>3. /\ Range(a) = Range(q) \cup {x}
      /\ Fine(a, Ordered) <=> Fine(q, Ordered) /\ \A y \in Range(q) : <<y, x>> \in Ordered
      /\ Fine(a, ReplayFirst) <=> Fine(q, ReplayFirst) /\ \A y \in Range(q) : <<y, x>> \in ReplayFirst
  BY FineAppend
<1> HIDE DEF a
<1>4. Line(f, b, a)
  BY <1>2, <1>3 DEF Line, Cross
<1> QED
  BY <1>4 DEF a

\* t is q without some events, and with events of no hardware.
Thins(q, t) ==
    /\ t \in Seq(ItemType)
    /\ Range(t) \subseteq Range(q) \cup {x \in ItemType : x.id = 0 /\ ~x.replay}
    /\ Fine(t, Ordered) /\ Fine(t, ReplayFirst)

\* The queue is thinned out.
LEMMA LineTake ==
  ASSUME NEW f \in Seq(ItemType), NEW b \in Seq(ItemType), NEW q, Line(f, b, q), NEW t, Thins(q, t)
  PROVE  Line(f, b, t)
<1>1. Range(f) \subseteq ItemType /\ Range(b) \subseteq ItemType
  BY RangeItems
<1>2. \A x, y \in ItemType : y.id = 0 /\ ~y.replay => <<x, y>> \in Ordered /\ <<x, y>> \in NoReplayBehind
  BY DEF Ordered, NoReplayBehind, SameKey
<1>3. ASSUME NEW y \in Range(t)
      PROVE  /\ \A x \in Range(f) : <<x, y>> \in Ordered
             /\ \A x \in Range(b) : <<x, y>> \in Ordered /\ <<x, y>> \in NoReplayBehind
  <2>1. y \in Range(q) \/ (y \in ItemType /\ y.id = 0 /\ ~y.replay)
    BY DEF Thins
  <2> QED BY <1>1, <1>2, <2>1 DEF Line, Cross
<1> QED
  BY <1>3 DEF Line, Thins, Cross

\* The front event is fired; it is of no key it overtakes.
LEMMA LineFire ==
  ASSUME NEW f \in Seq(ItemType), NEW b \in Seq(ItemType), NEW q \in Seq(ItemType), q # << >>, Line(f, b, q),
         \A y \in Range(b) : ~SameKey(Head(q), y)
  PROVE  Line(Append(f, Head(q)), b, Tail(q))
<1> DEFINE x == Head(q)
           t == Tail(q)
           g == Append(f, x)
<1>1. /\ x \in ItemType /\ Range(q) = {x} \cup Range(t)
      /\ Fine(q, Ordered) <=> Fine(t, Ordered) /\ \A y \in Range(t) : <<x, y>> \in Ordered
      /\ Fine(q, ReplayFirst) <=> Fine(t, ReplayFirst) /\ \A y \in Range(t) : <<x, y>> \in ReplayFirst
  BY IdsHeadTail, FineHeadTail
<1>2. /\ Range(g) = Range(f) \cup {x}
      /\ Fine(g, Ordered) <=> Fine(f, Ordered) /\ \A y \in Range(f) : <<y, x>> \in Ordered
  BY <1>1, FineAppend
<1>3. \A y \in Range(b) : <<x, y>> \in Ordered
  BY <1>1, RangeItems DEF Ordered
<1> HIDE DEF x, t, g
<1>4. \A y \in Range(f) : <<y, x>> \in Ordered
  BY <1>1 DEF Line, Cross
<1>5. Fine(g, Ordered) /\ Fine(t, Ordered) /\ Fine(t, ReplayFirst) /\ Fine(b, Ordered)
  BY <1>1, <1>2, <1>4 DEF Line
<1>6. Cross(g, b, Ordered)
  BY <1>2, <1>3 DEF Line, Cross
<1>7. Cross(g, t, Ordered)
  BY <1>1, <1>2 DEF Line, Cross
<1>8. Cross(b, t, Ordered) /\ Cross(b, t, NoReplayBehind)
  BY <1>1 DEF Line, Cross
<1> QED
  BY <1>5, <1>6, <1>7, <1>8 DEF Line, x, t, g

\* The front event, which is not replayed, is put among the blocked events.
LEMMA LineBlock ==
  ASSUME NEW f \in Seq(ItemType), NEW b \in Seq(ItemType), NEW q \in Seq(ItemType), q # << >>, Line(f, b, q),
         ~Head(q).replay, NEW c, Range(c) = Range(b) \cup {Head(q)}, Fine(c, Ordered)
  PROVE  Line(f, c, Tail(q))
<1> DEFINE x == Head(q)
           t == Tail(q)
<1>1. /\ x \in ItemType /\ t \in Seq(ItemType) /\ Range(q) = {x} \cup Range(t)
      /\ Fine(q, Ordered) <=> Fine(t, Ordered) /\ \A y \in Range(t) : <<x, y>> \in Ordered
      /\ Fine(q, ReplayFirst) <=> Fine(t, ReplayFirst) /\ \A y \in Range(t) : <<x, y>> \in ReplayFirst
  BY IdsHeadTail, FineHeadTail
<1>2. Range(c) = Range(b) \cup {x} /\ ~x.replay
  OBVIOUS
<1> HIDE DEF x, t
<1>3. Fine(t, Ordered) /\ Fine(t, ReplayFirst) /\ Fine(f, Ordered)
  BY <1>1 DEF Line
<1>4. Cross(f, c, Ordered) /\ Cross(f, t, Ordered)
  BY <1>1, <1>2 DEF Line, Cross
<1>5. Cross(c, t, Ordered)
  BY <1>1, <1>2 DEF Line, Cross
<1>6. Cross(c, t, NoReplayBehind)
  <2>1. \A y \in Range(t) : x.id > 0 => ~y.replay
    <3>1. \A y \in Range(t) : y.replay => x.replay \/ x.id = 0
      BY <1>1 DEF Line, ReplayFirst
    <3> QED BY <1>2, <3>1
  <2>2. \A y \in Range(t) : <<x, y>> \in NoReplayBehind
    BY <1>1, <2>1, RangeItems DEF NoReplayBehind
  <2> QED BY <1>1, <1>2, <2>2 DEF Line, Cross
<1> QED
  BY <1>3, <1>4, <1>5, <1>6 DEF Line, x, t

\* The blocked events go back to the front of the queue.
LEMMA LineReplay ==
  ASSUME NEW f \in Seq(ItemType), NEW b \in Seq(ItemType), NEW q \in Seq(ItemType), Line(f, b, q)
  PROVE  Line(f, << >>, Replayed(b) \o q)
<1> DEFINE p == Replayed(b)
           t == p \o q
           Mark(x) == [x EXCEPT !.replay = TRUE]
<1>1. /\ p \in Seq(ItemType) /\ Range(p) = {Mark(x) : x \in Range(b)}
      /\ Fine(b, Ordered) => Fine(p, Ordered)
      /\ Fine(p, ReplayFirst)
  BY RangeReplayed
<1>2. \A x \in ItemType : /\ Mark(x) \in ItemType /\ Mark(x).replay
                          /\ Mark(x).id = x.id /\ Mark(x).key = x.key /\ Mark(x).dev = x.dev
  BY DEF ItemType
<1>3. Range(f) \subseteq ItemType /\ Range(b) \subseteq ItemType /\ Range(q) \subseteq ItemType
  BY RangeItems
<1> HIDE DEF p, Mark
<1>4. Cross(p, q, Ordered)
  <2> SUFFICES ASSUME NEW x \in Range(b), NEW y \in Range(q) PROVE <<Mark(x), y>> \in Ordered
    BY <1>1 DEF Cross
  <2>1. <<x, y>> \in Ordered
    BY DEF Line, Cross
  <2> QED BY <1>2, <1>3, <2>1 DEF Ordered, SameKey
<1>5. Cross(p, q, ReplayFirst)
  <2> SUFFICES ASSUME NEW x \in Range(b), NEW y \in Range(q) PROVE <<Mark(x), y>> \in ReplayFirst
    BY <1>1 DEF Cross
  <2> QED BY <1>2, <1>3 DEF ReplayFirst
<1>6. Cross(f, p, Ordered)
  <2> SUFFICES ASSUME NEW x \in Range(f), NEW y \in Range(b) PROVE <<x, Mark(y)>> \in Ordered
    BY <1>1 DEF Cross
  <2>1. <<x, y>> \in Ordered
    BY DEF Line, Cross
  <2> QED BY <1>2, <1>3, <2>1 DEF Ordered, SameKey
<1>7. Fine(t, Ordered) /\ Fine(t, ReplayFirst) /\ Range(t) = Range(p) \cup Range(q)
  BY <1>1, <1>4, <1>5, FineConcat, RangeConcatenation DEF Line
<1> HIDE DEF t
<1>8. Cross(f, t, Ordered)
  BY <1>6, <1>7 DEF Line, Cross
<1>9. Range(<< >>) = {} /\ Fine(<< >>, Ordered)
  BY FineShort
<1>10. Line(f, << >>, t)
  BY <1>7, <1>8, <1>9 DEF Line, Cross
<1> QED
  BY <1>10 DEF t, p

-----------------------------------------------------------------------------
(* What SimultaneousKeyPresses and the bouncing filter leave in order *)

\* Taking out two events, the later one first.
LEMMA ThinsTwo ==
  ASSUME NEW q \in Seq(ItemType), Fine(q, Ordered), Fine(q, ReplayFirst),
         NEW i \in DOMAIN q, NEW j \in DOMAIN q, i < j
  PROVE  Thins(q, RemoveAt(RemoveAt(q, j), i))
<1> DEFINE o == RemoveAt(q, j)
<1>1. /\ o \in Seq(ItemType) /\ Range(o) \subseteq Range(q)
      /\ Fine(o, Ordered) /\ Fine(o, ReplayFirst)
  BY IdsRemove, FineRemove
<1>2. i \in DOMAIN o
  BY RemoveAtBefore
<1> HIDE DEF o
<1>3. /\ RemoveAt(o, i) \in Seq(ItemType) /\ Range(RemoveAt(o, i)) \subseteq Range(o)
      /\ Fine(RemoveAt(o, i), Ordered) /\ Fine(RemoveAt(o, i), ReplayFirst)
  BY <1>1, <1>2, IdsRemove, FineRemove
<1> QED
  BY <1>1, <1>3 DEF Thins, o

\* push_remapped
LEMMA ThinsPushRemapped ==
  ASSUME NEW q, NEW t, Thins(q, t), NEW item \in SimultaneousItem, NEW down \in BOOLEAN, NEW ptr \in PtrType
  PROVE  Thins(q, PushRemapped(item, t, down, ptr))
<1>1. CASE item.vk = VK_NONE
  BY <1>1 DEF PushRemapped
<1>2. CASE item.vk # VK_NONE
  <2> DEFINE x == RawItem(0, item.vk, down, ptr)
             u == <<x>> \o t
  <2>1. x \in ItemType /\ x.id = 0 /\ ~x.replay
    BY <1>2, ItemFacts DEF SimultaneousItem, RawItem
  <2> HIDE DEF x
  <2>2. t \in Seq(ItemType) /\ Range(t) \subseteq ItemType
    BY RangeItems DEF Thins
  <2>3. \A y \in Range(t) : <<x, y>> \in Ordered /\ <<x, y>> \in ReplayFirst
    BY <2>1, <2>2 DEF Ordered, ReplayFirst, SameKey
  <2>4. /\ u \in Seq(ItemType) /\ Range(u) = {x} \cup Range(t)
        /\ Fine(u, Ordered) /\ Fine(u, ReplayFirst)
    BY <2>1, <2>2, <2>3, FinePush DEF Thins
  <2>5. PushRemapped(item, t, down, ptr) = u
    BY <1>2 DEF PushRemapped, x
  <2> HIDE DEF u
  <2> QED BY <2>1, <2>4, <2>5 DEF Thins
<1> QED
  BY <1>1, <1>2

\* Both keys are down: their events leave.
LEMMA ApplyDownThins ==
  ASSUME NEW r \in DOMAIN Items, NEW item \in SimultaneousItem, NEW q \in Seq(ItemType), q # << >>,
         Fine(q, Ordered), Fine(q, ReplayFirst), AllKeysDown(item, q), item.key1 # item.key2, ~item.raw,
         NEW active, NEW live, NEW serial
  PROVE  Thins(q, ApplyDown(r, item, q, active, live, serial).queue)
<1> DEFINE p1 == DownKey(item, q, item.key1)
           p2 == DownKey(item, q, item.key2)
           rest == IF p1 < p2 THEN RemoveAt(RemoveAt(q, p2), p1) ELSE RemoveAt(RemoveAt(q, p1), p2)
           ptr == DevicePtr(q[1])
           res == ApplyDown(r, item, q, active, live, serial)
<1>1. Len(q) \in Nat /\ DOMAIN q = 1..Len(q) /\ q[1] \in ItemType
  BY LenProperties, ElementOfSeq, EmptySeq
<1>2. p1 \in DOMAIN q /\ p2 \in DOMAIN q /\ p1 # p2
  BY DownKeyFound
<1>3. res.queue = PushRemapped(item, << >> \o rest, TRUE, ptr)
  BY DEF ApplyDown
<1> HIDE DEF res, p1, p2
<1>4. Thins(q, rest)
  <2>1. CASE p1 < p2
    BY <1>2, <2>1, ThinsTwo
  <2>2. CASE p2 < p1 /\ ~(p1 < p2)
    BY <1>2, <2>2, ThinsTwo
  <2> QED BY <1>1, <1>2, <2>1, <2>2
<1>5. ptr \in PtrType
  BY <1>1, ItemFacts
<1> HIDE DEF rest, ptr
<1>6. << >> \o rest = rest
  BY <1>4, ConcatEmptySeq DEF Thins
<1>7. Thins(q, PushRemapped(item, rest, TRUE, ptr))
  BY <1>4, <1>5, ThinsPushRemapped
<1> QED
  BY <1>3, <1>6, <1>7 DEF res

\* A release of an active item's key leaves.
LEMMA ApplyUpThins ==
  ASSUME NEW r \in DOMAIN Items, NEW item \in SimultaneousItem, NEW q \in Seq(ItemType), q # << >>,
         Fine(q, Ordered), Fine(q, ReplayFirst), ~item.raw,
         NEW active \in SUBSET ActiveType, Find(r, active, q[1]) # {}, NEW live
  PROVE  Thins(q, ApplyUp(r, item, q, active, live).queue)
<1> DEFINE e == FindFirst(r, active, q[1])
           t == Tail(q)
           res  == ApplyUp(r, item, q, active, live)
<1>1. res.queue \in {PushRemapped(item, t, FALSE, e.front), t}
  BY DEF ApplyUp
<1>2. e.front \in PtrType
  BY FindFirstActive DEF ActiveType
<1> HIDE DEF res, e
<1>3. /\ t \in Seq(ItemType) /\ Range(q) = {Head(q)} \cup Range(t)
      /\ Fine(t, Ordered) /\ Fine(t, ReplayFirst)
  BY IdsHeadTail, FineHeadTail
<1> HIDE DEF t
<1>4. Thins(q, t)
  BY <1>3 DEF Thins
<1>5. Thins(q, PushRemapped(item, t, FALSE, e.front))
  BY <1>2, <1>4, ThinsPushRemapped
<1> QED
  BY <1>1, <1>4, <1>5 DEF res

\* Whatever an item that is not raw does to the queue leaves it in order.
LEMMA RemapThins ==
  ASSUME NEW r \in DOMAIN Items, NEW item \in SimultaneousItem, item.key1 # item.key2, ~item.raw,
         NEW q \in Seq(ItemType), Fine(q, Ordered), Fine(q, ReplayFirst),
         NEW active \in SUBSET ActiveType, NEW live, NEW serial
  PROVE  Thins(q, RemapSimultaneousKeyPresses(r, item, q, active, live, serial).queue)
<1> DEFINE up == q # << >> /\ q[1].target /\ ~q[1].down /\ q[1].key \in {item.key1, item.key2}
                   /\ Find(r, active, q[1]) # {}
           down == q # << >> /\ AllKeysDown(item, q)
           res == RemapSimultaneousKeyPresses(r, item, q, active, live, serial)
<1>1. CASE up
  <2>1. res = ApplyUp(r, item, q, active, live)
    BY <1>1, Zenon DEF RemapSimultaneousKeyPresses
  <2> HIDE DEF res
  <2> QED
    BY <1>1, <2>1, ApplyUpThins DEF res
<1>2. CASE ~up /\ down
  <2>1. res = ApplyDown(r, item, q, active, live, serial)
    BY <1>2, Zenon DEF RemapSimultaneousKeyPresses
  <2> HIDE DEF res
  <2> QED
    BY <1>2, <2>1, ApplyDownThins DEF res
<1>3. CASE ~up /\ ~down
  <2>1. res = [result |-> "NOT_CHANGED", queue |-> q, active |-> active, removed |-> {}]
    BY <1>3, Zenon DEF RemapSimultaneousKeyPresses
  <2> HIDE DEF res
  <2>2. Thins(q, q)
    BY DEF Thins
  <2> QED
    BY <2>1, <2>2 DEF res
<1> QED
  BY <1>1, <1>2, <1>3

-----------------------------------------------------------------------------
(* Every step keeps the line *)

\* What the steps are about.
InLine == Line(fired, blockedQueue_, queue_)

\* What the line says of the two lists the property is about.
LEMMA LineKeyOrder ==
  ASSUME fired \in Seq(ItemType), blockedQueue_ \in Seq(ItemType), queue_ \in Seq(ItemType), InLine
  PROVE  KeyOrder
<1>1. Pipeline \in Seq(ItemType) /\ Fine(Pipeline, Ordered) /\ Range(Pipeline) = Range(blockedQueue_) \cup Range(queue_)
  BY FineConcat, ConcatProperties, RangeConcatenation DEF Pipeline, InLine, Line
<1>2. Cross(fired, Pipeline, Ordered) /\ Fine(fired, Ordered)
  BY <1>1 DEF InLine, Line, Cross
<1> HIDE DEF Pipeline
<1>3. \A x, y : <<x, y>> \in Ordered /\ SameKey(x, y) => x.id < y.id
  BY DEF Ordered
<1>4. \A i, j \in DOMAIN Pipeline : i < j /\ SameKey(Pipeline[i], Pipeline[j]) => Pipeline[i].id < Pipeline[j].id
  BY <1>1, <1>3 DEF Fine
<1>5. \A i, j \in DOMAIN fired : i < j /\ SameKey(fired[i], fired[j]) => fired[i].id < fired[j].id
  BY <1>2, <1>3 DEF Fine
<1>6. ASSUME NEW i \in DOMAIN fired, NEW j \in DOMAIN Pipeline, SameKey(fired[i], Pipeline[j])
      PROVE  fired[i].id < Pipeline[j].id
  <2>1. fired[i] \in Range(fired) /\ Pipeline[j] \in Range(Pipeline)
    BY DEF Range
  <2>2. <<fired[i], Pipeline[j]>> \in Ordered
    BY <1>2, <2>1 DEF Cross
  <2> QED BY <1>3, <1>6, <2>2
<1> QED
  BY <1>4, <1>5, <1>6 DEF KeyOrder

\* The events of the lists are older than the next one.
LEMMA OlderThanNext ==
  ASSUME TypeOK, Accounted
  PROVE  \A y \in Range(fired) \cup Range(blockedQueue_) \cup Range(queue_) : y.id < lastId + 1
<1>1. /\ Ids(fired) = {x.id : x \in Range(fired)} /\ Range(fired) \subseteq ItemType
      /\ Ids(blockedQueue_) = {x.id : x \in Range(blockedQueue_)} /\ Range(blockedQueue_) \subseteq ItemType
      /\ Ids(queue_) = {x.id : x \in Range(queue_)} /\ Range(queue_) \subseteq ItemType
  BY IdsRange DEF TypeOK, OutTypeOK, BlockTypeOK, QueueTypeOK
<1>2. lastId \in Nat
  BY DEF TypeOK, ClockTypeOK
<1> SUFFICES ASSUME NEW y \in Range(fired) \cup Range(blockedQueue_) \cup Range(queue_)
             PROVE  y.id < lastId + 1
  OBVIOUS
<1>3. y.id \in Nat
  BY <1>1 DEF ItemType
<1>4. y.id = 0 \/ y.id \in 1..lastId
  BY <1>1 DEF Accounted, Accounts, Hardware
<1> QED
  BY <1>2, <1>3, <1>4

\* An event of the hardware is appended to the queue.
LEMMA InLinePush ==
  ASSUME TypeOK, Accounted, InLine, NEW since \in Nat, NEW d \in Devices, NEW k \in DownUps \cup {Motion},
         NEW down \in BOOLEAN, queue_' = Append(queue_, NewItem(lastId + 1, since, d, k, down)),
         UNCHANGED <<fired, blockedQueue_>>
  PROVE  InLine'
<1> DEFINE x == NewItem(lastId + 1, since, d, k, down)
<1>1. lastId \in Nat /\ gen[d] \in Nat
  BY DEF TypeOK, ClockTypeOK, DeviceTypeOK
<1>2. x \in ItemType /\ x.id = lastId + 1 /\ ~x.replay
  BY <1>1 DEF NewItem, ItemType
<1>3. queue_' = Append(queue_, x)
  OBVIOUS
<1> HIDE DEF x
<1>4. Line(fired, blockedQueue_, Append(queue_, x))
  BY <1>2, OlderThanNext, LinePush DEF TypeOK, OutTypeOK, BlockTypeOK, QueueTypeOK, InLine
<1> QED
  BY <1>3, <1>4 DEF InLine

\* The steps of the hardware and of the handlers before the front event is fired.
LEMMA InLineBefore ==
  ASSUME TypeOK, Accounted, InLine, \A r \in DOMAIN Items : ~Items[r].raw,
         \/ HardwareNext \/ PushButton \/ PushMotion \/ RemoveBouncing \/ BouncingDone
         \/ SimultaneousRound \/ remap_SimultaneousKeyPresses \/ SimultaneousDone \/ fire_timer_callback
  PROVE  InLine'
<1>0. ASSUME UNCHANGED <<fired, blockedQueue_, queue_>> PROVE InLine'
  BY <1>0 DEF InLine
<1>1. ASSUME NEW d \in Keyboards, NEW k \in Keys, NEW down \in BOOLEAN, NEW repeat \in BOOLEAN,
             push_KeyboardEventCallback(d, k, down, repeat)
      PROVE  InLine'
  <2>1. d \in Devices /\ k \in DownUps \cup {Motion}
    BY DEF Devices, DownUps
  <2>2. UNCHANGED <<fired, blockedQueue_>>
    BY <1>1 DEF push_KeyboardEventCallback, outVars, blockVars
  <2>3. CASE UNCHANGED queue_
    BY <1>0, <2>2, <2>3
  <2>4. CASE \E since \in Sinces(k, down) : queue_' = Append(queue_, NewItem(lastId + 1, since, d, k, down))
    BY <2>1, <2>2, <2>4, SincesType, InLinePush
  <2> QED
    BY <1>1, <2>3, <2>4, Zenon DEF push_KeyboardEventCallback
<1>2. ASSUME NEW d \in Pointings, push_ScrollWheelEventCallback(d)
      PROVE  InLine'
  <2>1. d \in Devices /\ Motion \in DownUps \cup {Motion} /\ 0 \in Nat /\ FALSE \in BOOLEAN
    BY DEF Devices
  <2>2. UNCHANGED <<fired, blockedQueue_>> /\ queue_' = Append(queue_, NewItem(lastId + 1, 0, d, Motion, FALSE))
    BY <1>2 DEF push_ScrollWheelEventCallback, outVars, blockVars
  <2> QED
    BY <2>1, <2>2, InLinePush
<1>3. ASSUME \/ \E d \in Pointings, B \in SUBSET {Buttons[i] : i \in DOMAIN Buttons}, moved \in BOOLEAN :
                   push_RelativePointerEventCallback(d, B, moved)
             \/ \E d \in Devices : Connect(d) \/ Disconnect(d)
             \/ SetConfig \/ BouncingDone \/ SimultaneousRound \/ SimultaneousDone \/ fire_timer_callback
      PROVE  InLine'
  <2>1. UNCHANGED <<fired, blockedQueue_, queue_>>
    BY <1>3 DEF push_RelativePointerEventCallback, Connect, Disconnect, SetConfig, BouncingDone, SimultaneousRound,
                SimultaneousDone, fire_timer_callback, outVars, blockVars
  <2> QED
    BY <1>0, <2>1
<1>4. ASSUME PushButton PROVE InLine'
  <2> DEFINE btn == Buttons[loop.at]
             pressed == btn \in loop.buttons
  <2>1. loop.dev \in Devices /\ loop.at \in Nat /\ loop.at > 0
    BY <1>4 DEF PushButton, TypeOK, HandlerTypeOK, LoopType
  <2>2. btn \in DownUps \cup {Motion} /\ pressed \in BOOLEAN
    <3>1. Buttons \in Seq({Buttons[i] : i \in DOMAIN Buttons})
      BY ConstantsAssumption
    <3>2. loop.at \in DOMAIN Buttons
      BY <1>4, <2>1, <3>1, LenProperties DEF PushButton
    <3> QED
      BY <3>2 DEF DownUps
  <2>3. UNCHANGED <<fired, blockedQueue_>>
    BY <1>4 DEF PushButton, outVars, blockVars
  <2>4. \/ UNCHANGED queue_
        \/ \E since \in Sinces(btn, pressed) :
              queue_' = Append(queue_, NewItem(lastId + 1, since, loop.dev, btn, pressed))
    BY <1>4, Zenon DEF PushButton
  <2> HIDE DEF btn, pressed
  <2>5. CASE UNCHANGED queue_
    BY <1>0, <2>3, <2>5
  <2>6. CASE \E since \in Sinces(btn, pressed) :
                queue_' = Append(queue_, NewItem(lastId + 1, since, loop.dev, btn, pressed))
    BY <2>1, <2>2, <2>3, <2>6, SincesType, InLinePush
  <2> QED
    BY <2>4, <2>5, <2>6, Zenon
<1>5. ASSUME PushMotion PROVE InLine'
  <2>1. loop.dev \in Devices /\ Motion \in DownUps \cup {Motion} /\ 0 \in Nat /\ FALSE \in BOOLEAN
    BY <1>5 DEF PushMotion, TypeOK, HandlerTypeOK, LoopType
  <2>2. UNCHANGED <<fired, blockedQueue_>>
    BY <1>5 DEF PushMotion, outVars, blockVars
  <2>3. CASE UNCHANGED queue_
    BY <1>0, <2>2, <2>3
  <2>4. CASE queue_' = Append(queue_, NewItem(lastId + 1, 0, loop.dev, Motion, FALSE))
    BY <2>1, <2>2, <2>4, InLinePush
  <2> QED
    BY <1>5, <2>3, <2>4, Zenon DEF PushMotion
<1>6. ASSUME NEW t, Thins(queue_, t), queue_' = t, UNCHANGED <<fired, blockedQueue_>>
      PROVE  InLine'
  BY <1>6, LineTake DEF InLine, TypeOK, OutTypeOK, BlockTypeOK
<1>7. queue_ \in Seq(ItemType) /\ Fine(queue_, Ordered) /\ Fine(queue_, ReplayFirst)
  BY DEF TypeOK, QueueTypeOK, InLine, Line
<1>8. ASSUME RemoveBouncing PROVE InLine'
  <2>1. PICK p \in BouncingPairs : queue_' = RemoveAt(RemoveAt(queue_, p[2]), p[1])
    BY <1>8 DEF RemoveBouncing
  <2>2. p[1] \in DOMAIN queue_ /\ p[2] \in DOMAIN queue_ /\ p[1] < p[2]
    BY DEF BouncingPairs
  <2>3. UNCHANGED <<fired, blockedQueue_>>
    BY <1>8 DEF RemoveBouncing, outVars, blockVars
  <2>4. Thins(queue_, RemoveAt(RemoveAt(queue_, p[2]), p[1]))
    BY <1>7, <2>2, ThinsTwo
  <2> QED
    BY <1>6, <2>1, <2>3, <2>4
<1>9. ASSUME remap_SimultaneousKeyPresses PROVE InLine'
  <2> DEFINE r == loop.at
             res == RemapSimultaneousKeyPresses(r, Items[r], queue_, activeFromInfos, Live, serialNumber_)
  <2>1. UNCHANGED <<fired, blockedQueue_>>
    BY <1>9 DEF remap_SimultaneousKeyPresses, outVars, blockVars
  <2>2. queue_' = res.queue \/ UNCHANGED queue_
    BY <1>9, Zenon DEF remap_SimultaneousKeyPresses
  <2>3. Thins(queue_, res.queue)
    BY <1>7, <1>9, ItemOfRound, RemapThins DEF TypeOK, SkpTypeOK
  <2> HIDE DEF res
  <2> QED
    BY <1>0, <1>6, <2>1, <2>2, <2>3
<1> QED
  BY <1>1, <1>2, <1>3, <1>4, <1>5, <1>8, <1>9, Zenon DEF HardwareNext

\* Case 2 finds the last press of the key.
LEMMA LastDownGreatest ==
  ASSUME blockedQueue_ \in Seq(ItemType), NEW k
  PROVE  /\ LastDown(k) \in Nat
         /\ \A j \in DOMAIN blockedQueue_ : blockedQueue_[j].key = k /\ blockedQueue_[j].down => j <= LastDown(k)
<1> DEFINE T == {i \in DOMAIN blockedQueue_ : blockedQueue_[i].key = k /\ blockedQueue_[i].down}
<1>1. Len(blockedQueue_) \in Nat /\ DOMAIN blockedQueue_ = 1..Len(blockedQueue_)
  BY LenProperties
<1>2. CASE T = {}
  BY <1>2 DEF LastDown, DownInBlockedQueue
<1>3. CASE T # {}
  <2>1. T \in SUBSET (0..Len(blockedQueue_))
    BY <1>1
  <2>2. \E i \in T : \A n \in T : n <= i
    <3> HIDE DEF T
    <3> QED BY <1>1, <1>3, <2>1, MaxExists
  <2>3. DownInBlockedQueue(k)
    BY <1>3 DEF DownInBlockedQueue
  <2>4. /\ LastDown(k) \in DOMAIN blockedQueue_
        /\ \A n \in DOMAIN blockedQueue_ : blockedQueue_[n].key = k /\ blockedQueue_[n].down => n <= LastDown(k)
    BY <2>2, <2>3 DEF LastDown
  <2> QED
    BY <1>1, <2>4
<1> QED
  BY <1>2, <1>3

\* doFire on a queue that is in line.
LEMMA InLineFire ==
  ASSUME TypeOK, NEW q \in Seq(ItemType), q # << >>, DoFire(q), blockedQueue_' \in Seq(ItemType),
         Line(fired, blockedQueue_', q), \A y \in Range(blockedQueue_') : ~SameKey(Head(q), y)
  PROVE  InLine'
<1>1. fired \in Seq(ItemType)
  BY DEF TypeOK, OutTypeOK
<1> DEFINE b == blockedQueue_'
<1>2. b \in Seq(ItemType) /\ Line(fired, b, q) /\ \A y \in Range(b) : ~SameKey(Head(q), y)
  OBVIOUS
<1> HIDE DEF b
<1>3. Line(Append(fired, Head(q)), b, Tail(q))
  BY <1>1, <1>2, LineFire
<1>4. queue_' = Tail(q) /\ fired' = Append(fired, Head(q))
  BY Zenon DEF DoFire
<1> QED
  BY <1>3, <1>4 DEF InLine, b

\* The front event has moved to the blocked ones, which go back to the front of the queue
\* and start to be fired.
LEMMA InLineReplay ==
  ASSUME TypeOK, InLine, queue_ # << >>, ~Head(queue_).replay, NEW c \in Seq(ItemType), c # << >>,
         Range(c) = Range(blockedQueue_) \cup {Head(queue_)}, Fine(c, Ordered),
         DoFire(Replayed(c) \o Tail(queue_)), blockedQueue_' = << >>
  PROVE  InLine'
<1> DEFINE t == Tail(queue_)
           q == Replayed(c) \o t
<1>1. /\ fired \in Seq(ItemType) /\ queue_ \in Seq(ItemType) /\ blockedQueue_ \in Seq(ItemType)
      /\ t \in Seq(ItemType)
  BY HeadTailProperties DEF TypeOK, OutTypeOK, QueueTypeOK, BlockTypeOK
<1>2. Line(fired, c, t)
  BY <1>1, LineBlock DEF InLine
<1> HIDE DEF t
<1>3. Line(fired, << >>, q)
  BY <1>1, <1>2, LineReplay
<1>4. q \in Seq(ItemType) /\ q # << >>
  <2>1. Replayed(c) \in Seq(ItemType) /\ Len(Replayed(c)) = Len(c) /\ Len(c) \in Nat \ {0}
    BY ReplayedType, EmptySeq, LenProperties
  <2>2. q \in Seq(ItemType) /\ Len(q) = Len(Replayed(c)) + Len(t) /\ Len(t) \in Nat
    BY <1>1, <2>1, ConcatProperties, LenProperties
  <2>3. Len(q) # 0
    BY <2>1, <2>2
  <2> QED BY <2>2, <2>3, EmptySeq
<1>5. DoFire(q)
  BY DEF t
<1> HIDE DEF q
<1>6. Range(<< >>) = {} /\ << >> \in Seq(ItemType)
  BY FineShort
<1> QED
  BY <1>3, <1>4, <1>5, <1>6, InLineFire

\* Firing, blocking and replaying.
LEMMA InLineFiring ==
  ASSUME TypeOK, InLine, KeptBlocked(blockedQueue_), ReleaseBlockingKey => OvertakesNone,
         FirePassing \/ FireUnblocked \/ ReleaseBlockingKey \/ ReleaseTappedKey \/ Block \/ blockingTimeOut_timer_callback
  PROVE  InLine'
<1> DEFINE x == Head(queue_)
           b == blockedQueue_
<1>1. fired \in Seq(ItemType) /\ b \in Seq(ItemType) /\ queue_ \in Seq(ItemType)
  BY DEF TypeOK, OutTypeOK, BlockTypeOK, QueueTypeOK
<1>2. Line(fired, b, queue_) /\ KeptBlocked(b)
  BY DEF InLine
<1>3. Range(<< >>) = {} /\ << >> \in Seq(ItemType)
  BY FineShort
<1>4. ASSUME FireFront
      PROVE  queue_ # << >> /\ x \in ItemType /\ x \in Range(queue_) /\ FrontItem = x
             /\ (\A y \in Range(b) : <<y, x>> \in Ordered)
  <2>1. queue_ # << >>
    BY <1>4 DEF FireFront
  <2>2. x \in ItemType /\ Range(queue_) = {x} \cup Range(Tail(queue_))
    BY <1>1, <2>1, IdsHeadTail, FineHeadTail
  <2> QED BY <1>2, <2>1, <2>2 DEF Line, Cross, FrontItem
<1>5. ASSUME FirePassing PROVE InLine'
  <2>1. FireFront /\ Passes /\ DoFire(queue_) /\ blockedQueue_' = b
    BY <1>5 DEF FirePassing, blockVars
  <2>2. ASSUME NEW y \in Range(b), SameKey(x, y) PROVE FALSE
    <3>1. CASE x.replay
      <4>1. <<y, x>> \in NoReplayBehind
        BY <1>2, <1>4, <2>1 DEF Line, Cross
      <4> QED BY <2>2, <3>1, <4>1 DEF NoReplayBehind, SameKey
    <3>2. CASE ~IsDownUp(x)
      BY <1>2, <2>2, <3>2 DEF KeptBlocked, SameKey, IsDownUp
    <3> QED BY <1>4, <2>1, <3>1, <3>2 DEF Passes
  <2> HIDE DEF x
  <2>3. \A y \in Range(blockedQueue_') : ~SameKey(x, y)
    BY <2>1, <2>2
  <2> QED
    BY <1>1, <1>2, <1>4, <2>1, <2>3, InLineFire DEF x
<1>6. ASSUME FireUnblocked PROVE InLine'
  <2> DEFINE q == Replayed(b) \o queue_
  <2>1. FireFront /\ DoFire(q) /\ blockedQueue_' = << >>
    BY <1>6 DEF FireUnblocked
  <2>2. Line(fired, << >>, q)
    BY <1>1, <1>2, LineReplay
  <2>3. q \in Seq(ItemType) /\ q # << >>
    BY <1>1, <1>4, <2>1, ReplayedType, ConcatProperties, LenProperties, EmptySeq
  <2> HIDE DEF q
  <2> QED
    BY <1>3, <2>1, <2>2, <2>3, InLineFire
<1>7. ASSUME ReleaseBlockingKey PROVE InLine'
  <2> DEFINE k == x.key
             i == LastDown(k) + 1
             c == InsertAt(b, i, x)
  <2>1. /\ FireFront /\ ~Passes
        /\ DoFire(Replayed(c) \o Tail(queue_)) /\ blockedQueue_' = << >>
    BY <1>7, Zenon DEF ReleaseBlockingKey, FrontItem
  <2>2. i \in 1..Len(b) + 1
    BY LastDownType
  <2>3. \A j \in DOMAIN b : b[j] \in Range(b) /\ b[j] \in ItemType
    BY <1>1, ElementOfSeq, LenProperties DEF Range
  <2>4. ASSUME NEW j \in DOMAIN b, j >= i PROVE <<x, b[j]>> \in Ordered
    <3>1. j > LastDown(k)
      <4>1. Len(b) \in Nat /\ DOMAIN b = 1..Len(b)
        BY <1>1, LenProperties
      <4>2. LastDown(k) \in Nat
        BY LastDownGreatest DEF TypeOK, BlockTypeOK
      <4> QED BY <2>4, <4>1, <4>2
    <3>2. ~SameKey(x, b[j])
      BY <1>4, <1>7, <2>1, <3>1 DEF OvertakesNone
    <3> QED BY <1>4, <2>1, <2>3, <3>2 DEF Ordered
  <2>5. \A j \in DOMAIN b : j < i => <<b[j], x>> \in Ordered
    BY <1>4, <2>1, <2>3
  <2> HIDE DEF i, k
  <2>6. c \in Seq(ItemType) /\ c # << >> /\ Range(c) = Range(b) \cup {x} /\ Fine(c, Ordered)
    <3>1. x \in ItemType /\ Fine(b, Ordered)
      BY <1>2, <1>4, <2>1 DEF Line
    <3> HIDE DEF x, b
    <3>2. b \in Seq(ItemType)
      BY <1>1
    <3>3. c \in Seq(ItemType) /\ c # << >>
      BY <2>2, <3>1, <3>2, InsertAtType
    <3> QED BY <2>2, <2>4, <2>5, <3>1, <3>2, <3>3, FineInsert
  <2>7. ~x.replay
    BY <2>1, <1>4 DEF Passes
  <2> HIDE DEF c
  <2> QED
    BY <1>2, <1>4, <2>1, <2>6, <2>7, InLineReplay DEF InLine
<1>8. ASSUME FireFront, ~Passes
      PROVE  LET c == Append(b, x)
             IN  c \in Seq(ItemType) /\ c # << >> /\ Range(c) = Range(b) \cup {x} /\ Fine(c, Ordered)
  <2>1. x \in ItemType /\ (\A y \in Range(b) : <<y, x>> \in Ordered) /\ Fine(b, Ordered)
    BY <1>2, <1>4, <1>8 DEF Line
  <2> HIDE DEF x
  <2> QED
    BY <1>1, <2>1, FineAppend, AppendProperties
<1>9. ASSUME ReleaseTappedKey PROVE InLine'
  <2> DEFINE c == Append(b, x)
  <2>1. FireFront /\ ~Passes /\ DoFire(Replayed(c) \o Tail(queue_)) /\ blockedQueue_' = << >>
    BY <1>9, Zenon DEF ReleaseTappedKey, FrontItem
  <2>2. c \in Seq(ItemType) /\ c # << >> /\ Range(c) = Range(b) \cup {x} /\ Fine(c, Ordered)
    BY <1>8, <2>1
  <2>3. ~x.replay
    BY <1>4, <2>1 DEF Passes
  <2> HIDE DEF c
  <2> QED
    BY <1>2, <1>4, <2>1, <2>2, <2>3, InLineReplay DEF InLine
<1>10. ASSUME Block PROVE InLine'
  <2> DEFINE c == Append(b, x)
  <2>1. FireFront /\ ~Passes /\ blockedQueue_' = c /\ queue_' = Tail(queue_) /\ fired' = fired
    BY <1>10 DEF Block, outVars, FrontItem
  <2>2. Range(c) = Range(b) \cup {x} /\ Fine(c, Ordered)
    BY <1>8, <2>1
  <2>3. ~x.replay
    BY <1>4, <2>1 DEF Passes
  <2> HIDE DEF c
  <2>4. Line(fired, c, Tail(queue_))
    BY <1>1, <1>2, <1>4, <2>1, <2>2, <2>3, LineBlock
  <2> QED
    BY <2>1, <2>4 DEF InLine
<1>11. ASSUME blockingTimeOut_timer_callback PROVE InLine'
  <2>1. queue_' = Replayed(b) \o queue_ /\ blockedQueue_' = << >> /\ fired' = fired
    BY <1>11 DEF blockingTimeOut_timer_callback, outVars
  <2>2. Line(fired, << >>, Replayed(b) \o queue_)
    BY <1>1, <1>2, LineReplay
  <2> QED
    BY <2>1, <2>2 DEF InLine
<1> QED
  BY <1>5, <1>6, <1>7, <1>9, <1>10, <1>11

\* Every step leaves the blocked events, empties them, or is Block.
LEMMA BlockedChanges ==
  ASSUME [Next]_vars
  PROVE  UNCHANGED blockedQueue_ \/ blockedQueue_' = << >> \/ Block
<1>1. CASE HardwareNext
  BY <1>1 DEF HardwareNext, push_KeyboardEventCallback, push_RelativePointerEventCallback,
              push_ScrollWheelEventCallback, Connect, Disconnect, SetConfig, blockVars
<1>2. CASE PushButton \/ PushMotion \/ RemoveBouncing \/ BouncingDone \/ SimultaneousRound
             \/ remap_SimultaneousKeyPresses \/ SimultaneousDone
  BY <1>2 DEF PushButton, PushMotion, RemoveBouncing, BouncingDone, SimultaneousRound,
              remap_SimultaneousKeyPresses, SimultaneousDone, blockVars
<1>3. CASE FirePassing \/ fire_timer_callback
  BY <1>3 DEF FirePassing, fire_timer_callback, blockVars
<1>4. CASE FireUnblocked \/ ReleaseBlockingKey \/ ReleaseTappedKey \/ blockingTimeOut_timer_callback
  BY <1>4 DEF FireUnblocked, ReleaseBlockingKey, ReleaseTappedKey, blockingTimeOut_timer_callback
<1>5. CASE UNCHANGED vars
  BY <1>5 DEF vars, blockVars
<1> QED
  BY <1>1, <1>2, <1>3, <1>4, <1>5, Zenon DEF Next, HandlerNext, TimerNext

\* Only presses and releases get blocked.
LEMMA KeptBlockedStep ==
  ASSUME TypeOK, KeptBlocked(blockedQueue_), [Next]_vars
  PROVE  KeptBlocked(blockedQueue_')
<1>1. ASSUME UNCHANGED blockedQueue_ PROVE KeptBlocked(blockedQueue_')
  BY <1>1
<1>2. ASSUME blockedQueue_' = << >> PROVE KeptBlocked(blockedQueue_')
  BY <1>2, FineShort DEF KeptBlocked
<1>3. CASE Block
  <2> DEFINE x == FrontItem
  <2>1. /\ FireFront /\ ~Passes
        /\ blockedQueue_' = Append(blockedQueue_, x)
    BY <1>3 DEF Block
  <2>2. x \in ItemType /\ blockedQueue_ \in Seq(ItemType)
    <3>1. x \in ItemType
      BY <2>1, FireFrontType
    <3>2. blockedQueue_ \in Seq(ItemType)
      BY DEF TypeOK, BlockTypeOK
    <3> QED BY <3>1, <3>2
  <2>3. IsDownUp(x)
    BY <2>1 DEF Passes, IsDownUp
  <2> HIDE DEF x
  <2>4. Range(Append(blockedQueue_, x)) = Range(blockedQueue_) \cup {x}
    BY <2>2, FineAppend
  <2> QED
    BY <2>1, <2>3, <2>4 DEF KeptBlocked
<1> QED
  BY <1>1, <1>2, <1>3, BlockedChanges

\* One step.
LEMMA InLineStep ==
  ASSUME TypeOK, Accounted, InLine, KeptBlocked(blockedQueue_), \A r \in DOMAIN Items : ~Items[r].raw,
         ReleaseBlockingKey => OvertakesNone, [Next]_vars
  PROVE  InLine' /\ KeptBlocked(blockedQueue_') /\ Accounted'
<1>1. ASSUME UNCHANGED vars PROVE InLine'
  BY <1>1 DEF InLine, vars, outVars, blockVars
<1>2. InLine'
  BY <1>1, InLineBefore, InLineFiring DEF Next, HandlerNext, TimerNext
<1>3. Accounted'
  <2>1. CASE UNCHANGED vars
    BY <2>1, AccountedUnchanged DEF vars, outVars, blockVars, clockVars
  <2> QED
    BY <2>1, AccountedBefore, AccountedFiring DEF Next, HandlerNext, TimerNext
<1> QED
  BY <1>2, <1>3, KeptBlockedStep

\* The first state.
LEMMA InLineInit ==
  ASSUME Init
  PROVE  InLine /\ KeptBlocked(blockedQueue_) /\ Accounted
<1>1. Range(<< >>) = {} /\ Fine(<< >>, Ordered) /\ Fine(<< >>, ReplayFirst)
  BY FineShort
<1>2. Hardware(<< >>) = {} /\ NoDuplicate(<< >>)
  BY IdsShort DEF Hardware
<1> QED
  BY <1>1, <1>2 DEF Init, InLine, Line, Cross, KeptBlocked, Accounted, Accounts

-----------------------------------------------------------------------------
(* While the configuration stays *)

\* No release of a blocking key is blocked.
BlocksNoRelease == \A x \in Range(blockedQueue_) : x.down \/ x.key \notin BlockKeys

\* What is put among the blocked events is no release of a blocking key.
LEMMA BlocksNoReleaseStep ==
  ASSUME TypeOK, BlocksNoRelease, blockTargets = BlockKeys, [Next]_vars
  PROVE  BlocksNoRelease'
<1>1. ASSUME UNCHANGED blockedQueue_ PROVE BlocksNoRelease'
  BY <1>1 DEF BlocksNoRelease
<1>2. ASSUME blockedQueue_' = << >> PROVE BlocksNoRelease'
  BY <1>2, FineShort DEF BlocksNoRelease
<1>3. CASE Block
  <2> DEFINE x == FrontItem
  <2>1. /\ FireFront
        /\ x.down \/ x.key \notin BlockKeys
        /\ blockedQueue_' = Append(blockedQueue_, x)
    BY <1>3 DEF Block
  <2>2. x \in ItemType /\ blockedQueue_ \in Seq(ItemType)
    <3>1. x \in ItemType
      BY <2>1, FireFrontType
    <3>2. blockedQueue_ \in Seq(ItemType)
      BY DEF TypeOK, BlockTypeOK
    <3> QED BY <3>1, <3>2
  <2> HIDE DEF x
  <2>3. Range(Append(blockedQueue_, x)) = Range(blockedQueue_) \cup {x}
    BY <2>2, FineAppend
  <2> QED
    BY <2>1, <2>3 DEF BlocksNoRelease
<1> QED
  BY <1>1, <1>2, <1>3, BlockedChanges

\* The blocking keys are the ones of the first configuration.
LEMMA TargetsStay ==
  ASSUME TypeOK, TypeOK', MaxToggles = 0 \/ BlockKeys = {}, blockTargets = BlockKeys, [Next]_vars
  PROVE  blockTargets' = BlockKeys
<1>1. CASE BlockKeys = {}
  BY <1>1 DEF TypeOK, ConfigTypeOK
<1>2. CASE MaxToggles = 0
  <2>1. ~SetConfig
    BY <1>2 DEF SetConfig, TypeOK, ConfigTypeOK
  <2>2. CASE HardwareNext
    <3>1. \A d \in Keyboards, k \in Keys, down, repeat \in BOOLEAN :
             push_KeyboardEventCallback(d, k, down, repeat) => UNCHANGED configVars
      BY DEF push_KeyboardEventCallback
    <3>2. \A d, B, moved : push_RelativePointerEventCallback(d, B, moved) => UNCHANGED configVars
      BY DEF push_RelativePointerEventCallback
    <3>3. \A d : push_ScrollWheelEventCallback(d) => UNCHANGED configVars
      BY DEF push_ScrollWheelEventCallback
    <3>4. \A d : Connect(d) \/ Disconnect(d) => UNCHANGED configVars
      BY DEF Connect, Disconnect
    <3>5. UNCHANGED configVars
      BY <2>1, <2>2, <3>1, <3>2, <3>3, <3>4, Zenon DEF HardwareNext
    <3> QED BY <3>5 DEF configVars
  <2>3. CASE PushButton \/ PushMotion \/ RemoveBouncing \/ BouncingDone \/ SimultaneousRound
               \/ remap_SimultaneousKeyPresses \/ SimultaneousDone \/ TimerNext
    BY <2>3 DEF PushButton, PushMotion, RemoveBouncing, BouncingDone, SimultaneousRound, TimerNext,
                remap_SimultaneousKeyPresses, SimultaneousDone, fire_timer_callback,
                blockingTimeOut_timer_callback, configVars
  <2>4. CASE FirePassing \/ FireUnblocked \/ ReleaseBlockingKey \/ ReleaseTappedKey \/ Block
    BY <2>4 DEF FirePassing, FireUnblocked, ReleaseBlockingKey, ReleaseTappedKey, Block, FireFront, configVars
  <2>5. CASE UNCHANGED vars
    BY <2>5 DEF vars, configVars
  <2> QED
    BY <2>2, <2>3, <2>4, <2>5, Zenon DEF Next, HandlerNext
<1> QED
  BY <1>1, <1>2

\* The invariant while the configuration of the blocking keys stays.
OrderInv ==
    InLine /\ KeptBlocked(blockedQueue_) /\ Accounted /\ BlocksNoRelease /\ blockTargets = BlockKeys

\* It is inductive with the types.
LEMMA OrderInvHolds ==
  ASSUME MaxToggles = 0 \/ BlockKeys = {}, \A r \in DOMAIN Items : ~Items[r].raw
  PROVE  Spec => []OrderInv
<1>1. Init => OrderInv
  <2> SUFFICES ASSUME Init PROVE OrderInv
    OBVIOUS
  <2>1. InLine /\ KeptBlocked(blockedQueue_) /\ Accounted
    BY InLineInit
  <2>2. BlocksNoRelease /\ blockTargets = BlockKeys
    BY FineShort DEF Init, BlocksNoRelease
  <2> QED
    BY <2>1, <2>2 DEF OrderInv
<1>2. TypeOK /\ TypeOK' /\ OrderInv /\ [Next]_vars => OrderInv'
  <2> SUFFICES ASSUME TypeOK, TypeOK', OrderInv, [Next]_vars PROVE OrderInv'
    OBVIOUS
  <2>1. ReleaseBlockingKey => OvertakesNone
    <3> SUFFICES ASSUME ReleaseBlockingKey, NEW j \in DOMAIN blockedQueue_, j > LastDown(FrontItem.key),
                        SameKey(FrontItem, blockedQueue_[j])
                 PROVE  FALSE
      BY DEF OvertakesNone
    <3>1. blockedQueue_ \in Seq(ItemType) /\ j \in Nat
      <4>1. blockedQueue_ \in Seq(ItemType)
        BY DEF TypeOK, BlockTypeOK
      <4> QED BY <4>1, LenProperties
    <3>2. blockedQueue_[j] \in Range(blockedQueue_) /\ blockedQueue_[j].key = FrontItem.key
      BY DEF Range, SameKey
    <3>3. FrontItem.key \in BlockKeys
      BY Zenon DEF ReleaseBlockingKey, OrderInv
    <3>4. blockedQueue_[j].down
      BY <3>2, <3>3 DEF OrderInv, BlocksNoRelease
    <3>5. LastDown(FrontItem.key) \in Nat /\ j <= LastDown(FrontItem.key)
      BY <3>1, <3>2, <3>4, LastDownGreatest
    <3> QED
      BY <3>1, <3>5
  <2>2. InLine' /\ KeptBlocked(blockedQueue_') /\ Accounted'
    BY <2>1, InLineStep DEF OrderInv
  <2> QED
    BY <2>2, BlocksNoReleaseStep, TargetsStay DEF OrderInv
<1> QED
  BY <1>1, <1>2, TypeCorrect, PTL DEF Spec

\* BlockUntilKeyUp and the bouncing filter reorder events of different keys only:
\* while the configuration stays (items may come and go if no key blocks), and no item
\* posts its keys as raw, the presses and releases of one key of one device reach the
\* remapper in the order of the hardware (EventInputQueue::fire_timer_callback,
\* BlockUntilKeyUpHandler::doBlockUntilKeyUp).
THEOREM KeyOrderFixedConfig ==
  ASSUME MaxToggles = 0 \/ BlockKeys = {}, \A r \in DOMAIN Items : ~Items[r].raw
  PROVE  Spec => []KeyOrder
<1>1. TypeOK /\ OrderInv => KeyOrder
  BY LineKeyOrder DEF TypeOK, OutTypeOK, BlockTypeOK, QueueTypeOK, OrderInv
<1> QED
  BY <1>1, OrderInvHolds, TypeCorrect, PTL

-----------------------------------------------------------------------------
(* Plain input, while the configuration changes.  What is accepted of one  *)
(* key of one device alternates: between two releases there is a press.    *)
(* A release that is blocked when its key starts to be a blocking key is   *)
(* thus followed by a press, behind which the next release is put.         *)

\* What a replay does not change of an event.
What(x) == [id |-> x.id, dev |-> x.dev, gen |-> x.gen, key |-> x.key, down |-> x.down]
Whats(s) == {What(x) : x \in Range(s)}

\* Every event that was accepted and not taken out.
Seen == Whats(fired) \cup Whats(blockedQueue_) \cup Whats(queue_)

EventType == [id : Nat, dev : Devices, gen : Nat, key : DownUps \cup {Motion}, down : BOOLEAN]

\* Between two releases of a key there is a press.
Alternating(S) ==
    \A x, y \in S : SameKey(x, y) /\ x.key # Motion /\ ~x.down /\ ~y.down /\ x.id < y.id
        => \E z \in S : SameKey(x, z) /\ z.down /\ x.id < z.id /\ z.id < y.id

\* After every release of key k of device d there is a press.
PressedSince(S, d, k) ==
    \A x \in S : x.dev = d /\ x.key = k /\ x.id > 0 /\ ~x.down
        => \E z \in S : SameKey(x, z) /\ z.down /\ x.id < z.id

\* What the report loop has handed on is down: the buttons before loop.at as in
\* the report, the others, and all keys, as before.
DownNow(d, k) ==
    IF pc = "buttons" /\ d = loop.dev /\ \E i \in DOMAIN Buttons : i < loop.at /\ Buttons[i] = k
    THEN k \in loop.buttons ELSE k \in held[d]

\* The last event of a key that is down is a press.
DownsPressed ==
    \A d \in Devices, k \in DownUps : DownNow(d, k) /\ <<d, k>> \notin Ignored => PressedSince(Seen, d, k)

\* The report loop is about a pointing device and its buttons.
ReportOfButtons ==
    pc = "buttons" => loop.dev \in Pointings /\ loop.buttons \subseteq {Buttons[i] : i \in DOMAIN Buttons}

\* The lists the set is made of.
LEMMA WhatsFacts ==
  /\ Whats(<< >>) = {}
  /\ \A s \in Seq(ItemType) : Whats(s) \subseteq EventType
  /\ \A s \in Seq(ItemType), x \in ItemType : Whats(Append(s, x)) = Whats(s) \cup {What(x)}
  /\ \A s, t \in Seq(ItemType) : Whats(s \o t) = Whats(s) \cup Whats(t)
  /\ \A s \in Seq(ItemType) : s # << >> => Whats(s) = {What(Head(s))} \cup Whats(Tail(s))
  /\ \A s \in Seq(ItemType) : Whats(Replayed(s)) = Whats(s)
<1>1. Whats(<< >>) = {}
  BY FineShort DEF Whats
<1>2. ASSUME NEW s \in Seq(ItemType) PROVE Whats(s) \subseteq EventType
  <2>1. \A x \in ItemType : What(x) \in EventType
    BY DEF What, ItemType, EventType
  <2> QED BY <2>1, RangeItems DEF Whats
<1>3. ASSUME NEW s \in Seq(ItemType), NEW x \in ItemType PROVE Whats(Append(s, x)) = Whats(s) \cup {What(x)}
  <2>1. Range(Append(s, x)) = Range(s) \cup {x}
    BY FineAppend
  <2> QED BY <2>1 DEF Whats
<1>4. ASSUME NEW s \in Seq(ItemType), NEW t \in Seq(ItemType) PROVE Whats(s \o t) = Whats(s) \cup Whats(t)
  BY RangeConcatenation DEF Whats
<1>5. ASSUME NEW s \in Seq(ItemType), s # << >> PROVE Whats(s) = {What(Head(s))} \cup Whats(Tail(s))
  <2>1. Range(s) = {Head(s)} \cup Range(Tail(s))
    BY <1>5, FineHeadTail
  <2> QED BY <2>1 DEF Whats
<1>6. ASSUME NEW s \in Seq(ItemType) PROVE Whats(Replayed(s)) = Whats(s)
  <2> DEFINE Mark(x) == [x EXCEPT !.replay = TRUE]
  <2>1. Range(Replayed(s)) = {Mark(x) : x \in Range(s)}
    BY RangeReplayed
  <2>2. \A x \in ItemType : What(Mark(x)) = What(x)
    BY DEF What, ItemType
  <2> HIDE DEF Mark
  <2>3. \A x \in Range(s) : What(Mark(x)) = What(x)
    BY <2>2, RangeItems
  <2> QED BY <2>1, <2>3 DEF Whats
<1> QED
  BY <1>1, <1>2, <1>3, <1>4, <1>5, <1>6

\* doFire hands the front of its queue on.
LEMMA SeenFire ==
  ASSUME TypeOK, NEW q \in Seq(ItemType), q # << >>, DoFire(q)
  PROVE  Whats(fired') \cup Whats(queue_') = Whats(fired) \cup Whats(q)
<1>1. fired \in Seq(ItemType) /\ Head(q) \in ItemType
  BY HeadTailProperties DEF TypeOK, OutTypeOK
<1>2. queue_' = Tail(q) /\ fired' = Append(fired, Head(q))
  BY Zenon DEF DoFire
<1>3. Whats(Append(fired, Head(q))) = Whats(fired) \cup {What(Head(q))}
  BY <1>1, WhatsFacts
<1>4. Whats(q) = {What(Head(q))} \cup Whats(Tail(q))
  BY WhatsFacts
<1> QED
  BY <1>2, <1>3, <1>4

\* Firing, blocking and replaying move the events.
LEMMA SeenFiring ==
  ASSUME TypeOK,
         FirePassing \/ FireUnblocked \/ ReleaseBlockingKey \/ ReleaseTappedKey \/ Block \/ blockingTimeOut_timer_callback
  PROVE  Seen' = Seen
<1> DEFINE x == Head(queue_)
           b == blockedQueue_
           t == Tail(queue_)
<1>1. fired \in Seq(ItemType) /\ b \in Seq(ItemType) /\ queue_ \in Seq(ItemType)
  BY DEF TypeOK, OutTypeOK, BlockTypeOK, QueueTypeOK
<1>2. Whats(<< >>) = {}
  BY WhatsFacts
<1>3. ASSUME FireFront
      PROVE  /\ queue_ # << >> /\ x \in ItemType /\ t \in Seq(ItemType) /\ FrontItem = x
             /\ Whats(queue_) = {What(x)} \cup Whats(t)
  <2>1. queue_ # << >>
    BY <1>3 DEF FireFront
  <2>2. x \in ItemType /\ t \in Seq(ItemType)
    BY <1>1, <2>1, IdsHeadTail
  <2>3. Whats(queue_) = {What(x)} \cup Whats(t)
    BY <1>1, <2>1, WhatsFacts
  <2> QED BY <2>1, <2>2, <2>3 DEF FrontItem
<1>4. ASSUME FireFront, NEW c \in Seq(ItemType), c # << >>, Whats(c) = Whats(b) \cup {What(x)},
             DoFire(Replayed(c) \o t), blockedQueue_' = << >>
      PROVE  Seen' = Seen
  <2> DEFINE p == Replayed(c)
             q == p \o t
  <2>1. p \in Seq(ItemType) /\ Len(p) = Len(c) /\ Len(c) \in Nat \ {0}
    BY <1>4, ReplayedType, EmptySeq, LenProperties
  <2>2. Whats(p) = Whats(c) /\ t \in Seq(ItemType)
    BY <1>3, <1>4, WhatsFacts
  <2> HIDE DEF p, t
  <2>3. q \in Seq(ItemType) /\ Len(q) = Len(p) + Len(t) /\ Len(t) \in Nat /\ Whats(q) = Whats(p) \cup Whats(t)
    BY <2>1, <2>2, ConcatProperties, LenProperties, WhatsFacts
  <2>4. q # << >>
    <3>1. Len(q) # 0
      BY <2>1, <2>3
    <3> QED BY <2>3, <3>1, EmptySeq
  <2>5. DoFire(q)
    BY <1>4 DEF p, t
  <2> HIDE DEF q
  <2>6. Whats(fired') \cup Whats(queue_') = Whats(fired) \cup Whats(q)
    BY <2>3, <2>4, <2>5, SeenFire
  <2> QED
    BY <1>2, <1>3, <1>4, <2>2, <2>3, <2>6 DEF Seen
<1>5. ASSUME FirePassing PROVE Seen' = Seen
  <2>1. FireFront /\ DoFire(queue_) /\ blockedQueue_' = b
    BY <1>5 DEF FirePassing, blockVars
  <2>2. Whats(fired') \cup Whats(queue_') = Whats(fired) \cup Whats(queue_)
    BY <1>1, <1>3, <2>1, SeenFire
  <2> QED
    BY <2>1, <2>2 DEF Seen
<1>6. ASSUME FireUnblocked PROVE Seen' = Seen
  <2> DEFINE p == Replayed(b)
             q == p \o queue_
  <2>1. FireFront /\ DoFire(q) /\ blockedQueue_' = << >>
    BY <1>6 DEF FireUnblocked
  <2>2. p \in Seq(ItemType) /\ Whats(p) = Whats(b)
    BY <1>1, ReplayedType, WhatsFacts
  <2> HIDE DEF p
  <2>3. q \in Seq(ItemType) /\ q # << >> /\ Whats(q) = Whats(p) \cup Whats(queue_)
    BY <1>1, <1>3, <2>1, <2>2, ConcatProperties, LenProperties, EmptySeq, WhatsFacts
  <2> HIDE DEF q
  <2>4. Whats(fired') \cup Whats(queue_') = Whats(fired) \cup Whats(q)
    BY <2>1, <2>3, SeenFire
  <2> QED
    BY <1>2, <2>1, <2>2, <2>3, <2>4 DEF Seen
<1>7. ASSUME ReleaseBlockingKey PROVE Seen' = Seen
  <2> DEFINE i == LastDown(x.key) + 1
             c == InsertAt(b, i, x)
             R == ItemType \X ItemType
  <2>1. /\ FireFront /\ DoFire(Replayed(c) \o t) /\ blockedQueue_' = << >>
    BY <1>7, Zenon DEF ReleaseBlockingKey, FrontItem
  <2>2. i \in 1..Len(b) + 1
    BY LastDownType
  <2>3. \A j \in DOMAIN b : b[j] \in ItemType
    BY <1>1, ElementOfSeq, LenProperties
  <2>4. /\ Fine(b, R)
        /\ \A j \in DOMAIN b : j < i => <<b[j], x>> \in R
        /\ \A j \in DOMAIN b : j >= i => <<x, b[j]>> \in R
    BY <1>3, <2>1, <2>3 DEF Fine
  <2> HIDE DEF i, R
  <2>5. c \in Seq(ItemType) /\ c # << >> /\ Range(c) = Range(b) \cup {x}
    <3>1. x \in ItemType
      BY <1>3, <2>1
    <3> HIDE DEF x, b
    <3> QED BY <1>1, <2>2, <2>4, <3>1, InsertAtType, FineInsert
  <2> HIDE DEF c
  <2>6. Whats(c) = Whats(b) \cup {What(x)}
    BY <2>5 DEF Whats
  <2> QED
    BY <1>4, <2>1, <2>5, <2>6
<1>8. ASSUME FireFront
      PROVE  LET c == Append(b, x) IN c \in Seq(ItemType) /\ c # << >> /\ Whats(c) = Whats(b) \cup {What(x)}
  <2>1. x \in ItemType
    BY <1>3, <1>8
  <2> HIDE DEF x
  <2> QED BY <1>1, <2>1, AppendProperties, WhatsFacts
<1>9. ASSUME ReleaseTappedKey PROVE Seen' = Seen
  <2> DEFINE c == Append(b, x)
  <2>1. FireFront /\ DoFire(Replayed(c) \o t) /\ blockedQueue_' = << >>
    BY <1>9, Zenon DEF ReleaseTappedKey, FrontItem
  <2>2. c \in Seq(ItemType) /\ c # << >> /\ Whats(c) = Whats(b) \cup {What(x)}
    BY <1>8, <2>1
  <2> HIDE DEF c
  <2> QED
    BY <1>4, <2>1, <2>2
<1>10. ASSUME Block PROVE Seen' = Seen
  <2> DEFINE c == Append(b, x)
  <2>1. FireFront /\ blockedQueue_' = c /\ queue_' = t /\ fired' = fired
    BY <1>10 DEF Block, outVars, FrontItem
  <2>2. Whats(c) = Whats(b) \cup {What(x)} /\ Whats(queue_) = {What(x)} \cup Whats(t)
    BY <1>3, <1>8, <2>1
  <2> HIDE DEF c, t
  <2> QED
    BY <2>1, <2>2 DEF Seen
<1>11. ASSUME blockingTimeOut_timer_callback PROVE Seen' = Seen
  <2>1. queue_' = Replayed(b) \o queue_ /\ blockedQueue_' = << >> /\ fired' = fired
    BY <1>11 DEF blockingTimeOut_timer_callback, outVars
  <2>2. Whats(Replayed(b) \o queue_) = Whats(b) \cup Whats(queue_)
    BY <1>1, ReplayedType, WhatsFacts
  <2> QED
    BY <1>2, <2>1, <2>2 DEF Seen
<1> QED
  BY <1>5, <1>6, <1>7, <1>9, <1>10, <1>11

\* The newest event keeps the presses between the releases.
LEMMA AlternatingPush ==
  ASSUME NEW S \in SUBSET EventType, NEW w \in EventType, \A x \in S : x.id < w.id, Alternating(S),
         w.key = Motion \/ w.down \/ PressedSince(S, w.dev, w.key)
  PROVE  Alternating(S \cup {w})
<1> SUFFICES ASSUME NEW x \in S \cup {w}, NEW y \in S \cup {w}, SameKey(x, y), x.key # Motion,
                    ~x.down, ~y.down, x.id < y.id
             PROVE  \E z \in S \cup {w} : SameKey(x, z) /\ z.down /\ x.id < z.id /\ z.id < y.id
  BY DEF Alternating
<1>1. x.id \in Nat /\ y.id \in Nat /\ w.id \in Nat
  BY DEF EventType
<1>2. x \in S
  BY <1>1
<1>3. CASE y \in S
  BY <1>2, <1>3 DEF Alternating
<1>4. CASE y = w
  <2>1. x.dev = w.dev /\ x.key = w.key /\ x.id > 0
    BY <1>4 DEF SameKey
  <2>2. PICK z \in S : SameKey(x, z) /\ z.down /\ x.id < z.id
    BY <1>2, <1>4, <2>1 DEF PressedSince
  <2> QED
    BY <1>4, <2>2
<1> QED
  BY <1>3, <1>4

\* What the newest event says of the key that is down.
LEMMA PressedSincePush ==
  ASSUME NEW S \in SUBSET EventType, NEW w \in EventType, w.id > 0, \A x \in S : x.id < w.id
  PROVE  /\ w.down => PressedSince(S \cup {w}, w.dev, w.key)
         /\ \A d, k : (w.dev # d \/ w.key # k) /\ PressedSince(S, d, k) => PressedSince(S \cup {w}, d, k)
<1>1. ASSUME w.down PROVE PressedSince(S \cup {w}, w.dev, w.key)
  <2> SUFFICES ASSUME NEW x \in S \cup {w}, x.dev = w.dev, x.key = w.key, x.id > 0, ~x.down
               PROVE  \E z \in S \cup {w} : SameKey(x, z) /\ z.down /\ x.id < z.id
    BY DEF PressedSince
  <2>1. x \in S
    BY <1>1
  <2>2. SameKey(x, w) /\ w.down /\ x.id < w.id
    BY <1>1, <2>1 DEF SameKey
  <2> QED
    BY <2>2
<1>2. ASSUME NEW d, NEW k, w.dev # d \/ w.key # k, PressedSince(S, d, k)
      PROVE  PressedSince(S \cup {w}, d, k)
  BY <1>2 DEF PressedSince
<1> QED
  BY <1>1, <1>2

\* An event of the hardware is appended to the queue.
LEMMA PlainPush ==
  ASSUME TypeOK, Accounted, Alternating(Seen), NEW since \in Nat, NEW d \in Devices,
         NEW k \in DownUps \cup {Motion}, NEW down \in BOOLEAN,
         k = Motion \/ down \/ PressedSince(Seen, d, k),
         queue_' = Append(queue_, NewItem(lastId + 1, since, d, k, down)),
         UNCHANGED <<fired, blockedQueue_>>
  PROVE  /\ Alternating(Seen')
         /\ down => PressedSince(Seen', d, k)
         /\ \A e, l : (d # e \/ k # l) /\ PressedSince(Seen, e, l) => PressedSince(Seen', e, l)
<1> DEFINE x == NewItem(lastId + 1, since, d, k, down)
           w == What(x)
<1>1. lastId \in Nat /\ gen[d] \in Nat
  BY DEF TypeOK, ClockTypeOK, DeviceTypeOK
<1>2. x \in ItemType
  BY <1>1 DEF NewItem, ItemType
<1>3. w \in EventType /\ w.id = lastId + 1 /\ w.id > 0 /\ w.dev = d /\ w.key = k /\ w.down = down
  BY <1>1 DEF NewItem, What, EventType
<1>4. fired \in Seq(ItemType) /\ blockedQueue_ \in Seq(ItemType) /\ queue_ \in Seq(ItemType)
  BY DEF TypeOK, OutTypeOK, BlockTypeOK, QueueTypeOK
<1>5. queue_' = Append(queue_, x)
  OBVIOUS
<1> HIDE DEF x
<1>6. Whats(Append(queue_, x)) = Whats(queue_) \cup {w}
  BY <1>2, <1>4, WhatsFacts
<1>7. Seen' = Seen \cup {w}
  BY <1>5, <1>6 DEF Seen
<1>8. Seen \in SUBSET EventType
  BY <1>4, WhatsFacts DEF Seen
<1>9. \A y \in Seen : y.id < w.id
  BY <1>3, OlderThanNext DEF Seen, Whats, What
<1> HIDE DEF w
<1>10. Alternating(Seen \cup {w})
  BY <1>3, <1>8, <1>9, AlternatingPush
<1>11. /\ w.down => PressedSince(Seen \cup {w}, w.dev, w.key)
       /\ \A e, l : (w.dev # e \/ w.key # l) /\ PressedSince(Seen, e, l) => PressedSince(Seen \cup {w}, e, l)
  BY <1>3, <1>8, <1>9, PressedSincePush
<1> QED
  BY <1>3, <1>7, <1>10, <1>11

\* The presses and releases accepted, and what is down.
Alternates == Alternating(Seen) /\ DownsPressed /\ ReportOfButtons /\ pc # "bounce"

\* A step that accepts nothing and presses nothing.
LEMMA AlternatesKept ==
  ASSUME Alternates, Seen' = Seen, \A d \in Devices, k \in DownUps : DownNow(d, k)' => DownNow(d, k),
         ReportOfButtons', pc' # "bounce"
  PROVE  Alternates'
<1>1. Alternating(Seen')
  BY DEF Alternates
<1>2. ASSUME NEW d \in Devices, NEW k \in DownUps, DownNow(d, k)', <<d, k>> \notin Ignored
      PROVE  PressedSince(Seen', d, k)
  <2>1. DownNow(d, k)
    BY <1>2
  <2> QED
    BY <1>2, <2>1 DEF Alternates, DownsPressed
<1> QED
  BY <1>1, <1>2 DEF Alternates, DownsPressed

\* A step that accepts an event: only its key may come down, by a press.
LEMMA AlternatesPushed ==
  ASSUME Alternates, TypeOK, Accounted, NEW since \in Nat, NEW d \in Devices,
         NEW k \in DownUps \cup {Motion}, NEW down \in BOOLEAN,
         k = Motion \/ down \/ PressedSince(Seen, d, k),
         queue_' = Append(queue_, NewItem(lastId + 1, since, d, k, down)),
         UNCHANGED <<fired, blockedQueue_>>,
         \A e \in Devices, l \in DownUps : DownNow(e, l)' => IF e = d /\ l = k THEN down ELSE DownNow(e, l),
         ReportOfButtons', pc' # "bounce"
  PROVE  Alternates'
<1>1. /\ Alternating(Seen')
      /\ down => PressedSince(Seen', d, k)
      /\ \A e, l : (d # e \/ k # l) /\ PressedSince(Seen, e, l) => PressedSince(Seen', e, l)
  BY PlainPush DEF Alternates
<1>2. ASSUME NEW e \in Devices, NEW l \in DownUps, DownNow(e, l)', <<e, l>> \notin Ignored
      PROVE  PressedSince(Seen', e, l)
  <2>1. CASE e = d /\ l = k
    BY <1>1, <1>2, <2>1
  <2>2. CASE e # d \/ l # k
    <3>1. DownNow(e, l)
      BY <1>2, <2>2
    <3>2. PressedSince(Seen, e, l)
      BY <1>2, <3>1 DEF Alternates, DownsPressed
    <3> QED
      BY <1>1, <2>2, <3>2
  <2> QED
    BY <2>1, <2>2
<1> QED
  BY <1>1, <1>2 DEF Alternates, DownsPressed

\* A key of a keyboard goes down or up.
LEMMA AlternatesKeyboard ==
  ASSUME Alternates, TypeOK, Accounted, ~disable_internal_keyboard, NEW d \in Keyboards, NEW k \in Keys,
         NEW down \in BOOLEAN, NEW repeat \in BOOLEAN, push_KeyboardEventCallback(d, k, down, repeat)
  PROVE  Alternates'
<1>1. d \in Devices /\ k \in DownUps /\ held \in [Devices -> SUBSET DownUps]
  BY DEF Devices, DownUps, TypeOK, DeviceTypeOK
<1>2. /\ pc = "idle" /\ pc' = "idle" /\ UNCHANGED <<fired, blockedQueue_>>
      /\ (k \in held[d]) <=> (repeat \/ ~down)
      /\ held' = [held EXCEPT ![d] = IF down THEN @ \cup {k} ELSE @ \ {k}]
  BY DEF push_KeyboardEventCallback, outVars, blockVars
<1>3. ReportOfButtons'
  BY <1>2 DEF ReportOfButtons
<1>4. \A e \in Devices, l \in DownUps : DownNow(e, l) = (l \in held[e]) /\ DownNow(e, l)' = (l \in held'[e])
  BY <1>2 DEF DownNow
<1>5. \A e \in Devices, l \in DownUps : l \in held'[e] => IF e = d /\ l = k THEN down ELSE l \in held[e]
  BY <1>1, <1>2
<1>6. CASE (<<d, k>> \in Ignored \/ (repeat /\ down)) /\ UNCHANGED queue_
  <2>1. Seen' = Seen
    BY <1>2, <1>6 DEF Seen
  <2>2. CASE repeat /\ down
    <3>1. \A e \in Devices, l \in DownUps : l \in held'[e] => l \in held[e]
      BY <1>1, <1>2, <2>2
    <3> QED
      BY <1>2, <1>3, <1>4, <2>1, <3>1, AlternatesKept
  <2>3. CASE <<d, k>> \in Ignored
    <3>1. Alternating(Seen') /\ pc' # "bounce"
      BY <1>2, <2>1 DEF Alternates
    <3>2. ASSUME NEW e \in Devices, NEW l \in DownUps, DownNow(e, l)', <<e, l>> \notin Ignored
          PROVE  PressedSince(Seen', e, l)
      <4>1. DownNow(e, l)
        BY <1>4, <1>5, <2>3, <3>2
      <4> QED
        BY <2>1, <3>2, <4>1 DEF Alternates, DownsPressed
    <3> QED
      BY <1>3, <3>1, <3>2 DEF Alternates, DownsPressed
  <2> QED
    BY <1>6, <2>2, <2>3
<1>7. CASE /\ <<d, k>> \notin Ignored
           /\ \E since \in Sinces(k, down) : queue_' = Append(queue_, NewItem(lastId + 1, since, d, k, down))
  <2>1. PICK since \in Sinces(k, down) : queue_' = Append(queue_, NewItem(lastId + 1, since, d, k, down))
    BY <1>7
  <2>2. since \in Nat
    BY SincesType
  <2>3. down \/ PressedSince(Seen, d, k)
    <3>1. ASSUME ~down PROVE PressedSince(Seen, d, k)
      <4>1. DownNow(d, k)
        BY <1>1, <1>2, <1>4, <3>1
      <4> QED
        BY <1>1, <1>7, <4>1 DEF Alternates, DownsPressed
    <3> QED
      BY <3>1
  <2>4. \A e \in Devices, l \in DownUps : DownNow(e, l)' => IF e = d /\ l = k THEN down ELSE DownNow(e, l)
    BY <1>4, <1>5
  <2>5. k \in DownUps \cup {Motion} /\ pc' # "bounce"
    BY <1>1, <1>2
  <2> QED
    BY <1>1, <1>2, <1>3, <2>1, <2>2, <2>3, <2>4, <2>5, AlternatesPushed
<1>8. ~InternalDisabled
  BY DEF InternalDisabled
<1>9. \/ (<<d, k>> \in Ignored \/ (repeat /\ down)) /\ UNCHANGED queue_
      \/ /\ <<d, k>> \notin Ignored
         /\ \E since \in Sinces(k, down) : queue_' = Append(queue_, NewItem(lastId + 1, since, d, k, down))
  BY <1>8, Zenon DEF push_KeyboardEventCallback
<1> QED
  BY <1>6, <1>7, <1>9

\* The report loop goes on, or ends.
LEMMA AlternatesButtons ==
  ASSUME Alternates, TypeOK, Accounted, PushButton \/ PushMotion
  PROVE  Alternates'
<1> DEFINE d == loop.dev
           B == loop.buttons
           Before(k) == \E i \in DOMAIN Buttons : i < loop.at /\ Buttons[i] = k
<1>1. /\ pc = "buttons" /\ d \in Pointings /\ d \in Devices /\ B \subseteq {Buttons[i] : i \in DOMAIN Buttons}
      /\ loop \in LoopType /\ loop.at \in Nat /\ loop.at > 0 /\ held \in [Devices -> SUBSET DownUps]
  <2>1. pc = "buttons" /\ loop \in LoopType /\ held \in [Devices -> SUBSET DownUps]
    BY DEF PushButton, PushMotion, TypeOK, HandlerTypeOK, DeviceTypeOK
  <2>2. d \in Pointings /\ B \subseteq {Buttons[i] : i \in DOMAIN Buttons}
    BY <2>1 DEF Alternates, ReportOfButtons
  <2>3. loop.at \in Nat /\ loop.at > 0
    BY <2>1 DEF TypeOK, HandlerTypeOK, LoopType
  <2> QED
    BY <2>1, <2>2, <2>3 DEF Devices
<1>2. Buttons \in Seq({Buttons[i] : i \in DOMAIN Buttons}) /\ DOMAIN Buttons = 1..Len(Buttons) /\ Len(Buttons) \in Nat
  BY ConstantsAssumption, LenProperties
<1>3. \A e \in Devices, l \in DownUps : DownNow(e, l) <=> IF e = d /\ Before(l) THEN l \in B ELSE l \in held[e]
  BY <1>1 DEF DownNow
<1>4. CASE PushButton
  <2> DEFINE btn == Buttons[loop.at]
             pressed == btn \in B
  <2>1. /\ loop.at \in DOMAIN Buttons /\ pc' = pc /\ UNCHANGED <<fired, blockedQueue_, held>>
        /\ loop' = [loop EXCEPT !.at = @ + 1]
    BY <1>1, <1>2, <1>4 DEF PushButton, outVars, blockVars, deviceVars
  <2>2. loop'.dev = d /\ loop'.buttons = B /\ loop'.at = loop.at + 1
    BY <1>1, <2>1 DEF LoopType
  <2>3. btn \in DownUps /\ btn \in DownUps \cup {Motion} /\ btn # Motion /\ <<d, btn>> \notin Ignored
    BY <1>1, <2>1, ConstantsAssumption DEF DownUps
  <2>4. ~Before(btn)
    BY <1>1, <1>2, <2>1, ConstantsAssumption
  <2>5. \A k : (\E i \in DOMAIN Buttons : i < loop.at + 1 /\ Buttons[i] = k) <=> Before(k) \/ k = btn
    <3> SUFFICES ASSUME NEW k
                 PROVE  (\E i \in DOMAIN Buttons : i < loop.at + 1 /\ Buttons[i] = k) <=> Before(k) \/ k = btn
      OBVIOUS
    <3>1. ASSUME NEW i \in DOMAIN Buttons PROVE i < loop.at + 1 <=> i < loop.at \/ i = loop.at
      BY <1>1, <1>2
    <3> QED
      BY <2>1, <3>1
  <2> HIDE DEF Before
  <2>6. \A e \in Devices, l \in DownUps :
           DownNow(e, l)' <=> IF e = d /\ (Before(l) \/ l = btn) THEN l \in B ELSE l \in held[e]
    <3> SUFFICES ASSUME NEW e \in Devices, NEW l \in DownUps
                 PROVE  DownNow(e, l)' <=> IF e = d /\ (Before(l) \/ l = btn) THEN l \in B ELSE l \in held[e]
      OBVIOUS
    <3>1. DownNow(e, l)' = IF e = d /\ \E i \in DOMAIN Buttons : i < loop.at + 1 /\ Buttons[i] = l
                           THEN l \in B ELSE l \in held[e]
      BY <1>1, <2>1, <2>2 DEF DownNow
    <3> QED
      BY <2>5, <3>1
  <2>7. ReportOfButtons' /\ pc' # "bounce"
    BY <1>1, <2>1, <2>2 DEF ReportOfButtons
  <2>8. pressed \in BOOLEAN
    OBVIOUS
  <2>9. CASE pressed = (btn \in held[d]) /\ UNCHANGED queue_
    <3>1. Seen' = Seen
      BY <2>1, <2>9 DEF Seen
    <3>2. \A e \in Devices, l \in DownUps : DownNow(e, l)' => DownNow(e, l)
      BY <1>3, <2>4, <2>6, <2>9
    <3> QED
      BY <2>7, <3>1, <3>2, AlternatesKept
  <2>10. CASE /\ pressed # (btn \in held[d])
              /\ \E since \in Sinces(btn, pressed) : queue_' = Append(queue_, NewItem(lastId + 1, since, d, btn, pressed))
    <3>1. PICK since \in Sinces(btn, pressed) : queue_' = Append(queue_, NewItem(lastId + 1, since, d, btn, pressed))
      BY <2>10
    <3>2. since \in Nat
      BY SincesType
    <3>3. pressed \/ PressedSince(Seen, d, btn)
      <4>1. ASSUME ~pressed PROVE PressedSince(Seen, d, btn)
        <5>1. DownNow(d, btn)
          BY <1>1, <1>3, <2>3, <2>4, <2>10, <4>1
        <5> QED
          BY <1>1, <2>3, <5>1 DEF Alternates, DownsPressed
      <4> QED
        BY <4>1
    <3>4. \A e \in Devices, l \in DownUps : DownNow(e, l)' => IF e = d /\ l = btn THEN pressed ELSE DownNow(e, l)
      BY <1>3, <2>6
    <3> HIDE DEF pressed, btn, d
    <3>5. d \in Devices
      BY <1>1
    <3>6. UNCHANGED <<fired, blockedQueue_>>
      BY <2>1
    <3> QED
      BY <2>3, <2>7, <2>8, <3>1, <3>2, <3>3, <3>4, <3>5, <3>6, AlternatesPushed
  <2>11. \/ pressed = (btn \in held[d]) /\ UNCHANGED queue_
         \/ /\ pressed # (btn \in held[d])
            /\ \E since \in Sinces(btn, pressed) : queue_' = Append(queue_, NewItem(lastId + 1, since, d, btn, pressed))
    BY <1>4, Zenon DEF PushButton
  <2> QED
    BY <2>9, <2>10, <2>11
<1>5. CASE PushMotion
  <2>1. /\ loop.at > Len(Buttons) /\ pc' = "idle" /\ UNCHANGED <<fired, blockedQueue_>>
        /\ held' = [held EXCEPT ![d] = B]
    BY <1>5 DEF PushMotion, outVars, blockVars
  <2>2. \A l \in B : Before(l)
    BY <1>1, <1>2, <2>1
  <2>3. \A e \in Devices, l \in DownUps : DownNow(e, l)' <=> l \in held'[e]
    BY <2>1 DEF DownNow
  <2> HIDE DEF Before
  <2>4. \A e \in Devices, l \in DownUps : DownNow(e, l)' => DownNow(e, l)
    BY <1>1, <1>3, <2>1, <2>2, <2>3
  <2>5. ReportOfButtons' /\ pc' # "bounce"
    BY <2>1 DEF ReportOfButtons
  <2>6. CASE UNCHANGED queue_
    <3>1. Seen' = Seen
      BY <2>1, <2>6 DEF Seen
    <3> QED
      BY <2>4, <2>5, <3>1, AlternatesKept
  <2>7. CASE queue_' = Append(queue_, NewItem(lastId + 1, 0, d, Motion, FALSE))
    <3>1. Motion \in DownUps \cup {Motion} /\ 0 \in Nat /\ FALSE \in BOOLEAN
      OBVIOUS
    <3>2. \A e \in Devices, l \in DownUps : DownNow(e, l)' => IF e = d /\ l = Motion THEN FALSE ELSE DownNow(e, l)
      BY <2>4, ConstantsAssumption
    <3> HIDE DEF d
    <3>3. d \in Devices
      BY <1>1
    <3>4. UNCHANGED <<fired, blockedQueue_>>
      BY <2>1
    <3> DEFINE k == Motion
    <3>5. /\ k = Motion /\ k \in DownUps \cup {Motion}
          /\ queue_' = Append(queue_, NewItem(lastId + 1, 0, d, k, FALSE))
          /\ \A e \in Devices, l \in DownUps : DownNow(e, l)' => IF e = d /\ l = k THEN FALSE ELSE DownNow(e, l)
      BY <2>7, <3>2
    <3> HIDE DEF k
    <3> QED
      BY <2>5, <3>1, <3>3, <3>4, <3>5, AlternatesPushed
  <2> QED
    BY <1>5, <2>6, <2>7, Zenon DEF PushMotion
<1> QED
  BY <1>4, <1>5

\* A step of no handler that fires, blocks or replays, and accepts no event.
LEMMA AlternatesIdle ==
  ASSUME Alternates, UNCHANGED <<fired, blockedQueue_, queue_>>, pc # "buttons", pc' \notin {"buttons", "bounce"},
         \A d \in Devices : held'[d] \subseteq held[d]
  PROVE  Alternates'
<1>1. Seen' = Seen
  BY DEF Seen
<1>2. \A d \in Devices, k \in DownUps : DownNow(d, k)' => DownNow(d, k)
  BY DEF DownNow
<1>3. ReportOfButtons' /\ pc' # "bounce"
  BY DEF ReportOfButtons
<1> QED
  BY <1>1, <1>2, <1>3, AlternatesKept

\* One step.
LEMMA AlternatesStep ==
  ASSUME Items = << >>, ~ignore_bouncing_events, ~disable_internal_keyboard,
         Alternates, TypeOK, Accounted, [Next]_vars
  PROVE  Alternates'
<1>0. held \in [Devices -> SUBSET DownUps] /\ pc # "bounce"
  BY DEF TypeOK, DeviceTypeOK, Alternates
<1>1. ASSUME NEW d \in Pointings, NEW B \in SUBSET {Buttons[i] : i \in DOMAIN Buttons}, NEW moved \in BOOLEAN,
             push_RelativePointerEventCallback(d, B, moved)
      PROVE  Alternates'
  <2>1. /\ pc = "idle" /\ pc' = "buttons" /\ UNCHANGED <<fired, blockedQueue_, queue_, held>>
        /\ loop' = [NoLoop EXCEPT !.at = 1, !.dev = d, !.buttons = B, !.moved = moved]
    BY <1>1 DEF push_RelativePointerEventCallback, outVars, blockVars, deviceVars
  <2>2. loop'.at = 1 /\ loop'.dev = d /\ loop'.buttons = B
    BY <2>1 DEF NoLoop
  <2>3. \A i \in DOMAIN Buttons : ~(i < 1)
    BY ConstantsAssumption, LenProperties
  <2>4. \A e \in Devices, l \in DownUps : DownNow(e, l)' => DownNow(e, l)
    BY <2>1, <2>2, <2>3 DEF DownNow
  <2>5. Seen' = Seen /\ ReportOfButtons' /\ pc' # "bounce"
    BY <2>1, <2>2 DEF Seen, ReportOfButtons
  <2> QED
    BY <2>4, <2>5, AlternatesKept
<1>2. ASSUME NEW d \in Pointings, push_ScrollWheelEventCallback(d) PROVE Alternates'
  <2> DEFINE k == Motion
  <2>1. /\ pc = "idle" /\ pc' = "idle" /\ UNCHANGED <<fired, blockedQueue_, held>>
        /\ queue_' = Append(queue_, NewItem(lastId + 1, 0, d, k, FALSE))
    BY <1>2 DEF push_ScrollWheelEventCallback, outVars, blockVars, deviceVars
  <2>2. k = Motion /\ k \in DownUps \cup {Motion} /\ 0 \in Nat /\ FALSE \in BOOLEAN /\ d \in Devices
    BY DEF Devices
  <2>3. \A e \in Devices, l \in DownUps : DownNow(e, l)' => IF e = d /\ l = k THEN FALSE ELSE DownNow(e, l)
    BY <2>1, ConstantsAssumption DEF DownNow
  <2>4. ReportOfButtons' /\ pc' # "bounce"
    BY <2>1 DEF ReportOfButtons
  <2> HIDE DEF k
  <2> QED
    BY <2>1, <2>2, <2>3, <2>4, AlternatesPushed
<1>3. ASSUME NEW d \in Devices, Connect(d) \/ Disconnect(d) PROVE Alternates'
  <2>1. UNCHANGED <<fired, blockedQueue_, queue_, pc>> /\ pc = "idle"
    BY <1>3 DEF Connect, Disconnect, outVars, blockVars
  <2>2. held' = held \/ held' = [held EXCEPT ![d] = {}]
    BY <1>3 DEF Connect, Disconnect
  <2>3. \A e \in Devices : held'[e] \subseteq held[e]
    BY <1>0, <2>2
  <2> QED
    BY <2>1, <2>3, AlternatesIdle
<1>4. ASSUME SetConfig \/ SimultaneousRound \/ SimultaneousDone \/ fire_timer_callback PROVE Alternates'
  <2>1. /\ UNCHANGED <<fired, blockedQueue_, queue_, held>>
        /\ pc # "buttons" /\ pc' \notin {"buttons", "bounce"}
    BY <1>0, <1>4 DEF SetConfig, SimultaneousRound, SimultaneousDone, fire_timer_callback, outVars, blockVars, deviceVars
  <2> QED
    BY <2>1, AlternatesIdle
<1>5. ~(RemoveBouncing \/ BouncingDone)
  BY <1>0 DEF RemoveBouncing, BouncingDone
<1>6. ~remap_SimultaneousKeyPresses
  <2>1. Len(Items) = 0
    BY LenProperties, EmptySeq
  <2> QED
    BY <2>1 DEF remap_SimultaneousKeyPresses, TypeOK, HandlerTypeOK, LoopType
<1>7. ASSUME FirePassing \/ FireUnblocked \/ ReleaseBlockingKey \/ ReleaseTappedKey \/ Block
             \/ blockingTimeOut_timer_callback
      PROVE  Alternates'
  <2>1. /\ pc # "buttons" /\ pc' \notin {"buttons", "bounce"} /\ UNCHANGED held
    BY <1>7 DEF FirePassing, FireUnblocked, ReleaseBlockingKey, ReleaseTappedKey, Block, FireFront,
                blockingTimeOut_timer_callback, deviceVars
  <2>2. Seen' = Seen
    BY <1>7, SeenFiring
  <2>3. \A d \in Devices, k \in DownUps : DownNow(d, k)' => DownNow(d, k)
    BY <2>1 DEF DownNow
  <2>4. ReportOfButtons' /\ pc' # "bounce"
    BY <2>1 DEF ReportOfButtons
  <2> QED
    BY <2>2, <2>3, <2>4, AlternatesKept
<1>8. CASE UNCHANGED vars
  <2>1. UNCHANGED <<fired, blockedQueue_, queue_, held, pc, loop>>
    BY <1>8 DEF vars, outVars, blockVars, deviceVars
  <2>2. Seen' = Seen /\ ReportOfButtons' /\ pc' # "bounce"
    BY <1>0, <2>1 DEF Seen, Alternates, ReportOfButtons
  <2>3. \A d \in Devices, k \in DownUps : DownNow(d, k)' => DownNow(d, k)
    BY <2>1 DEF DownNow
  <2> QED
    BY <2>2, <2>3, AlternatesKept
<1>9. CASE HardwareNext
  BY <1>1, <1>2, <1>3, <1>4, <1>9, AlternatesKeyboard, Zenon DEF HardwareNext
<1> QED
  BY <1>4, <1>5, <1>6, <1>7, <1>8, <1>9, AlternatesButtons, Zenon DEF Next, HandlerNext, TimerNext

\* With a press between any two releases, the release of a blocking key overtakes
\* no event of its key: the press after a blocked release is blocked too.
LEMMA AlternatesOvertakesNone ==
  ASSUME TypeOK, InLine, Alternates, ReleaseBlockingKey
  PROVE  OvertakesNone
<1> DEFINE x == Head(queue_)
           b == blockedQueue_
           t == Tail(queue_)
<1> SUFFICES ASSUME NEW j \in DOMAIN b, j > LastDown(x.key), SameKey(x, b[j])
             PROVE  FALSE
  BY DEF OvertakesNone, FrontItem
<1>1. fired \in Seq(ItemType) /\ b \in Seq(ItemType) /\ queue_ \in Seq(ItemType)
  BY DEF TypeOK, OutTypeOK, BlockTypeOK, QueueTypeOK
<1>2. FireFront /\ ~Passes /\ ~x.down /\ queue_ # << >>
  BY Zenon DEF ReleaseBlockingKey, FireFront, FrontItem
<1>3. x \in ItemType /\ t \in Seq(ItemType) /\ x.key # Motion
  BY <1>1, <1>2, IdsHeadTail DEF Passes, IsDownUp, FrontItem
<1>4. j \in Nat /\ b[j] \in Range(b) /\ b[j] \in ItemType
  BY <1>1, LenProperties, ElementOfSeq DEF Range
<1>5. LastDown(x.key) \in Nat /\ \A m \in DOMAIN b : b[m].key = x.key /\ b[m].down => m <= LastDown(x.key)
  BY <1>1, LastDownGreatest
<1>6. b[j].dev = x.dev /\ b[j].key = x.key /\ b[j].id > 0 /\ x.id > 0 /\ ~b[j].down
  <2>1. b[j].dev = x.dev /\ b[j].key = x.key /\ b[j].id > 0 /\ x.id > 0
    BY DEF SameKey
  <2>2. ~b[j].down
    BY <1>4, <1>5, <2>1
  <2> QED
    BY <2>1, <2>2
<1>7. /\ Range(queue_) = {x} \cup Range(t)
      /\ \A y \in Range(t) : <<x, y>> \in Ordered
  BY <1>1, <1>2, FineHeadTail DEF InLine, Line
<1>8. \A p, r : <<p, r>> \in Ordered /\ SameKey(p, r) => p.id < r.id
  BY DEF Ordered
<1> DEFINE w == What(x)
           v == What(b[j])
<1>9. /\ w \in Seen /\ w.dev = x.dev /\ w.key = x.key /\ w.id = x.id /\ w.down = x.down
      /\ v \in Seen /\ v.dev = x.dev /\ v.key = x.key /\ v.id = b[j].id /\ v.down = b[j].down
  BY <1>4, <1>6, <1>7 DEF Seen, Whats, What
<1> HIDE DEF w, v, x, t
<1>10. v.id < w.id
  <2>1. <<b[j], x>> \in Ordered
    BY <1>4, <1>7 DEF InLine, Line, Cross
  <2>2. SameKey(b[j], x)
    BY <1>6 DEF SameKey
  <2> QED
    BY <1>8, <1>9, <2>1, <2>2
<1>11. PICK z \in Seen : SameKey(v, z) /\ z.down /\ v.id < z.id /\ z.id < w.id
  <2>1. SameKey(v, w) /\ v.key # Motion /\ ~v.down /\ ~w.down
    BY <1>2, <1>3, <1>6, <1>9 DEF SameKey
  <2> QED
    BY <1>9, <1>10, <2>1 DEF Alternates, Alternating
<1>12. PICK y \in Range(fired) \cup Range(b) \cup Range(queue_) : z = What(y)
  BY DEF Seen, Whats
<1>13. /\ y.dev = x.dev /\ y.key = x.key /\ y.id > 0 /\ y.down /\ b[j].id < y.id /\ y.id < x.id
       /\ y \in ItemType
  <2>1. z.dev = y.dev /\ z.key = y.key /\ z.id = y.id /\ z.down = y.down
    BY <1>12 DEF What
  <2>2. y \in ItemType
    BY <1>1, RangeItems
  <2> QED
    BY <1>9, <1>11, <2>1, <2>2 DEF SameKey
<1>14. SameKey(y, b[j]) /\ SameKey(x, y)
  BY <1>6, <1>13 DEF SameKey
<1>15. b[j].id \in Nat /\ y.id \in Nat /\ x.id \in Nat
  BY <1>3, <1>4, <1>13 DEF ItemType
<1>16. CASE y \in Range(fired)
  <2>1. <<y, b[j]>> \in Ordered
    BY <1>4, <1>16 DEF InLine, Line, Cross
  <2> QED
    BY <1>8, <1>13, <1>14, <1>15, <2>1
<1>17. CASE y \in Range(b)
  <2>1. PICK m \in DOMAIN b : y = b[m]
    BY <1>17 DEF Range
  <2>2. m <= LastDown(x.key) /\ m \in Nat
    BY <1>1, <1>5, <1>13, <2>1, LenProperties
  <2>3. m < j
    BY <1>4, <1>5, <2>2
  <2>4. <<y, b[j]>> \in Ordered
    BY <2>1, <2>3 DEF InLine, Line, Fine
  <2> QED
    BY <1>8, <1>13, <1>14, <1>15, <2>4
<1>18. CASE y \in Range(queue_)
  <2>1. y # x
    BY <1>13, <1>15
  <2>2. <<x, y>> \in Ordered
    BY <1>7, <1>18, <2>1
  <2> QED
    BY <1>8, <1>13, <1>14, <1>15, <2>2
<1> QED
  BY <1>16, <1>17, <1>18

\* The invariant of plain input.
PlainInv == InLine /\ KeptBlocked(blockedQueue_) /\ Accounted /\ Alternates

\* It is inductive with the types.
LEMMA PlainInvHolds ==
  ASSUME Items = << >>, ~ignore_bouncing_events, ~disable_internal_keyboard
  PROVE  Spec => []PlainInv
<1>0. \A r \in DOMAIN Items : ~Items[r].raw
  BY EmptySeq
<1>1. Init => PlainInv
  <2> SUFFICES ASSUME Init PROVE PlainInv
    OBVIOUS
  <2>1. InLine /\ KeptBlocked(blockedQueue_) /\ Accounted
    BY InLineInit
  <2>2. Seen = {} /\ \A d \in Devices, k \in DownUps : ~DownNow(d, k)
    BY WhatsFacts DEF Init, Seen, DownNow
  <2>3. Alternates
    BY <2>2 DEF Init, Alternates, Alternating, DownsPressed, ReportOfButtons
  <2> QED
    BY <2>1, <2>3 DEF PlainInv
<1>2. TypeOK /\ PlainInv /\ [Next]_vars => PlainInv'
  <2> SUFFICES ASSUME TypeOK, PlainInv, [Next]_vars PROVE PlainInv'
    OBVIOUS
  <2>1. ReleaseBlockingKey => OvertakesNone
    BY AlternatesOvertakesNone DEF PlainInv
  <2>2. InLine' /\ KeptBlocked(blockedQueue_') /\ Accounted'
    BY <1>0, <2>1, InLineStep DEF PlainInv
  <2>3. Alternates'
    BY AlternatesStep DEF PlainInv
  <2> QED
    BY <2>2, <2>3 DEF PlainInv
<1> QED
  BY <1>1, <1>2, TypeCorrect, PTL DEF Spec

\* The same order while keys become or stop being blocking keys at any time, for plain
\* input: no simultaneous items, no bouncing filter, no disabled internal keyboard.  A
\* release that was blocked as an ordinary key's is not overtaken by the next one, which
\* is a blocking key's, for the press between them is blocked too
\* (BlockUntilKeyUpHandler::doBlockUntilKeyUp, Case 2).  A disabled internal keyboard
\* and the bouncing filter can drop that press and let the release through.
THEOREM KeyOrderPlainInput ==
  ASSUME Items = << >>, ~ignore_bouncing_events, ~disable_internal_keyboard
  PROVE  Spec => []KeyOrder
<1>1. TypeOK /\ PlainInv => KeyOrder
  BY LineKeyOrder DEF TypeOK, OutTypeOK, BlockTypeOK, QueueTypeOK, PlainInv
<1> QED
  BY <1>1, PlainInvHolds, TypeCorrect, PTL

-----------------------------------------------------------------------------
(* The newest event of a key *)

\* The events of key k since the device was connected that the pointer p is for.
Of(S, p, k) == {x \in S : x.dev = p.dev /\ x.gen = p.gen /\ x.key = k}

\* The newest of them is a press.
Pressed(S, p, k) == \E z \in Of(S, p, k) : z.down /\ \A y \in Of(S, p, k) : y.id <= z.id

\* A newer event of the key.
LEMMA PressedNewest ==
  ASSUME NEW S \in SUBSET EventType, NEW w \in EventType, NEW p, NEW k,
         w.dev = p.dev, w.gen = p.gen, w.key = k, \A y \in Of(S, p, k) : y.id < w.id
  PROVE  Pressed(S \cup {w}, p, k) <=> w.down
<1>1. Of(S \cup {w}, p, k) = Of(S, p, k) \cup {w}
  BY DEF Of
<1>2. w.id \in Nat /\ \A y \in Of(S, p, k) : y.id \in Nat
  BY DEF Of, EventType
<1>3. ASSUME w.down PROVE Pressed(S \cup {w}, p, k)
  <2>1. \A y \in Of(S, p, k) \cup {w} : y.id <= w.id
    BY <1>2
  <2> QED BY <1>1, <1>3, <2>1 DEF Pressed
<1>4. ASSUME Pressed(S \cup {w}, p, k) PROVE w.down
  <2>1. PICK z \in Of(S, p, k) \cup {w} : z.down /\ \A y \in Of(S, p, k) \cup {w} : y.id <= z.id
    BY <1>1, <1>4 DEF Pressed
  <2>2. z \notin Of(S, p, k)
    BY <1>2, <2>1
  <2> QED BY <2>1, <2>2
<1> QED
  BY <1>3, <1>4

\* An event of another key, or of the device before it was connected again.
LEMMA PressedOther ==
  ASSUME NEW S, NEW w, NEW p, NEW k, w.dev # p.dev \/ w.gen # p.gen \/ w.key # k
  PROVE  Of(S \cup {w}, p, k) = Of(S, p, k) /\ (Pressed(S \cup {w}, p, k) <=> Pressed(S, p, k))
<1>1. Of(S \cup {w}, p, k) = Of(S, p, k)
  BY DEF Of
<1> QED
  BY <1>1 DEF Pressed

\* Without events of the key, it is not pressed.
LEMMA PressedNone ==
  ASSUME NEW S, NEW p, NEW k, Of(S, p, k) = {}
  PROVE  ~Pressed(S, p, k)
BY DEF Pressed

-----------------------------------------------------------------------------
(* The invariant *)

\* The devices all of whose events are accepted, but for those of a device hack.
Followed(d) == d \in attached /\ (d \notin Internal \/ ~disable_internal_keyboard)

\* Events come from connected devices and are not dropped by a device hack; an
\* event that comes after a disconnection is of the next incarnation.
Accepted ==
    \A x \in Seen : /\ x.id > 0 /\ <<x.dev, x.key>> \notin Ignored
                    /\ x.gen < gen[x.dev] \/ (x.gen = gen[x.dev] /\ x.dev \in attached)

\* Nothing is down or counted on a device that is not connected, and a pointing
\* device has only buttons.
Detached ==
    /\ \A d \in Devices \ attached : held[d] = {} /\ \A k \in DownUps : pressingPhysicalKeys[d][k] = 0
    /\ \A d \in Pointings : held[d] \subseteq {Buttons[i] : i \in DOMAIN Buttons}

\* A key is down when the last event accepted of it is a press.
HeldPressed ==
    \A d \in Devices, k \in DownUps :
        Followed(d) /\ <<d, k>> \notin Ignored => (DownNow(d, k) <=> Pressed(Seen, Ptr(d), k))

\* Once no event of a key waits in queue_, it is counted as long as its last
\* event, which may still be blocked, is a press.
Counts ==
    \A d \in Devices, k \in DownUps \ CapsLock :
        Followed(d) /\ Of(Whats(queue_), Ptr(d), k) = {} =>
            /\ Pressed(Seen, Ptr(d), k) => pressingPhysicalKeys[d][k] > 0
            /\ ~Pressed(Seen, Ptr(d), k) /\ ~allow_devices_multiple_same_key => pressingPhysicalKeys[d][k] = 0

CapsLockUncounted == \A d \in Devices, k \in CapsLock : pressingPhysicalKeys[d][k] = 0

\* The remapper believes pressed what the last event it was handed pressed.
InternalPressed ==
    \A d \in Devices, k \in DownUps \ CapsLock :
        Followed(d) => (KeyOf([dev |-> d, gen |-> gen[d], key |-> k]) \in internal
                          <=> Pressed(Whats(fired), Ptr(d), k))

InternalFired == \A e \in internal : \E x \in Whats(fired) : e = KeyOf(x)

\* The report loop is about a connected device, and nothing is left of items.
PlainState ==
    /\ pc = "buttons" => loop.dev \in attached
    /\ ReportOfButtons /\ pc # "bounce"
    /\ activeFromInfos = {}

Follows ==
    /\ Accepted /\ Detached /\ HeldPressed /\ Counts /\ CapsLockUncounted
    /\ InternalPressed /\ InternalFired /\ PlainState

\* The lists are lists of events.
LEMMA SeenEvents ==
  ASSUME TypeOK
  PROVE  /\ Seen \in SUBSET EventType /\ Whats(fired) \in SUBSET EventType /\ Whats(queue_) \in SUBSET EventType
         /\ fired \in Seq(ItemType) /\ blockedQueue_ \in Seq(ItemType) /\ queue_ \in Seq(ItemType)
<1>1. fired \in Seq(ItemType) /\ blockedQueue_ \in Seq(ItemType) /\ queue_ \in Seq(ItemType)
  BY DEF TypeOK, OutTypeOK, BlockTypeOK, QueueTypeOK
<1> QED
  BY <1>1, WhatsFacts DEF Seen

\* A step that accepts and fires nothing.
LEMMA FollowsKept ==
  ASSUME Follows, UNCHANGED <<gen, attached, fired, blockedQueue_, queue_, internal, activeFromInfos>>,
         \A d \in Devices : Followed(d) => pressingPhysicalKeys'[d] = pressingPhysicalKeys[d],
         \A d \in Devices, k \in DownUps :
            Followed(d) /\ <<d, k>> \notin Ignored => (DownNow(d, k)' <=> DownNow(d, k)),
         Detached', CapsLockUncounted',
         pc' = "buttons" => loop'.dev \in attached, ReportOfButtons', pc' # "bounce"
  PROVE  Follows'
<1>1. Seen' = Seen /\ Whats(queue_)' = Whats(queue_) /\ Whats(fired)' = Whats(fired)
  BY DEF Seen
<1>2. \A d : (Followed(d)' <=> Followed(d)) /\ Ptr(d)' = Ptr(d)
  BY DEF Followed, Ptr
<1>3. Accepted'
  BY <1>1 DEF Follows, Accepted
<1>4. HeldPressed'
  BY <1>1, <1>2 DEF Follows, HeldPressed
<1>5. Counts'
  <2> SUFFICES ASSUME NEW d \in Devices, NEW k \in DownUps \ CapsLock, Followed(d)', Of(Whats(queue_)', Ptr(d)', k) = {}
               PROVE  /\ Pressed(Seen', Ptr(d)', k) => pressingPhysicalKeys'[d][k] > 0
                      /\ ~Pressed(Seen', Ptr(d)', k) /\ ~allow_devices_multiple_same_key
                           => pressingPhysicalKeys'[d][k] = 0
    BY DEF Counts
  <2>1. Followed(d) /\ pressingPhysicalKeys'[d] = pressingPhysicalKeys[d]
    BY <1>2
  <2> QED
    BY <1>1, <1>2, <2>1 DEF Follows, Counts
<1>6. InternalPressed' /\ InternalFired'
  BY <1>1, <1>2 DEF Follows, InternalPressed, InternalFired
<1>7. PlainState'
  BY DEF Follows, PlainState
<1> QED
  BY <1>3, <1>4, <1>5, <1>6, <1>7 DEF Follows

\* A step that accepts an event: its key goes down or up.
LEMMA FollowsPushed ==
  ASSUME Follows, TypeOK, Accounted, NEW since \in Nat, NEW d \in attached,
         NEW k \in DownUps \cup {Motion}, NEW down \in BOOLEAN, <<d, k>> \notin Ignored,
         queue_' = Append(queue_, NewItem(lastId + 1, since, d, k, down)),
         UNCHANGED <<gen, attached, fired, blockedQueue_, internal, activeFromInfos>>,
         \A e \in Devices : Followed(e) => pressingPhysicalKeys'[e] = pressingPhysicalKeys[e],
         \A e \in Devices, l \in DownUps : Followed(e) /\ <<e, l>> \notin Ignored
            => (DownNow(e, l)' <=> IF e = d /\ l = k THEN down ELSE DownNow(e, l)),
         Detached', CapsLockUncounted',
         pc' = "buttons" => loop'.dev \in attached, ReportOfButtons', pc' # "bounce"
  PROVE  Follows'
<1> DEFINE x == NewItem(lastId + 1, since, d, k, down)
           w == What(x)
<1>1. lastId \in Nat /\ d \in Devices /\ gen[d] \in Nat
  BY DEF TypeOK, ClockTypeOK, DeviceTypeOK
<1>2. x \in ItemType
  BY <1>1 DEF NewItem, ItemType
<1>3. /\ w \in EventType /\ w.id = lastId + 1 /\ w.id > 0 /\ w.dev = d /\ w.gen = gen[d]
      /\ w.key = k /\ w.down = down
  BY <1>1 DEF NewItem, What, EventType
<1>4. queue_' = Append(queue_, x)
  OBVIOUS
<1> HIDE DEF x
<1>5. Whats(queue_') = Whats(queue_) \cup {w}
  BY <1>2, <1>4, SeenEvents, WhatsFacts
<1>6. Seen' = Seen \cup {w} /\ Whats(fired') = Whats(fired)
  BY <1>5 DEF Seen
<1>7. Seen \in SUBSET EventType /\ \A y \in Seen : y.id < w.id
  BY <1>3, OlderThanNext, SeenEvents DEF Seen, Whats, What
<1> HIDE DEF w
<1>8. \A e : (Followed(e)' <=> Followed(e)) /\ Ptr(e)' = Ptr(e) /\ Ptr(e).dev = e /\ Ptr(e).gen = gen[e]
  BY DEF Followed, Ptr
<1>9. Pressed(Seen \cup {w}, Ptr(d), k) <=> down
  <2> DEFINE p == Ptr(d)
  <2>1. w.dev = p.dev /\ w.gen = p.gen /\ \A y \in Of(Seen, p, k) : y.id < w.id
    BY <1>3, <1>7, <1>8 DEF Of
  <2> HIDE DEF p
  <2>2. Pressed(Seen \cup {w}, p, k) <=> w.down
    BY <1>3, <1>7, <2>1, PressedNewest
  <2> QED BY <1>3, <2>2 DEF p
<1>10. ASSUME NEW e, NEW l, e # d \/ l # k
       PROVE  /\ Pressed(Seen \cup {w}, Ptr(e), l) <=> Pressed(Seen, Ptr(e), l)
              /\ Of(Whats(queue_) \cup {w}, Ptr(e), l) = Of(Whats(queue_), Ptr(e), l)
  <2> DEFINE p == Ptr(e)
  <2>1. w.dev # p.dev \/ w.gen # p.gen \/ w.key # l
    BY <1>3, <1>8, <1>10
  <2> HIDE DEF p
  <2>2. Pressed(Seen \cup {w}, p, l) <=> Pressed(Seen, p, l)
    BY <2>1, PressedOther
  <2>3. Of(Whats(queue_) \cup {w}, p, l) = Of(Whats(queue_), p, l)
    BY <2>1, PressedOther
  <2> QED BY <2>2, <2>3 DEF p
<1>11. Accepted'
  BY <1>1, <1>3, <1>6 DEF Follows, Accepted
<1>12. HeldPressed'
  <2> SUFFICES ASSUME NEW e \in Devices, NEW l \in DownUps, Followed(e)', <<e, l>> \notin Ignored
               PROVE  DownNow(e, l)' <=> Pressed(Seen', Ptr(e)', l)
    BY DEF HeldPressed
  <2>1. DownNow(e, l)' <=> IF e = d /\ l = k THEN down ELSE DownNow(e, l)
    BY <1>8
  <2>2. CASE e = d /\ l = k
    BY <1>6, <1>8, <1>9, <2>1, <2>2
  <2>3. CASE e # d \/ l # k
    <3>1. DownNow(e, l) <=> Pressed(Seen, Ptr(e), l)
      BY <1>8 DEF Follows, HeldPressed
    <3> QED BY <1>6, <1>8, <1>10, <2>1, <2>3, <3>1
  <2> QED BY <2>2, <2>3
<1>13. Counts'
  <2> SUFFICES ASSUME NEW e \in Devices, NEW l \in DownUps \ CapsLock, Followed(e)',
                      Of(Whats(queue_)', Ptr(e)', l) = {}
               PROVE  /\ Pressed(Seen', Ptr(e)', l) => pressingPhysicalKeys'[e][l] > 0
                      /\ ~Pressed(Seen', Ptr(e)', l) /\ ~allow_devices_multiple_same_key
                           => pressingPhysicalKeys'[e][l] = 0
    BY DEF Counts
  <2>1. e # d \/ l # k
    <3> SUFFICES ASSUME e = d, l = k PROVE w \in Of(Whats(queue_)', Ptr(e)', l)
      OBVIOUS
    <3> QED BY <1>3, <1>5, <1>8 DEF Of
  <2>2. Followed(e) /\ pressingPhysicalKeys'[e] = pressingPhysicalKeys[e]
    BY <1>8
  <2>3. Of(Whats(queue_), Ptr(e), l) = {}
    BY <1>5, <1>8, <1>10, <2>1
  <2>4. /\ Pressed(Seen, Ptr(e), l) => pressingPhysicalKeys[e][l] > 0
        /\ ~Pressed(Seen, Ptr(e), l) /\ ~allow_devices_multiple_same_key => pressingPhysicalKeys[e][l] = 0
    BY <2>2, <2>3 DEF Follows, Counts
  <2> QED
    BY <1>6, <1>8, <1>10, <2>1, <2>2, <2>4
<1>14. InternalPressed' /\ InternalFired'
  BY <1>6, <1>8 DEF Follows, InternalPressed, InternalFired
<1>15. PlainState'
  BY DEF Follows, PlainState
<1> QED
  BY <1>11, <1>12, <1>13, <1>14, <1>15 DEF Follows

-----------------------------------------------------------------------------
(* The hardware *)

\* A key of a keyboard goes down or up.
LEMMA FollowsKeyboard ==
  ASSUME Follows, TypeOK, Accounted, NEW d \in Keyboards, NEW k \in Keys, NEW down \in BOOLEAN,
         NEW repeat \in BOOLEAN, push_KeyboardEventCallback(d, k, down, repeat)
  PROVE  Follows'
<1>1. /\ d \in Devices /\ k \in DownUps /\ held \in [Devices -> SUBSET DownUps]
      /\ pressingPhysicalKeys \in [Devices -> [DownUps -> Nat]]
  BY DEF Devices, DownUps, TypeOK, DeviceTypeOK, CountTypeOK
<1>2. /\ pc = "idle" /\ pc' = "idle" /\ d \in attached
      /\ UNCHANGED <<gen, attached, fired, blockedQueue_, internal, activeFromInfos>>
      /\ (k \in held[d]) <=> (repeat \/ ~down)
      /\ held' = [held EXCEPT ![d] = IF down THEN @ \cup {k} ELSE @ \ {k}]
      /\ pressingPhysicalKeys' = IF InternalDisabled THEN ClearInternal(pressingPhysicalKeys) ELSE pressingPhysicalKeys
  BY DEF push_KeyboardEventCallback, outVars, blockVars, skpVars
<1>3. ReportOfButtons' /\ pc' # "bounce" /\ (pc' = "buttons" => loop'.dev \in attached)
  BY <1>2 DEF ReportOfButtons
<1>4. \A e \in Devices, l \in DownUps : (DownNow(e, l) <=> l \in held[e]) /\ (DownNow(e, l)' <=> l \in held'[e])
  BY <1>2 DEF DownNow
<1>5. \A e \in Devices, l \in DownUps : l \in held'[e] <=> IF e = d /\ l = k THEN down ELSE l \in held[e]
  BY <1>1, <1>2
<1>6. \A e \in Devices, l \in DownUps :
         pressingPhysicalKeys'[e][l] = IF e \in Internal /\ InternalDisabled THEN 0 ELSE pressingPhysicalKeys[e][l]
  BY <1>1, <1>2 DEF ClearInternal
<1>7. \A e \in Devices : Followed(e) => pressingPhysicalKeys'[e] = pressingPhysicalKeys[e]
  BY <1>1, <1>2 DEF ClearInternal, InternalDisabled, Followed
<1>8. Detached' /\ CapsLockUncounted'
  <2>1. CapsLock \subseteq DownUps /\ d \notin Pointings
    BY ConstantsAssumption DEF DownUps
  <2>2. \A e \in Devices : e # d => held'[e] = held[e]
    BY <1>1, <1>2
  <2>3. \A e \in Pointings : e \in Devices /\ e # d
    BY <2>1 DEF Devices
  <2>4. \A e \in Devices \ attached : held'[e] = {} /\ \A l \in DownUps : pressingPhysicalKeys'[e][l] = 0
    BY <1>2, <1>6, <2>2 DEF Follows, Detached
  <2>5. \A e \in Pointings : held'[e] \subseteq {Buttons[i] : i \in DOMAIN Buttons}
    BY <2>2, <2>3 DEF Follows, Detached
  <2>6. CapsLockUncounted'
    BY <1>6, <2>1 DEF Follows, CapsLockUncounted
  <2> QED
    BY <1>2, <2>4, <2>5, <2>6 DEF Detached
<1>9. CASE /\ (InternalDisabled /\ d \in Internal) \/ <<d, k>> \in Ignored \/ (repeat /\ down)
           /\ UNCHANGED queue_
  <2>1. ASSUME NEW e \in Devices, NEW l \in DownUps, Followed(e), <<e, l>> \notin Ignored
        PROVE  DownNow(e, l)' <=> DownNow(e, l)
    <3>1. CASE e # d \/ l # k
      BY <1>4, <1>5, <3>1
    <3>2. CASE e = d /\ l = k
      <4>1. repeat /\ down
        BY <1>9, <2>1, <3>2 DEF Followed, InternalDisabled
      <4>2. k \in held[d]
        BY <1>2, <4>1
      <4> QED BY <1>4, <1>5, <3>2, <4>1, <4>2
    <3> QED BY <3>1, <3>2
  <2> QED
    BY <1>2, <1>3, <1>7, <1>8, <1>9, <2>1, FollowsKept
<1>10. CASE /\ <<d, k>> \notin Ignored
            /\ \E since \in Sinces(k, down) : queue_' = Append(queue_, NewItem(lastId + 1, since, d, k, down))
  <2>1. PICK since \in Sinces(k, down) : queue_' = Append(queue_, NewItem(lastId + 1, since, d, k, down))
    BY <1>10
  <2>2. since \in Nat
    BY SincesType
  <2>3. \A e \in Devices, l \in DownUps : DownNow(e, l)' <=> IF e = d /\ l = k THEN down ELSE DownNow(e, l)
    BY <1>4, <1>5
  <2>4. k \in DownUps \cup {Motion} /\ d \in attached
    BY <1>1, <1>2
  <2> QED
    BY <1>2, <1>3, <1>7, <1>8, <1>10, <2>1, <2>2, <2>3, <2>4, FollowsPushed
<1>11. \/ /\ (InternalDisabled /\ d \in Internal) \/ <<d, k>> \in Ignored \/ (repeat /\ down)
          /\ UNCHANGED queue_
       \/ /\ <<d, k>> \notin Ignored
          /\ \E since \in Sinces(k, down) : queue_' = Append(queue_, NewItem(lastId + 1, since, d, k, down))
  BY Zenon DEF push_KeyboardEventCallback
<1> QED
  BY <1>9, <1>10, <1>11

\* The report loop goes on, or ends.
LEMMA FollowsButtons ==
  ASSUME Follows, TypeOK, Accounted, PushButton \/ PushMotion
  PROVE  Follows'
<1> DEFINE d == loop.dev
           B == loop.buttons
           Before(k) == \E i \in DOMAIN Buttons : i < loop.at /\ Buttons[i] = k
<1>1. /\ pc = "buttons" /\ d \in attached /\ d \in Devices /\ d \in Pointings
      /\ B \subseteq {Buttons[i] : i \in DOMAIN Buttons}
      /\ loop \in LoopType /\ loop.at \in Nat /\ loop.at > 0 /\ held \in [Devices -> SUBSET DownUps]
  <2>1. pc = "buttons" /\ loop \in LoopType /\ held \in [Devices -> SUBSET DownUps] /\ attached \subseteq Devices
    BY DEF PushButton, PushMotion, TypeOK, HandlerTypeOK, DeviceTypeOK
  <2>2. d \in attached /\ d \in Pointings /\ B \subseteq {Buttons[i] : i \in DOMAIN Buttons}
    BY <2>1 DEF Follows, PlainState, ReportOfButtons
  <2>3. loop.at \in Nat /\ loop.at > 0
    BY <2>1 DEF TypeOK, HandlerTypeOK, LoopType
  <2> QED
    BY <2>1, <2>2, <2>3
<1>2. /\ Buttons \in Seq({Buttons[i] : i \in DOMAIN Buttons}) /\ DOMAIN Buttons = 1..Len(Buttons) /\ Len(Buttons) \in Nat
      /\ {Buttons[i] : i \in DOMAIN Buttons} \subseteq DownUps
      /\ \A k : <<d, k>> \notin Ignored
  BY <1>1, ConstantsAssumption, LenProperties DEF DownUps
<1>3. \A e \in Devices, l \in DownUps : DownNow(e, l) <=> IF e = d /\ Before(l) THEN l \in B ELSE l \in held[e]
  BY <1>1 DEF DownNow
<1>4. UNCHANGED <<gen, attached, fired, blockedQueue_, internal, activeFromInfos, pressingPhysicalKeys>>
  BY DEF PushButton, PushMotion, outVars, blockVars, deviceVars, skpVars
<1>5. CASE PushButton
  <2> DEFINE btn == Buttons[loop.at]
             pressed == btn \in B
  <2>1. /\ loop.at \in DOMAIN Buttons /\ pc' = pc /\ held' = held
        /\ loop' = [loop EXCEPT !.at = @ + 1]
    BY <1>1, <1>2, <1>5 DEF PushButton, deviceVars
  <2>2. loop'.dev = d /\ loop'.buttons = B /\ loop'.at = loop.at + 1
    BY <1>1, <2>1 DEF LoopType
  <2>3. btn \in DownUps /\ btn \in DownUps \cup {Motion} /\ <<d, btn>> \notin Ignored
    BY <1>2, <2>1
  <2>4. ~Before(btn)
    BY <1>1, <1>2, <2>1, ConstantsAssumption
  <2>5. \A k : (\E i \in DOMAIN Buttons : i < loop.at + 1 /\ Buttons[i] = k) <=> Before(k) \/ k = btn
    <3> SUFFICES ASSUME NEW k
                 PROVE  (\E i \in DOMAIN Buttons : i < loop.at + 1 /\ Buttons[i] = k) <=> Before(k) \/ k = btn
      OBVIOUS
    <3>1. ASSUME NEW i \in DOMAIN Buttons PROVE i < loop.at + 1 <=> i < loop.at \/ i = loop.at
      BY <1>1, <1>2
    <3> QED
      BY <2>1, <3>1
  <2> HIDE DEF Before
  <2>6. \A e \in Devices, l \in DownUps :
           DownNow(e, l)' <=> IF e = d /\ (Before(l) \/ l = btn) THEN l \in B ELSE l \in held[e]
    <3> SUFFICES ASSUME NEW e \in Devices, NEW l \in DownUps
                 PROVE  DownNow(e, l)' <=> IF e = d /\ (Before(l) \/ l = btn) THEN l \in B ELSE l \in held[e]
      OBVIOUS
    <3>1. DownNow(e, l)' = IF e = d /\ \E i \in DOMAIN Buttons : i < loop.at + 1 /\ Buttons[i] = l
                           THEN l \in B ELSE l \in held[e]
      BY <1>1, <2>1, <2>2 DEF DownNow
    <3> QED
      BY <2>5, <3>1
  <2>7. ReportOfButtons' /\ pc' # "bounce" /\ loop'.dev \in attached
    BY <1>1, <2>1, <2>2 DEF ReportOfButtons
  <2>8. pressed \in BOOLEAN
    OBVIOUS
  <2>9. Detached' /\ CapsLockUncounted'
    BY <1>4, <2>1 DEF Follows, Detached, CapsLockUncounted
  <2>10. CASE pressed = (btn \in held[d]) /\ UNCHANGED queue_
    <3>1. \A e \in Devices, l \in DownUps : DownNow(e, l)' <=> DownNow(e, l)
      BY <1>3, <2>4, <2>6, <2>10
    <3> QED
      BY <1>4, <2>7, <2>9, <2>10, <3>1, FollowsKept
  <2>11. CASE /\ pressed # (btn \in held[d])
              /\ \E since \in Sinces(btn, pressed) : queue_' = Append(queue_, NewItem(lastId + 1, since, d, btn, pressed))
    <3>1. PICK since \in Sinces(btn, pressed) : queue_' = Append(queue_, NewItem(lastId + 1, since, d, btn, pressed))
      BY <2>11
    <3>2. since \in Nat
      BY SincesType
    <3>3. \A e \in Devices, l \in DownUps : DownNow(e, l)' <=> IF e = d /\ l = btn THEN pressed ELSE DownNow(e, l)
      BY <1>3, <2>6
    <3> HIDE DEF pressed, btn, d
    <3>4. d \in attached /\ \A e \in Devices : pressingPhysicalKeys'[e] = pressingPhysicalKeys[e]
      BY <1>1, <1>4
    <3> QED
      BY <1>4, <2>3, <2>7, <2>8, <2>9, <3>1, <3>2, <3>3, <3>4, FollowsPushed
  <2>12. \/ pressed = (btn \in held[d]) /\ UNCHANGED queue_
         \/ /\ pressed # (btn \in held[d])
            /\ \E since \in Sinces(btn, pressed) : queue_' = Append(queue_, NewItem(lastId + 1, since, d, btn, pressed))
    BY <1>5, Zenon DEF PushButton
  <2> QED
    BY <2>10, <2>11, <2>12
<1>6. CASE PushMotion
  <2>1. /\ loop.at > Len(Buttons) /\ pc' = "idle"
        /\ held' = [held EXCEPT ![d] = B]
    BY <1>6 DEF PushMotion
  <2>2. \A l : Before(l) <=> l \in {Buttons[i] : i \in DOMAIN Buttons}
    BY <1>1, <1>2, <2>1
  <2>3. \A e \in Devices, l \in DownUps : DownNow(e, l)' <=> l \in held'[e]
    BY <2>1 DEF DownNow
  <2>4. ReportOfButtons' /\ pc' # "bounce" /\ pc' # "buttons"
    BY <2>1 DEF ReportOfButtons
  <2>5. Detached' /\ CapsLockUncounted'
    <3>1. \A e \in Devices : e # d => held'[e] = held[e]
      BY <1>1, <2>1
    <3>2. held'[d] \subseteq {Buttons[i] : i \in DOMAIN Buttons} /\ Pointings \subseteq Devices
      BY <1>1, <2>1 DEF Devices
    <3> QED
      BY <1>1, <1>4, <3>1, <3>2 DEF Follows, Detached, CapsLockUncounted
  <2> HIDE DEF Before
  <2>6. ASSUME NEW e \in Devices, NEW l \in DownUps, Followed(e), <<e, l>> \notin Ignored
        PROVE  DownNow(e, l)' <=> DownNow(e, l)
    <3>1. CASE l \in {Buttons[i] : i \in DOMAIN Buttons} \/ e # d
      BY <1>1, <1>3, <2>1, <2>2, <2>3, <3>1
    <3>2. CASE l \notin {Buttons[i] : i \in DOMAIN Buttons} /\ e = d
      <4>1. l \notin held[d] /\ l \notin B /\ held'[d] = B
        BY <1>1, <2>1, <3>2 DEF Follows, Detached
      <4> QED
        BY <1>3, <2>2, <2>3, <3>2, <4>1
    <3> QED
      BY <3>1, <3>2
  <2>7. CASE UNCHANGED queue_
    BY <1>4, <2>4, <2>5, <2>6, <2>7, FollowsKept
  <2>8. CASE queue_' = Append(queue_, NewItem(lastId + 1, 0, d, Motion, FALSE))
    <3> DEFINE k == Motion
    <3>1. \A e \in Devices, l \in DownUps : Followed(e) /\ <<e, l>> \notin Ignored
             => (DownNow(e, l)' <=> IF e = d /\ l = k THEN FALSE ELSE DownNow(e, l))
      BY <2>6, ConstantsAssumption
    <3>2. /\ k \in DownUps \cup {Motion} /\ <<d, k>> \notin Ignored /\ 0 \in Nat /\ FALSE \in BOOLEAN
          /\ queue_' = Append(queue_, NewItem(lastId + 1, 0, d, k, FALSE))
      BY <1>2, <2>8
    <3> HIDE DEF k, d
    <3>3. d \in attached /\ \A e \in Devices : pressingPhysicalKeys'[e] = pressingPhysicalKeys[e]
      BY <1>1, <1>4
    <3> QED
      BY <1>4, <2>4, <2>5, <3>1, <3>2, <3>3, FollowsPushed
  <2> QED
    BY <1>6, <2>7, <2>8, Zenon DEF PushMotion
<1> QED
  BY <1>5, <1>6

\* A step of the handlers or of the configuration that moves no event.
LEMMA FollowsIdle ==
  ASSUME Follows, pc # "buttons", pc' \notin {"buttons", "bounce"},
         UNCHANGED <<deviceVars, pressingPhysicalKeys, fired, blockedQueue_, queue_, internal, activeFromInfos>>
  PROVE  Follows'
<1>1. UNCHANGED <<gen, attached, held>>
  BY DEF deviceVars
<1>2. \A d \in Devices, k \in DownUps : DownNow(d, k)' <=> DownNow(d, k)
  BY <1>1 DEF DownNow
<1>3. Detached' /\ CapsLockUncounted' /\ ReportOfButtons'
  BY <1>1 DEF Follows, Detached, CapsLockUncounted, ReportOfButtons
<1> QED
  BY <1>1, <1>2, <1>3, FollowsKept

\* The report loop begins.
LEMMA FollowsReport ==
  ASSUME Follows, NEW d \in Pointings, NEW B \in SUBSET {Buttons[i] : i \in DOMAIN Buttons},
         NEW moved \in BOOLEAN, push_RelativePointerEventCallback(d, B, moved)
  PROVE  Follows'
<1>1. /\ pc = "idle" /\ pc' = "buttons" /\ d \in attached
      /\ UNCHANGED <<gen, attached, held, pressingPhysicalKeys, fired, blockedQueue_, queue_, internal, activeFromInfos>>
      /\ loop' = [NoLoop EXCEPT !.at = 1, !.dev = d, !.buttons = B, !.moved = moved]
  BY DEF push_RelativePointerEventCallback, outVars, blockVars, deviceVars, skpVars
<1>2. loop'.at = 1 /\ loop'.dev = d /\ loop'.buttons = B
  BY <1>1 DEF NoLoop
<1>3. \A i \in DOMAIN Buttons : ~(i < 1)
  BY ConstantsAssumption, LenProperties
<1>4. \A e \in Devices, l \in DownUps : DownNow(e, l)' <=> DownNow(e, l)
  BY <1>1, <1>2, <1>3 DEF DownNow
<1>5. Detached' /\ CapsLockUncounted' /\ ReportOfButtons' /\ pc' # "bounce" /\ loop'.dev \in attached
  BY <1>1, <1>2 DEF Follows, Detached, CapsLockUncounted, ReportOfButtons
<1> QED
  BY <1>1, <1>4, <1>5, FollowsKept

\* A wheel event.
LEMMA FollowsScroll ==
  ASSUME Follows, TypeOK, Accounted, NEW d \in Pointings, push_ScrollWheelEventCallback(d)
  PROVE  Follows'
<1> DEFINE k == Motion
<1>1. /\ pc = "idle" /\ pc' = "idle" /\ d \in attached
      /\ UNCHANGED <<gen, attached, held, pressingPhysicalKeys, fired, blockedQueue_, internal, activeFromInfos>>
      /\ queue_' = Append(queue_, NewItem(lastId + 1, 0, d, k, FALSE))
  BY DEF push_ScrollWheelEventCallback, outVars, blockVars, deviceVars, skpVars
<1>2. k \in DownUps \cup {Motion} /\ 0 \in Nat /\ FALSE \in BOOLEAN
  OBVIOUS
<1>3. <<d, k>> \notin Ignored
  BY ConstantsAssumption
<1>4. \A e \in Devices, l \in DownUps : DownNow(e, l)' <=> IF e = d /\ l = k THEN FALSE ELSE DownNow(e, l)
  BY <1>1, ConstantsAssumption DEF DownNow
<1>5. Detached' /\ CapsLockUncounted' /\ ReportOfButtons' /\ pc' # "bounce" /\ pc' # "buttons"
  BY <1>1 DEF Follows, Detached, CapsLockUncounted, ReportOfButtons
<1>6. \A e \in Devices : pressingPhysicalKeys'[e] = pressingPhysicalKeys[e]
  BY <1>1
<1> HIDE DEF k
<1> QED
  BY <1>1, <1>2, <1>3, <1>4, <1>5, <1>6, FollowsPushed

\* A device is connected: of its new incarnation no event has come yet.
LEMMA FollowsConnect ==
  ASSUME Follows, TypeOK, NEW d \in Devices, Connect(d)
  PROVE  Follows'
<1>1. /\ pc = "idle" /\ pc' = "idle" /\ d \notin attached /\ attached' = attached \cup {d}
      /\ UNCHANGED <<gen, held, pressingPhysicalKeys, fired, blockedQueue_, queue_, internal, activeFromInfos>>
  BY DEF Connect, outVars, blockVars, skpVars
<1>2. Seen' = Seen /\ Whats(queue_)' = Whats(queue_) /\ Whats(fired)' = Whats(fired) /\ Whats(fired) \subseteq Seen
  BY <1>1 DEF Seen
<1>3. \A e : /\ Ptr(e)' = Ptr(e) /\ Ptr(e).dev = e /\ Ptr(e).gen = gen[e]
             /\ e # d => (Followed(e)' <=> Followed(e))
  BY <1>1 DEF Followed, Ptr
<1>4. \A e \in Devices, l \in DownUps : (DownNow(e, l)' <=> DownNow(e, l)) /\ ~DownNow(d, l)
  BY <1>1 DEF DownNow, Follows, Detached
<1>5. \A x \in Seen : ~(x.dev = d /\ x.gen = gen[d])
  <2> SUFFICES ASSUME NEW x \in Seen, x.dev = d, x.gen = gen[d] PROVE FALSE
    OBVIOUS
  <2>1. gen[d] \in Nat
    BY DEF TypeOK, DeviceTypeOK
  <2>2. x.gen < gen[d]
    BY <1>1 DEF Follows, Accepted
  <2> QED
    BY <2>1, <2>2
<1>6. \A k : Of(Seen, Ptr(d), k) = {} /\ Of(Whats(fired), Ptr(d), k) = {}
  BY <1>2, <1>3, <1>5 DEF Of
<1>7. \A k : ~Pressed(Seen, Ptr(d), k) /\ ~Pressed(Whats(fired), Ptr(d), k)
  BY <1>6, PressedNone
<1>8. Accepted'
  BY <1>1, <1>2 DEF Follows, Accepted
<1>9. Detached' /\ CapsLockUncounted'
  BY <1>1 DEF Follows, Detached, CapsLockUncounted
<1>10. HeldPressed'
  <2> SUFFICES ASSUME NEW e \in Devices, NEW l \in DownUps, Followed(e)', <<e, l>> \notin Ignored
               PROVE  DownNow(e, l)' <=> Pressed(Seen', Ptr(e)', l)
    BY DEF HeldPressed
  <2>1. CASE e = d
    BY <1>2, <1>3, <1>4, <1>7, <2>1
  <2>2. CASE e # d
    BY <1>2, <1>3, <1>4, <2>2 DEF Follows, HeldPressed
  <2> QED BY <2>1, <2>2
<1>11. Counts'
  <2> SUFFICES ASSUME NEW e \in Devices, NEW l \in DownUps \ CapsLock, Followed(e)', Of(Whats(queue_)', Ptr(e)', l) = {}
               PROVE  /\ Pressed(Seen', Ptr(e)', l) => pressingPhysicalKeys'[e][l] > 0
                      /\ ~Pressed(Seen', Ptr(e)', l) /\ ~allow_devices_multiple_same_key
                           => pressingPhysicalKeys'[e][l] = 0
    BY DEF Counts
  <2>1. CASE e = d
    <3>1. pressingPhysicalKeys'[d][l] = 0
      BY <1>1 DEF Follows, Detached
    <3> QED BY <1>2, <1>3, <1>7, <2>1, <3>1
  <2>2. CASE e # d
    BY <1>1, <1>2, <1>3, <2>2 DEF Follows, Counts
  <2> QED BY <2>1, <2>2
<1>12. InternalPressed'
  <2> SUFFICES ASSUME NEW e \in Devices, NEW l \in DownUps \ CapsLock, Followed(e)'
               PROVE  KeyOf([dev |-> e, gen |-> gen'[e], key |-> l]) \in internal' <=> Pressed(Whats(fired)', Ptr(e)', l)
    BY DEF InternalPressed
  <2>1. CASE e = d
    <3>1. KeyOf([dev |-> d, gen |-> gen[d], key |-> l]) \notin internal
      <4> SUFFICES ASSUME KeyOf([dev |-> d, gen |-> gen[d], key |-> l]) \in internal PROVE FALSE
        OBVIOUS
      <4>1. PICK x \in Whats(fired) : KeyOf([dev |-> d, gen |-> gen[d], key |-> l]) = KeyOf(x)
        BY DEF Follows, InternalFired
      <4>2. x.dev = d /\ x.gen = gen[d]
        BY <4>1 DEF KeyOf
      <4> QED BY <1>2, <1>5, <4>2
    <3> QED BY <1>1, <1>2, <1>3, <1>7, <2>1, <3>1
  <2>2. CASE e # d
    BY <1>1, <1>2, <1>3, <2>2 DEF Follows, InternalPressed
  <2> QED BY <2>1, <2>2
<1>13. InternalFired' /\ PlainState'
  BY <1>1, <1>2 DEF Follows, InternalFired, PlainState, ReportOfButtons
<1> QED
  BY <1>8, <1>9, <1>10, <1>11, <1>12, <1>13 DEF Follows

\* A device is disconnected: what came of it is of an earlier incarnation now.
LEMMA FollowsDisconnect ==
  ASSUME Follows, TypeOK, NEW d \in Devices, Disconnect(d)
  PROVE  Follows'
<1>1. /\ pc = "idle" /\ pc' = "idle" /\ d \in attached /\ attached' = attached \ {d}
      /\ gen' = [gen EXCEPT ![d] = @ + 1] /\ held' = [held EXCEPT ![d] = {}]
      /\ pressingPhysicalKeys' = [pressingPhysicalKeys EXCEPT ![d] = [k \in DownUps |-> 0]]
      /\ UNCHANGED <<fired, blockedQueue_, queue_, internal, activeFromInfos>>
  BY DEF Disconnect, outVars, blockVars, skpVars
<1>2. /\ gen \in [Devices -> Nat] /\ held \in [Devices -> SUBSET DownUps]
      /\ pressingPhysicalKeys \in [Devices -> [DownUps -> Nat]]
  BY DEF TypeOK, DeviceTypeOK, CountTypeOK
<1>3. /\ gen'[d] = gen[d] + 1 /\ held'[d] = {} /\ \A k \in DownUps : pressingPhysicalKeys'[d][k] = 0
      /\ \A e \in Devices : e # d => /\ gen'[e] = gen[e] /\ held'[e] = held[e]
                                     /\ pressingPhysicalKeys'[e] = pressingPhysicalKeys[e]
  BY <1>1, <1>2
<1>4. Seen' = Seen /\ Whats(queue_)' = Whats(queue_) /\ Whats(fired)' = Whats(fired)
  BY <1>1 DEF Seen
<1>5. \A e \in Devices : Followed(e)' => e # d /\ Followed(e) /\ Ptr(e)' = Ptr(e)
  BY <1>1, <1>3 DEF Followed, Ptr
<1>6. \A e \in Devices, l \in DownUps : e # d => (DownNow(e, l)' <=> DownNow(e, l))
  BY <1>1, <1>3 DEF DownNow
<1>7. Accepted'
  <2> SUFFICES ASSUME NEW x \in Seen
               PROVE  /\ x.id > 0 /\ <<x.dev, x.key>> \notin Ignored
                      /\ x.gen < gen'[x.dev] \/ (x.gen = gen'[x.dev] /\ x.dev \in attached')
    BY <1>4 DEF Accepted
  <2>1. /\ x.id > 0 /\ <<x.dev, x.key>> \notin Ignored
        /\ x.gen < gen[x.dev] \/ (x.gen = gen[x.dev] /\ x.dev \in attached)
    BY DEF Follows, Accepted
  <2>2. x.dev \in Devices /\ x.gen \in Nat
    BY SeenEvents DEF EventType
  <2>3. CASE x.dev = d
    <3>1. gen[d] \in Nat /\ x.gen <= gen[d]
      BY <1>2, <2>1, <2>2, <2>3
    <3> QED BY <1>3, <2>1, <2>2, <2>3, <3>1
  <2>4. CASE x.dev # d
    BY <1>1, <1>3, <2>1, <2>2, <2>4
  <2> QED BY <2>3, <2>4
<1>8. Detached' /\ CapsLockUncounted'
  <2>1. Pointings \subseteq Devices /\ CapsLock \subseteq DownUps
    BY ConstantsAssumption DEF Devices, DownUps
  <2>2. \A e \in Devices \ attached' : held'[e] = {} /\ \A k \in DownUps : pressingPhysicalKeys'[e][k] = 0
    BY <1>1, <1>3 DEF Follows, Detached
  <2>3. \A e \in Pointings : held'[e] \subseteq {Buttons[i] : i \in DOMAIN Buttons}
    BY <1>3, <2>1 DEF Follows, Detached
  <2>4. CapsLockUncounted'
    BY <1>3, <2>1 DEF Follows, CapsLockUncounted
  <2> QED BY <2>2, <2>3, <2>4 DEF Detached
<1>9. HeldPressed'
  BY <1>4, <1>5, <1>6 DEF Follows, HeldPressed
<1>10. Counts'
  BY <1>3, <1>4, <1>5 DEF Follows, Counts
<1>11. InternalPressed'
  <2> SUFFICES ASSUME NEW e \in Devices, NEW l \in DownUps \ CapsLock, Followed(e)'
               PROVE  KeyOf([dev |-> e, gen |-> gen'[e], key |-> l]) \in internal' <=> Pressed(Whats(fired)', Ptr(e)', l)
    BY DEF InternalPressed
  <2>1. Followed(e) /\ gen'[e] = gen[e] /\ Ptr(e)' = Ptr(e)
    BY <1>3, <1>5
  <2> QED BY <1>1, <1>4, <2>1 DEF Follows, InternalPressed
<1>12. InternalFired' /\ PlainState'
  BY <1>1, <1>4 DEF Follows, InternalFired, PlainState, ReportOfButtons
<1> QED
  BY <1>7, <1>8, <1>9, <1>10, <1>11, <1>12 DEF Follows

-----------------------------------------------------------------------------
(* Firing, blocking and replaying *)

\* What stands behind a list that is not empty stays behind when its front goes.
LEMMA BehindStays ==
  ASSUME NEW s \in Seq(ItemType), NEW t \in Seq(ItemType), s # << >>
  PROVE  s \o t \in Seq(ItemType) /\ s \o t # << >> /\ Whats(t) \subseteq Whats(Tail(s \o t))
<1> DEFINE u == s \o t
<1>1. /\ Len(s) \in Nat \ {0} /\ Len(t) \in Nat /\ DOMAIN t = 1..Len(t)
      /\ u \in Seq(ItemType) /\ Len(u) = Len(s) + Len(t)
      /\ \A i \in 1..Len(s) + Len(t) : u[i] = IF i <= Len(s) THEN s[i] ELSE t[i - Len(s)]
  BY EmptySeq, LenProperties, ConcatProperties
<1> HIDE DEF u
<1>2. u # << >>
  BY <1>1, EmptySeq
<1>3. /\ Tail(u) \in Seq(ItemType) /\ DOMAIN Tail(u) = 1..Len(u) - 1
      /\ \A i \in 1..Len(u) - 1 : Tail(u)[i] = u[i + 1]
  BY <1>1, <1>2, HeadTailProperties, LenProperties
<1>4. Range(t) \subseteq Range(Tail(u))
  <2> SUFFICES ASSUME NEW j \in 1..Len(t) PROVE t[j] \in Range(Tail(u))
    BY <1>1 DEF Range
  <2> DEFINE i == Len(s) + j - 1
  <2>1. i \in 1..Len(u) - 1 /\ i + 1 \in 1..Len(s) + Len(t) /\ ~(i + 1 <= Len(s)) /\ (i + 1) - Len(s) = j
    BY <1>1
  <2>2. Tail(u)[i] = t[j]
    BY <1>1, <1>3, <2>1
  <2> HIDE DEF i
  <2> QED
    BY <1>3, <2>1, <2>2 DEF Range
<1> QED
  BY <1>1, <1>2, <1>4 DEF u, Whats

\* The front event is taken, and something is fired unless it is blocked; no other
\* event leaves queue_ but the one that is fired.
LEMMA FiringMoves ==
  ASSUME TypeOK, FirePassing \/ FireUnblocked \/ ReleaseBlockingKey \/ ReleaseTappedKey \/ Block
  PROVE  /\ FireFront /\ Head(queue_) \in ItemType
         /\ Whats(queue_) = {What(Head(queue_))} \cup Whats(Tail(queue_))
         /\ Whats(Tail(queue_)) \subseteq Whats(queue_')
         /\ \/ \E q \in Seq(ItemType) : q # << >> /\ DoFire(q)
            \/ UNCHANGED <<fired, internal, activeFromInfos>>
<1> DEFINE x == Head(queue_)
           b == blockedQueue_
           t == Tail(queue_)
<1>1. FireFront
  BY Zenon DEF FirePassing, FireUnblocked, ReleaseBlockingKey, ReleaseTappedKey, Block
<1>2. queue_ # << >> /\ queue_ \in Seq(ItemType) /\ b \in Seq(ItemType)
  BY <1>1 DEF FireFront, TypeOK, BlockTypeOK, QueueTypeOK
<1>3. x \in ItemType /\ t \in Seq(ItemType) /\ Whats(queue_) = {What(x)} \cup Whats(t) /\ FrontItem = x
  BY <1>2, IdsHeadTail, WhatsFacts DEF FrontItem
<1>4. \A q : DoFire(q) => queue_' = Tail(q)
  BY Zenon DEF DoFire
<1>5. ASSUME NEW c \in Seq(ItemType), c # << >>, DoFire(Replayed(c) \o t)
      PROVE  Whats(t) \subseteq Whats(queue_') /\ \E q \in Seq(ItemType) : q # << >> /\ DoFire(q)
  <2> DEFINE r == Replayed(c)
  <2>1. r \in Seq(ItemType) /\ r # << >> /\ DoFire(r \o t)
    BY <1>5, ReplayedType, EmptySeq
  <2> HIDE DEF r, t
  <2>2. r \o t \in Seq(ItemType) /\ r \o t # << >> /\ Whats(t) \subseteq Whats(Tail(r \o t))
    BY <1>3, <2>1, BehindStays
  <2> QED
    BY <1>4, <2>1, <2>2
<1>6. ASSUME FirePassing
      PROVE  Whats(t) \subseteq Whats(queue_') /\ \E q \in Seq(ItemType) : q # << >> /\ DoFire(q)
  <2>1. DoFire(queue_)
    BY <1>6 DEF FirePassing
  <2> QED
    BY <1>2, <1>4, <2>1
<1>7. ASSUME FireUnblocked
      PROVE  Whats(t) \subseteq Whats(queue_') /\ \E q \in Seq(ItemType) : q # << >> /\ DoFire(q)
  <2> DEFINE r == Replayed(b)
  <2>1. r \in Seq(ItemType) /\ DoFire(r \o queue_)
    BY <1>2, <1>7, ReplayedType DEF FireUnblocked
  <2> HIDE DEF r, t
  <2>2. CASE r = << >>
    <3>1. r \o queue_ = queue_
      BY <1>2, <2>2, ConcatEmptySeq
    <3> QED
      BY <1>2, <1>4, <2>1, <3>1 DEF t
  <2>3. CASE r # << >>
    <3>1. r \o queue_ \in Seq(ItemType) /\ r \o queue_ # << >> /\ Whats(queue_) \subseteq Whats(Tail(r \o queue_))
      BY <1>2, <2>1, <2>3, BehindStays
    <3> QED
      BY <1>3, <1>4, <2>1, <3>1
  <2> QED
    BY <2>2, <2>3
<1>8. ASSUME ReleaseBlockingKey
      PROVE  Whats(t) \subseteq Whats(queue_') /\ \E q \in Seq(ItemType) : q # << >> /\ DoFire(q)
  <2> DEFINE i == LastDown(x.key) + 1
             c == InsertAt(b, i, x)
  <2>1. DoFire(Replayed(c) \o t)
    BY <1>8, Zenon DEF ReleaseBlockingKey, FrontItem
  <2>2. i \in 1..Len(b) + 1
    BY LastDownType
  <2> HIDE DEF i
  <2>3. c \in Seq(ItemType) /\ c # << >>
    <3>1. x \in ItemType
      BY <1>3
    <3> HIDE DEF x, b
    <3> QED BY <1>2, <2>2, <3>1, InsertAtType
  <2> HIDE DEF c, t
  <2> QED
    BY <1>5, <2>1, <2>3
<1>9. ASSUME ReleaseTappedKey
      PROVE  Whats(t) \subseteq Whats(queue_') /\ \E q \in Seq(ItemType) : q # << >> /\ DoFire(q)
  <2> DEFINE c == Append(b, x)
  <2>1. DoFire(Replayed(c) \o t)
    BY <1>9, Zenon DEF ReleaseTappedKey, FrontItem
  <2>2. c \in Seq(ItemType) /\ c # << >>
    <3>1. x \in ItemType
      BY <1>3
    <3> HIDE DEF x
    <3> QED BY <1>2, <3>1, AppendProperties
  <2> HIDE DEF c, t
  <2> QED
    BY <1>5, <2>1, <2>2
<1>10. ASSUME Block
       PROVE  Whats(t) \subseteq Whats(queue_') /\ UNCHANGED <<fired, internal, activeFromInfos>>
  BY <1>10 DEF Block, outVars, skpVars
<1> HIDE DEF t
<1> QED
  BY <1>1, <1>3, <1>6, <1>7, <1>8, <1>9, <1>10 DEF t

\* The event at the front is newer than those of its key that were fired or blocked.
LEMMA FrontNewest ==
  ASSUME TypeOK, InLine, Follows, queue_ # << >>, NEW y \in Whats(fired) \cup Whats(blockedQueue_),
         y.dev = Head(queue_).dev, y.key = Head(queue_).key
  PROVE  y.id < Head(queue_).id
<1> DEFINE x == Head(queue_)
<1>1. x \in Range(queue_)
  BY FineHeadTail, SeenEvents
<1>2. PICK z \in Range(fired) \cup Range(blockedQueue_) : y = What(z)
  BY DEF Whats
<1>3. <<z, x>> \in Ordered
  BY <1>1, <1>2 DEF InLine, Line, Cross
<1>4. y.dev = z.dev /\ y.key = z.key /\ y.id = z.id
  BY <1>2 DEF What
<1>5. y.id > 0 /\ x.id > 0
  <2>1. What(x) \in Seen /\ y \in Seen /\ What(x).id = x.id
    BY <1>1 DEF Seen, Whats, What
  <2> QED
    BY <2>1 DEF Follows, Accepted
<1> HIDE DEF x
<1>6. SameKey(z, x)
  BY <1>4, <1>5 DEF SameKey, x
<1> QED
  BY <1>3, <1>4, <1>6 DEF Ordered, x

\* Once the last event of a key leaves queue_, it is counted as what it did.
LEMMA CountsFront ==
  ASSUME TypeOK, InLine, Follows, FireFront, Seen' = Seen, Head(queue_) \in ItemType,
         Whats(queue_) = {What(Head(queue_))} \cup Whats(Tail(queue_)),
         Whats(Tail(queue_)) \subseteq Whats(queue_')
  PROVE  Counts' /\ CapsLockUncounted' /\ Detached'
<1> DEFINE x == Head(queue_)
           w == What(x)
<1>1. /\ UNCHANGED <<attached, gen, held>> /\ queue_ # << >>
      /\ pressingPhysicalKeys \in [Devices -> [DownUps -> Nat]] /\ attached \subseteq Devices
  BY DEF FireFront, deviceVars, TypeOK, CountTypeOK, DeviceTypeOK
<1>2. /\ x \in ItemType /\ x.dev \in Devices /\ x.key \in DownUps \cup {Motion} /\ x.down \in BOOLEAN
      /\ w \in Seen /\ w.id = x.id /\ w.dev = x.dev /\ w.gen = x.gen /\ w.key = x.key /\ w.down = x.down
  <2>1. w \in Seen /\ w.id = x.id /\ w.dev = x.dev /\ w.gen = x.gen /\ w.key = x.key /\ w.down = x.down
    BY DEF Seen, What
  <2> QED BY <2>1 DEF ItemType
<1>3. DevicePtr(x) \in Live <=> x.dev \in attached /\ x.gen = gen[x.dev]
  BY DEF DevicePtr, Live
<1>4. UpdatePressingPhysicalKeys(x)
  BY Zenon DEF FireFront
<1> HIDE DEF x
<1>5. ASSUME NEW d \in Devices, NEW k \in DownUps,
             d # x.dev \/ k # x.key \/ d \notin attached \/ x.gen # gen[d] \/ k \in CapsLock
      PROVE  pressingPhysicalKeys'[d][k] = pressingPhysicalKeys[d][k]
  <2>1. CASE DevicePtr(x) \in Live /\ IsDownUp(x) /\ x.key \notin CapsLock
    <3>1. d # x.dev \/ k # x.key
      BY <1>3, <1>5, <2>1
    <3>2. x.key \in DownUps
      BY <1>2, <2>1 DEF IsDownUp
    <3> QED
      BY <1>1, <1>2, <1>4, <2>1, <3>1, <3>2 DEF UpdatePressingPhysicalKeys
  <2>2. CASE ~(DevicePtr(x) \in Live /\ IsDownUp(x) /\ x.key \notin CapsLock)
    BY <1>4, <2>2 DEF UpdatePressingPhysicalKeys
  <2> QED
    BY <2>1, <2>2
<1>6. Detached'
  BY <1>1, <1>5 DEF Follows, Detached
<1>7. CapsLockUncounted'
  <2>1. CapsLock \subseteq DownUps
    BY ConstantsAssumption DEF DownUps
  <2> QED
    BY <1>5, <2>1 DEF Follows, CapsLockUncounted
<1>8. \A d : (Followed(d)' <=> Followed(d)) /\ Ptr(d)' = Ptr(d) /\ Ptr(d).dev = d /\ Ptr(d).gen = gen[d]
  BY <1>1 DEF Followed, Ptr
<1>9. Counts'
  <2> SUFFICES ASSUME NEW d \in Devices, NEW k \in DownUps \ CapsLock, Followed(d), Of(Whats(queue_'), Ptr(d), k) = {}
               PROVE  /\ Pressed(Seen, Ptr(d), k) => pressingPhysicalKeys'[d][k] > 0
                      /\ ~Pressed(Seen, Ptr(d), k) /\ ~allow_devices_multiple_same_key
                           => pressingPhysicalKeys'[d][k] = 0
    BY <1>8 DEF Counts
  <2>1. d \in attached
    BY DEF Followed
  <2>2. Of(Whats(Tail(queue_)), Ptr(d), k) = {}
    BY DEF Of
  <2>3. CASE x.dev = d /\ x.key = k /\ x.gen = gen[d]
    <3>1. \A y \in Of(Seen, Ptr(d), k) : y.id <= w.id
      <4> SUFFICES ASSUME NEW y \in Of(Seen, Ptr(d), k) PROVE y.id <= w.id
        OBVIOUS
      <4>1. y \in Seen /\ y.dev = x.dev /\ y.key = x.key /\ y \notin Whats(Tail(queue_))
        BY <1>8, <2>2, <2>3 DEF Of
      <4>2. CASE y = w
        <5>1. w.id \in Nat
          BY <1>2 DEF ItemType
        <5> QED BY <4>2, <5>1
      <4>3. CASE y \in Whats(fired) \cup Whats(blockedQueue_)
        <5>1. y.id < x.id /\ y.id \in Nat /\ x.id \in Nat
          <6>1. y.id \in Nat /\ x.id \in Nat
            BY <1>2, <4>1, SeenEvents DEF ItemType, EventType
          <6> QED BY <1>1, <4>1, <4>3, <6>1, FrontNewest DEF x
        <5> QED BY <1>2, <5>1
      <4> QED
        BY <4>1, <4>2, <4>3 DEF Seen, x
    <3>2. w \in Of(Seen, Ptr(d), k)
      BY <1>2, <1>8, <2>3 DEF Of
    <3>3. Pressed(Seen, Ptr(d), k) <=> x.down
      <4>1. ASSUME x.down PROVE Pressed(Seen, Ptr(d), k)
        BY <1>2, <3>1, <3>2, <4>1 DEF Pressed
      <4>2. ASSUME Pressed(Seen, Ptr(d), k) PROVE x.down
        <5>1. PICK z \in Of(Seen, Ptr(d), k) : z.down /\ \A y \in Of(Seen, Ptr(d), k) : y.id <= z.id
          BY <4>2 DEF Pressed
        <5>2. z.id <= w.id /\ w.id <= z.id /\ z \in Seen /\ z.dev = x.dev /\ z.key = x.key
          BY <1>8, <2>3, <3>1, <3>2, <5>1 DEF Of
        <5>3. z.id \in Nat /\ w.id \in Nat
          BY <1>2, <5>2, SeenEvents DEF EventType
        <5>4. z.id = x.id
          BY <1>2, <5>2, <5>3
        <5>5. z \notin Whats(Tail(queue_))
          BY <2>2, <5>1 DEF Of
        <5>6. z \notin Whats(fired) \cup Whats(blockedQueue_)
          BY <1>1, <5>2, <5>3, <5>4, FrontNewest DEF x
        <5>7. z = w
          BY <5>2, <5>5, <5>6 DEF Seen, x
        <5> QED BY <1>2, <5>1, <5>7
      <4> QED BY <4>1, <4>2
    <3>4. DevicePtr(x) \in Live /\ IsDownUp(x) /\ x.key \notin CapsLock
      BY <1>3, <2>1, <2>3, ConstantsAssumption DEF IsDownUp
    <3>5. pressingPhysicalKeys' = [pressingPhysicalKeys EXCEPT ![d][k] =
                                      CASE x.down -> @ + 1
                                        [] ~x.down /\ allow_devices_multiple_same_key /\ @ > 0 -> @ - 1
                                        [] OTHER -> 0]
      BY <1>4, <2>3, <3>4 DEF UpdatePressingPhysicalKeys
    <3>6. pressingPhysicalKeys'[d][k] = CASE x.down -> pressingPhysicalKeys[d][k] + 1
                                          [] ~x.down /\ allow_devices_multiple_same_key /\ pressingPhysicalKeys[d][k] > 0
                                                -> pressingPhysicalKeys[d][k] - 1
                                          [] OTHER -> 0
      BY <1>1, <3>5
    <3>7. pressingPhysicalKeys[d][k] \in Nat
      BY <1>1
    <3>8. CASE x.down
      BY <3>3, <3>6, <3>7, <3>8
    <3>9. CASE ~x.down
      BY <3>3, <3>6, <3>9
    <3> QED BY <3>8, <3>9
  <2>4. CASE ~(x.dev = d /\ x.key = k /\ x.gen = gen[d])
    <3>1. pressingPhysicalKeys'[d][k] = pressingPhysicalKeys[d][k]
      BY <1>5, <2>4
    <3>2. w \notin Of({w}, Ptr(d), k)
      BY <1>2, <1>8, <2>4 DEF Of
    <3>3. Of(Whats(queue_), Ptr(d), k) = {}
      BY <2>2, <3>2 DEF Of, x
    <3> QED
      BY <3>1, <3>3 DEF Follows, Counts
  <2> QED
    BY <2>3, <2>4
<1> QED
  BY <1>6, <1>7, <1>9

\* What the remapper believes pressed follows the event that is handed to it.
LEMMA InternalFires ==
  ASSUME TypeOK, Follows, InLine', fired' \in Seq(ItemType), UNCHANGED <<gen, attached>>, Seen' = Seen,
         Counts', NEW q \in Seq(ItemType), q # << >>, DoFire(q)
  PROVE  InternalPressed' /\ InternalFired' /\ activeFromInfos' = {}
<1> DEFINE p == Head(q)
           w == What(p)
           reset == IsDownUp(p) /\ NeedsReset(Tail(q))
<1>1. p \in ItemType /\ fired \in Seq(ItemType)
  BY HeadTailProperties DEF TypeOK, OutTypeOK
<1>2. /\ queue_' = Tail(q) /\ fired' = Append(fired, p)
      /\ reset => internal' = {}
      /\ ~reset /\ ~IsDownUp(p) => internal' = internal
      /\ ~reset /\ IsDownUp(p) /\ p.down => internal' = internal \cup {KeyOf(p)}
      /\ ~reset /\ IsDownUp(p) /\ ~p.down => internal' = internal \ {KeyOf(p)}
      /\ activeFromInfos' = {}
  BY DEF DoFire, Follows, PlainState
<1>3. w.id = p.id /\ w.dev = p.dev /\ w.gen = p.gen /\ w.key = p.key /\ w.down = p.down /\ KeyOf(w) = KeyOf(p)
  BY DEF What, KeyOf
<1>4. w \in EventType /\ p.down \in BOOLEAN
  BY <1>1 DEF What, EventType, ItemType
<1>5. reset => NeedsReset(Tail(q))
  OBVIOUS
<1> HIDE DEF p, reset
<1>6. Whats(fired') = Whats(fired) \cup {w}
  BY <1>1, <1>2, WhatsFacts
<1>7. Fine(fired', Ordered) /\ Range(fired') = Range(fired) \cup {p} /\ \A y \in Range(fired) : <<y, p>> \in Ordered
  BY <1>1, <1>2, FineAppend DEF InLine, Line
<1>8. \A y \in Whats(fired) : y.dev = w.dev /\ y.key = w.key => y.id < w.id
  <2> SUFFICES ASSUME NEW y \in Whats(fired), y.dev = w.dev, y.key = w.key PROVE y.id < w.id
    OBVIOUS
  <2>1. PICK z \in Range(fired) : y = What(z)
    BY DEF Whats
  <2>2. y.dev = z.dev /\ y.key = z.key /\ y.id = z.id
    BY <2>1 DEF What
  <2>3. y.id > 0 /\ w.id > 0
    <3>1. w \in Seen' /\ y \in Seen'
      BY <1>6 DEF Seen
    <3> QED BY <3>1 DEF Follows, Accepted
  <2>4. SameKey(z, p)
    BY <1>3, <2>2, <2>3 DEF SameKey
  <2>5. <<z, p>> \in Ordered
    BY <1>7
  <2> QED
    BY <1>3, <2>2, <2>4, <2>5 DEF Ordered
<1> HIDE DEF w
<1>9. \A d : (Followed(d)' <=> Followed(d)) /\ Ptr(d)' = Ptr(d) /\ Ptr(d).dev = d /\ Ptr(d).gen = gen[d]
  BY DEF Followed, Ptr
<1>10. InternalFired'
  <2>1. internal' \subseteq internal \cup {KeyOf(w)}
    BY <1>2, <1>3
  <2> QED
    BY <1>6, <2>1 DEF Follows, InternalFired
<1>11. InternalPressed'
  <2> SUFFICES ASSUME NEW d \in Devices, NEW k \in DownUps \ CapsLock, Followed(d)
               PROVE  KeyOf([dev |-> d, gen |-> gen[d], key |-> k]) \in internal'
                        <=> Pressed(Whats(fired'), Ptr(d), k)
    BY <1>9 DEF InternalPressed
  <2> DEFINE e == KeyOf([dev |-> d, gen |-> gen[d], key |-> k])
  <2>1. e \in internal <=> Pressed(Whats(fired), Ptr(d), k)
    BY DEF Follows, InternalPressed
  <2>2. e = [dev |-> d, gen |-> gen[d], key |-> k] /\ KeyOf(p) = [dev |-> p.dev, gen |-> p.gen, key |-> p.key]
    BY DEF KeyOf
  <2>3. CASE reset
    <3>1. NoPressingPhysicalKeys(pressingPhysicalKeys') /\ queue_' = << >> /\ blockedQueue_' = << >>
      BY <1>2, <1>5, <2>3 DEF NeedsReset
    <3>2. Whats(queue_') = {} /\ Whats(blockedQueue_') = {}
      BY <3>1, WhatsFacts
    <3>3. Seen' = Whats(fired')
      BY <3>2 DEF Seen
    <3>4. pressingPhysicalKeys'[d][k] = 0
      BY <3>1 DEF NoPressingPhysicalKeys, Followed
    <3>5. ~Pressed(Seen', Ptr(d)', k)
      <4>1. Of(Whats(queue_)', Ptr(d)', k) = {}
        BY <3>2 DEF Of
      <4> QED BY <1>9, <3>4, <4>1 DEF Counts
    <3> QED BY <1>2, <1>9, <2>3, <3>3, <3>5
  <2>4. CASE ~reset /\ w.dev = d /\ w.gen = gen[d] /\ w.key = k
    <3> DEFINE pt == Ptr(d)
    <3>1. w.dev = pt.dev /\ w.gen = pt.gen /\ \A y \in Of(Whats(fired), pt, k) : y.id < w.id
      BY <1>8, <1>9, <2>4 DEF Of
    <3> HIDE DEF pt
    <3>2. Pressed(Whats(fired) \cup {w}, pt, k) <=> w.down
      BY <1>4, <2>4, <3>1, SeenEvents, PressedNewest
    <3>3. IsDownUp(p) /\ KeyOf(p) = e
      BY <1>3, <2>2, <2>4, ConstantsAssumption DEF IsDownUp
    <3>4. e \in internal' <=> p.down
      BY <1>2, <1>4, <2>4, <3>3
    <3> QED BY <1>3, <1>6, <3>2, <3>4 DEF pt
  <2>5. CASE ~reset /\ ~(w.dev = d /\ w.gen = gen[d] /\ w.key = k)
    <3>1. KeyOf(p) # e
      BY <1>3, <2>2, <2>5
    <3>2. e \in internal' <=> e \in internal
      BY <1>2, <2>5, <3>1
    <3>3. Pressed(Whats(fired) \cup {w}, Ptr(d), k) <=> Pressed(Whats(fired), Ptr(d), k)
      BY <1>9, <2>5, PressedOther
    <3> QED BY <1>6, <2>1, <3>2, <3>3
  <2> QED
    BY <2>3, <2>4, <2>5
<1> QED
  BY <1>2, <1>10, <1>11

\* The steps that fire, block and replay.
LEMMA FollowsFiring ==
  ASSUME TypeOK, TypeOK', InLine, InLine', Follows,
         FirePassing \/ FireUnblocked \/ ReleaseBlockingKey \/ ReleaseTappedKey \/ Block \/ blockingTimeOut_timer_callback
  PROVE  Follows'
<1>1. /\ UNCHANGED <<gen, attached, held>> /\ pc # "buttons" /\ pc' = "idle"
  BY DEF FirePassing, FireUnblocked, ReleaseBlockingKey, ReleaseTappedKey, Block, FireFront,
         blockingTimeOut_timer_callback, deviceVars
<1>2. Seen' = Seen
  BY SeenFiring
<1>3. \A d : (Followed(d)' <=> Followed(d)) /\ Ptr(d)' = Ptr(d)
  BY <1>1 DEF Followed, Ptr
<1>4. Accepted'
  BY <1>1, <1>2 DEF Follows, Accepted
<1>5. HeldPressed'
  <2>1. \A d \in Devices, k \in DownUps : DownNow(d, k)' <=> DownNow(d, k)
    BY <1>1 DEF DownNow
  <2> QED
    BY <1>2, <1>3, <2>1 DEF Follows, HeldPressed
<1>6. ASSUME activeFromInfos' = {} PROVE PlainState'
  BY <1>1, <1>6 DEF PlainState, ReportOfButtons
<1>7. ASSUME UNCHANGED <<fired, internal, activeFromInfos>>
      PROVE  InternalPressed' /\ InternalFired' /\ activeFromInfos' = {}
  BY <1>1, <1>3, <1>7 DEF Follows, InternalPressed, InternalFired, PlainState
<1>8. CASE FirePassing \/ FireUnblocked \/ ReleaseBlockingKey \/ ReleaseTappedKey \/ Block
  <2>1. /\ FireFront /\ Head(queue_) \in ItemType
        /\ Whats(queue_) = {What(Head(queue_))} \cup Whats(Tail(queue_))
        /\ Whats(Tail(queue_)) \subseteq Whats(queue_')
        /\ \/ \E q \in Seq(ItemType) : q # << >> /\ DoFire(q)
           \/ UNCHANGED <<fired, internal, activeFromInfos>>
    BY <1>8, FiringMoves
  <2>2. Counts' /\ CapsLockUncounted' /\ Detached'
    BY <1>2, <2>1, CountsFront
  <2>3. fired' \in Seq(ItemType)
    BY DEF TypeOK, OutTypeOK
  <2>4. InternalPressed' /\ InternalFired' /\ activeFromInfos' = {}
    BY <1>1, <1>2, <1>7, <2>1, <2>2, <2>3, InternalFires
  <2> QED
    BY <1>4, <1>5, <1>6, <2>2, <2>4 DEF Follows
<1>9. CASE blockingTimeOut_timer_callback
  <2>1. /\ queue_' = Replayed(blockedQueue_) \o queue_
        /\ UNCHANGED <<pressingPhysicalKeys, fired, internal, activeFromInfos>>
    BY <1>9 DEF blockingTimeOut_timer_callback, outVars, skpVars
  <2>2. Whats(queue_) \subseteq Whats(queue_')
    BY <2>1, SeenEvents, ReplayedType, WhatsFacts
  <2>3. Counts'
    <3> SUFFICES ASSUME NEW d \in Devices, NEW k \in DownUps \ CapsLock, Followed(d), Of(Whats(queue_'), Ptr(d), k) = {}
                 PROVE  /\ Pressed(Seen, Ptr(d), k) => pressingPhysicalKeys[d][k] > 0
                        /\ ~Pressed(Seen, Ptr(d), k) /\ ~allow_devices_multiple_same_key
                             => pressingPhysicalKeys[d][k] = 0
      BY <1>2, <1>3, <2>1 DEF Counts
    <3>1. Of(Whats(queue_), Ptr(d), k) = {}
      BY <2>2 DEF Of
    <3> QED
      BY <3>1 DEF Follows, Counts
  <2>4. Detached' /\ CapsLockUncounted'
    BY <1>1, <2>1 DEF Follows, Detached, CapsLockUncounted
  <2> QED
    BY <1>4, <1>5, <1>6, <1>7, <2>1, <2>3, <2>4 DEF Follows
<1> QED
  BY <1>8, <1>9

-----------------------------------------------------------------------------
(* The invariant *)

\* The first state.
LEMMA FollowsInit == Init => Follows
<1> SUFFICES ASSUME Init PROVE Follows
  OBVIOUS
<1>1. Seen = {} /\ Whats(fired) = {}
  BY WhatsFacts DEF Init, Seen
<1>2. \A p, k : ~Pressed({}, p, k)
  BY DEF Pressed, Of
<1>3. \A d \in Devices : held[d] = {} /\ \A k \in DownUps : pressingPhysicalKeys[d][k] = 0 /\ ~DownNow(d, k)
  BY DEF Init, DownNow
<1>4. Pointings \subseteq Devices /\ CapsLock \subseteq DownUps
  BY ConstantsAssumption DEF Devices, DownUps
<1>5. Accepted /\ HeldPressed /\ Counts
  BY <1>1, <1>2, <1>3 DEF Accepted, HeldPressed, Counts
<1>6. InternalPressed /\ InternalFired
  BY <1>1, <1>2 DEF Init, InternalPressed, InternalFired
<1>7. Detached /\ CapsLockUncounted
  BY <1>3, <1>4 DEF Detached, CapsLockUncounted
<1>8. PlainState
  BY DEF Init, PlainState, ReportOfButtons
<1> QED
  BY <1>5, <1>6, <1>7, <1>8 DEF Follows

\* One step.
LEMMA FollowsStep ==
  ASSUME Items = << >>, ~ignore_bouncing_events, TypeOK, TypeOK', InLine, InLine', Accounted, Follows, [Next]_vars
  PROVE  Follows'
<1>0. pc # "bounce" /\ Len(Items) = 0
  BY LenProperties, EmptySeq DEF Follows, PlainState
<1>1. ASSUME SetConfig \/ SimultaneousRound \/ SimultaneousDone \/ fire_timer_callback PROVE Follows'
  <2>1. /\ UNCHANGED <<deviceVars, pressingPhysicalKeys, fired, blockedQueue_, queue_, internal, activeFromInfos>>
        /\ pc # "buttons" /\ pc' \notin {"buttons", "bounce"}
    BY <1>0, <1>1 DEF SetConfig, SimultaneousRound, SimultaneousDone, fire_timer_callback, outVars, blockVars, skpVars
  <2> QED
    BY <2>1, FollowsIdle
<1>2. ~(RemoveBouncing \/ BouncingDone)
  BY <1>0 DEF RemoveBouncing, BouncingDone
<1>3. ~remap_SimultaneousKeyPresses
  BY <1>0 DEF remap_SimultaneousKeyPresses, TypeOK, HandlerTypeOK, LoopType
<1>4. CASE UNCHANGED vars
  <2>1. UNCHANGED <<gen, attached, held, pressingPhysicalKeys, fired, blockedQueue_, queue_, internal,
                    activeFromInfos, pc, loop>>
    BY <1>4 DEF vars, outVars, blockVars, deviceVars, skpVars
  <2>2. \A d \in Devices, k \in DownUps : DownNow(d, k)' <=> DownNow(d, k)
    BY <2>1 DEF DownNow
  <2>3. /\ Detached' /\ CapsLockUncounted' /\ ReportOfButtons' /\ pc' # "bounce"
        /\ pc' = "buttons" => loop'.dev \in attached
    BY <2>1 DEF Follows, Detached, CapsLockUncounted, PlainState, ReportOfButtons
  <2> QED
    BY <2>1, <2>2, <2>3, FollowsKept
<1>5. CASE HardwareNext
  BY <1>1, <1>5, FollowsKeyboard, FollowsReport, FollowsScroll, FollowsConnect, FollowsDisconnect, Zenon DEF HardwareNext
<1> QED
  BY <1>1, <1>2, <1>3, <1>4, <1>5, FollowsButtons, FollowsFiring, Zenon DEF Next, HandlerNext, TimerNext

\* The invariants of the other theorems, where they hold.
LEMMA Lines ==
  ASSUME Items = << >>, ~ignore_bouncing_events, ~disable_internal_keyboard \/ MaxToggles = 0 \/ BlockKeys = {}
  PROVE  Spec => [](TypeOK /\ InLine /\ Accounted)
<1>1. \A r \in DOMAIN Items : ~Items[r].raw
  BY EmptySeq
<1>2. PlainInv => InLine /\ Accounted
  BY DEF PlainInv
<1>3. OrderInv => InLine /\ Accounted
  BY DEF OrderInv
<1>4. CASE ~disable_internal_keyboard
  <2>1. Spec => []PlainInv
    BY <1>4, PlainInvHolds
  <2> QED BY <1>2, <2>1, TypeCorrect, PTL
<1>5. CASE MaxToggles = 0 \/ BlockKeys = {}
  <2>1. Spec => []OrderInv
    BY <1>1, <1>5, OrderInvHolds
  <2> QED BY <1>3, <2>1, TypeCorrect, PTL
<1> QED
  BY <1>4, <1>5

LEMMA FollowsHolds ==
  ASSUME Items = << >>, ~ignore_bouncing_events, ~disable_internal_keyboard \/ MaxToggles = 0 \/ BlockKeys = {}
  PROVE  Spec => [](TypeOK /\ Follows)
<1>1. TypeOK /\ InLine /\ Accounted /\ (TypeOK /\ InLine /\ Accounted)' /\ Follows /\ [Next]_vars => Follows'
  BY FollowsStep
<1> QED
  BY <1>1, FollowsInit, Lines, PTL DEF Spec

-----------------------------------------------------------------------------
(* The theorems *)

\* When every event has been dealt with, the remapper believes pressed what is down on
\* the connected devices, no more and no less: neither the blocking of keys, nor devices
\* that are unplugged with keys down, nor a reset in between leaves a key stuck or
\* forgotten (EventInputQueue::fire_timer_callback, resetInternalStateIfNeeded).
THEOREM SettledHolds ==
  ASSUME Items = << >>, ~ignore_bouncing_events, ~disable_internal_keyboard \/ MaxToggles = 0 \/ BlockKeys = {}
  PROVE  Spec => []Settled
<1>1. TypeOK /\ Follows => Settled
  <2> SUFFICES ASSUME TypeOK, Follows, Quiet, NEW d \in attached, NEW k \in DownUps \ VKeys, Reported(d, k)
               PROVE  k \in held[d] <=> \/ [dev |-> d, gen |-> gen[d], key |-> k] \in internal
                                        \/ \E e \in activeFromInfos : e.device = Ptr(d) /\ e.key = k
    BY DEF Settled
  <2>1. blockedQueue_ = << >> /\ queue_ = << >>
    <3>1. /\ Len(blockedQueue_ \o queue_) = Len(blockedQueue_) + Len(queue_) /\ Len(blockedQueue_ \o queue_) = 0
          /\ Len(blockedQueue_) \in Nat /\ Len(queue_) \in Nat
      BY SeenEvents, ConcatProperties, LenProperties, EmptySeq DEF Quiet, Pipeline
    <3>2. Len(blockedQueue_) = 0 /\ Len(queue_) = 0
      BY <3>1
    <3> QED BY <3>2, SeenEvents, EmptySeq
  <2>2. Seen = Whats(fired)
    BY <2>1, WhatsFacts DEF Seen
  <2>3. d \in Devices /\ Followed(d) /\ <<d, k>> \notin Ignored /\ k \in DownUps \ CapsLock
    BY DEF Followed, Reported, TypeOK, DeviceTypeOK
  <2>4. k \in held[d] <=> Pressed(Whats(fired), Ptr(d), k)
    BY <2>2, <2>3 DEF Follows, HeldPressed, DownNow, Quiet
  <2>5. KeyOf([dev |-> d, gen |-> gen[d], key |-> k]) \in internal <=> Pressed(Whats(fired), Ptr(d), k)
    BY <2>3 DEF Follows, InternalPressed
  <2>6. KeyOf([dev |-> d, gen |-> gen[d], key |-> k]) = [dev |-> d, gen |-> gen[d], key |-> k]
    BY DEF KeyOf
  <2> QED
    BY <2>4, <2>5, <2>6 DEF Follows, PlainState
<1> QED
  BY <1>1, FollowsHolds, PTL

\* Only the firing handlers hand an event on; the hardware stays as it is meanwhile.
LEMMA FiredSteps ==
  ASSUME TypeOK, [Next]_vars, FiredNow # {}
  PROVE  /\ UNCHANGED <<attached, held>> /\ pc' = "idle"
         /\ \E q \in Seq(ItemType) : q # << >> /\ DoFire(q) /\ FiredNow = {Head(q)}
<1>0. fired' # fired
  <2>1. Len(fired) \in Nat
    BY SeenEvents, LenProperties
  <2> QED BY <2>1 DEF FiredNow
<1>1. ~HardwareNext /\ ~TimerNext /\ UNCHANGED vars => FALSE
  BY <1>0 DEF vars, outVars
<1>2. ~HardwareNext
  BY <1>0 DEF HardwareNext, push_KeyboardEventCallback, push_RelativePointerEventCallback,
              push_ScrollWheelEventCallback, Connect, Disconnect, SetConfig, outVars
<1>3. ~(PushButton \/ PushMotion \/ RemoveBouncing \/ BouncingDone \/ SimultaneousRound
          \/ remap_SimultaneousKeyPresses \/ SimultaneousDone \/ TimerNext)
  BY <1>0 DEF PushButton, PushMotion, RemoveBouncing, BouncingDone, SimultaneousRound, TimerNext,
              remap_SimultaneousKeyPresses, SimultaneousDone, fire_timer_callback,
              blockingTimeOut_timer_callback, outVars
<1>4. FirePassing \/ FireUnblocked \/ ReleaseBlockingKey \/ ReleaseTappedKey \/ Block
  BY <1>1, <1>2, <1>3, Zenon DEF Next, HandlerNext, TimerNext
<1>5. FireFront /\ \E q \in Seq(ItemType) : q # << >> /\ DoFire(q)
  BY <1>0, <1>4, FiringMoves
<1>6. UNCHANGED <<attached, held>> /\ pc' = "idle"
  BY <1>5 DEF FireFront, deviceVars
<1>7. ASSUME NEW q \in Seq(ItemType), q # << >>, DoFire(q) PROVE FiredNow = {Head(q)}
  <2> DEFINE p == Head(q)
  <2>1. p \in ItemType /\ fired \in Seq(ItemType) /\ fired' = Append(fired, p)
    BY <1>7, HeadTailProperties, SeenEvents, Zenon DEF DoFire
  <2> HIDE DEF p
  <2>2. Len(fired') = Len(fired) + 1 /\ fired'[Len(fired')] = p /\ Len(fired) \in Nat
    BY <2>1, AppendProperties, LenProperties
  <2> QED
    BY <2>2 DEF FiredNow, p
<1> QED
  BY <1>5, <1>6, <1>7

\* When the last event was fired: what is not held is not pressed, and what is not
\* pressed is not counted.
LEMMA FiredLastFacts ==
  ASSUME TypeOK, Follows', [Next]_vars, FiredLast, NEW d \in attached, NEW k \in DownUps \ CapsLock,
         d \notin Internal \/ ~disable_internal_keyboard
  PROVE  /\ <<d, k>> \notin Ignored => (k \in held[d] <=> Pressed(Seen', Ptr(d)', k))
         /\ Pressed(Seen', Ptr(d)', k) => pressingPhysicalKeys'[d][k] > 0
         /\ ~Pressed(Seen', Ptr(d)', k) /\ ~allow_devices_multiple_same_key => pressingPhysicalKeys'[d][k] = 0
<1>1. UNCHANGED <<attached, held>> /\ pc' = "idle"
  BY FiredSteps DEF FiredLast
<1>2. d \in Devices /\ Followed(d)' /\ (DownNow(d, k)' <=> k \in held[d])
  BY <1>1 DEF Followed, DownNow, TypeOK, DeviceTypeOK
<1>3. Of(Whats(queue_)', Ptr(d)', k) = {}
  BY WhatsFacts DEF FiredLast, Of
<1>4. <<d, k>> \notin Ignored => (DownNow(d, k)' <=> Pressed(Seen', Ptr(d)', k))
  BY <1>2 DEF Follows, HeldPressed
<1>5. /\ Pressed(Seen', Ptr(d)', k) => pressingPhysicalKeys'[d][k] > 0
      /\ ~Pressed(Seen', Ptr(d)', k) /\ ~allow_devices_multiple_same_key => pressingPhysicalKeys'[d][k] = 0
  BY <1>2, <1>3 DEF Follows, Counts
<1> QED
  BY <1>2, <1>4, <1>5

\* The internal state is reset only when no reported key is down on any connected
\* device: a key that is counted once is counted until its release is handed on or
\* blocked, and then the queue is not empty
\* (EventInputQueue::resetInternalStateIfNeeded, PressingPhysicalKeys::update).
THEOREM ResetOnlyWhenReleasedHolds ==
  ASSUME Items = << >>, ~ignore_bouncing_events, ~disable_internal_keyboard \/ MaxToggles = 0 \/ BlockKeys = {}
  PROVE  Spec => ResetOnlyWhenReleased
<1>1. TypeOK /\ Follows' /\ [Next]_vars
        => [FiredLast /\ NeedsReset(queue_') => \A d \in attached : \A k \in held[d] : ~Reported(d, k)]_vars
  <2> SUFFICES ASSUME TypeOK, Follows', [Next]_vars, FiredLast, NeedsReset(queue_'),
                      NEW d \in attached, NEW k \in held[d], Reported(d, k)
               PROVE  FALSE
    OBVIOUS
  <2>1. attached' = attached
    BY FiredSteps DEF FiredLast
  <2>2. k \in DownUps \ CapsLock /\ <<d, k>> \notin Ignored /\ (d \notin Internal \/ ~disable_internal_keyboard)
    BY DEF Reported, TypeOK, DeviceTypeOK
  <2>3. pressingPhysicalKeys'[d][k] = 0
    BY <2>1, <2>2 DEF NeedsReset, NoPressingPhysicalKeys
  <2> QED
    BY <2>2, <2>3, FiredLastFacts
<1> QED
  BY <1>1, FollowsHolds, PTL DEF Spec, ResetOnlyWhenReleased

\* When everything is up and the last event is handed on, the internal state is reset
\* and no key is left pressed in it.  The counts can stay above zero where one press is
\* counted twice (allow_devices_multiple_same_key and a replayed press), or where the
\* release is dropped (a disabled internal keyboard)
\* (EventInputQueue::resetInternalStateIfNeeded, PressingPhysicalKeys::update).
THEOREM ResetWhenReleasedHolds ==
  ASSUME Items = << >>, ~ignore_bouncing_events, ~allow_devices_multiple_same_key, ~disable_internal_keyboard
  PROVE  Spec => ResetWhenReleased
<1>1. TypeOK /\ Follows' /\ [Next]_vars
        => [FiredLast /\ (\A d \in Devices : held[d] = {}) => NeedsReset(queue_') /\ internal' = {}]_vars
  <2> SUFFICES ASSUME TypeOK, Follows', [Next]_vars, FiredLast, \A d \in Devices : held[d] = {}
               PROVE  NeedsReset(queue_') /\ internal' = {}
    OBVIOUS
  <2>1. PICK q \in Seq(ItemType) : q # << >> /\ DoFire(q) /\ FiredNow = {Head(q)}
    BY FiredSteps DEF FiredLast
  <2>2. attached' = attached /\ attached \subseteq Devices /\ CapsLock \subseteq DownUps
    BY FiredSteps, ConstantsAssumption DEF FiredLast, TypeOK, DeviceTypeOK, DownUps
  <2>3. ASSUME NEW d \in attached, NEW k \in DownUps PROVE pressingPhysicalKeys'[d][k] = 0
    <3>1. CASE k \in CapsLock
      BY <2>2, <3>1 DEF Follows, CapsLockUncounted
    <3>2. CASE k \notin CapsLock
      <4>1. CASE <<d, k>> \in Ignored
        <5>1. Of(Seen', Ptr(d)', k) = {}
          BY <4>1 DEF Of, Ptr, Follows, Accepted
        <5>2. ~Pressed(Seen', Ptr(d)', k)
          BY <5>1, PressedNone
        <5> QED BY <3>2, <5>2, FiredLastFacts
      <4>2. CASE <<d, k>> \notin Ignored
        <5>1. k \notin held[d]
          BY <2>2
        <5> QED BY <3>2, <4>2, <5>1, FiredLastFacts
      <4> QED BY <4>1, <4>2
    <3> QED BY <3>1, <3>2
  <2>4. NeedsReset(queue_')
    BY <2>2, <2>3 DEF NeedsReset, NoPressingPhysicalKeys, FiredLast
  <2>5. IsDownUp(Head(q)) /\ queue_' = Tail(q)
    BY <2>1, Zenon DEF FiredLast, DoFire
  <2>6. internal' = {}
    BY <2>1, <2>4, <2>5 DEF DoFire
  <2> QED
    BY <2>4, <2>6
<1> QED
  BY <1>1, FollowsHolds, PTL DEF Spec, ResetWhenReleased
=============================================================================
