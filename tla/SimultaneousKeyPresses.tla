----------------------- MODULE SimultaneousKeyPresses -----------------------
(***************************************************************************)
(* RemapFunc::SimultaneousKeyPresses: what one __SimultaneousKeyPresses__  *)
(* item does to the front of EventInputQueue::queue_.  The operators are   *)
(* pure: they take the queue and the list ActiveFromInfos and return the   *)
(* new ones; EventInputQueue applies them under the global lock.           *)
(*                                                                         *)
(* An item is of the two-key form "[1] => fromKey1_, [2] => fromKey2_":    *)
(*   [key1, key2, vk, strict, raw]                                         *)
(* where vk is virtualkey_ (or toKey_raw_), strict isStrictKeyOrder_ and   *)
(* raw isPostFromEventsAsRaw_.                                             *)
(***************************************************************************)
EXTENDS Naturals, Sequences, SequencesExt

CONSTANT VK_NONE      \* the key code for which push_remapped pushes nothing

\* A weak pointer to a hooked device: the device and its incarnation.
DevicePtr(x) == [dev |-> x.dev, gen |-> x.gen]

\* EventInputQueue::Item built by enqueue_(..., isSimultaneousKeyPressesTarget = false).
RawItem(id, key, down, ptr) ==
    [id |-> id, since |-> id, key |-> key, down |-> down, dev |-> ptr.dev, gen |-> ptr.gen,
     target |-> FALSE, replay |-> FALSE]

-----------------------------------------------------------------------------
\* Position n of the queue is a scanned down (up) event of key k.
TargetDown(q, n, k) == q[n].target /\ q[n].key = k /\ q[n].down
TargetUp(q, n, k)   == q[n].target /\ q[n].key = k /\ ~q[n].down

\* The scan stops at the first position by which both keys went down.
ScanEnds(item, q) ==
    {n \in DOMAIN q : \A k \in {item.key1, item.key2} : \E m \in 1..n : TargetDown(q, m, k)}

\* The scan from the front finds both keys down, none of them released
\* before, and in the order of the item if that is strict.
AllKeysDown(item, q) ==
    /\ q[1].target /\ q[1].down
    /\ q[1].key \in IF item.strict THEN {item.key1} ELSE {item.key1, item.key2}
    /\ \E n \in ScanEnds(item, q) :
          \A m \in 1..n : \A k \in {item.key1, item.key2} : ~TargetUp(q, m, k)

\* downKeys_[i].item: the last down event of k the scan met.
DownKey(item, q, k) ==
    LET n == CHOOSE n \in ScanEnds(item, q) : \A o \in ScanEnds(item, q) : n <= o
    IN  CHOOSE m \in 1..n : /\ TargetDown(q, m, k)
                            /\ \A o \in 1..n : TargetDown(q, o, k) => o <= m

-----------------------------------------------------------------------------
\* FromInfo::activate: the entry ActiveFromInfos keeps for key k of item r,
\* pressed on ptr, applied when front was the front event.
ActiveFromInfo(r, k, ptr, front, serial) ==
    [item |-> r, key |-> k, device |-> ptr, front |-> DevicePtr(front), serial |-> serial]

\* ActiveFromInfos::find(fromInfo, device): the oldest entry of that key there.
Find(r, active, x) ==
    {e \in active : e.item = r /\ e.key = x.key /\ e.device = DevicePtr(x)}
FindFirst(r, active, x) ==
    CHOOSE e \in Find(r, active, x) : \A o \in Find(r, active, x) : e.serial <= o.serial

\* push_remapped
PushRemapped(item, q, down, ptr) ==
    IF item.vk = VK_NONE THEN q ELSE <<RawItem(0, item.vk, down, ptr)>> \o q

\* Both keys are down: their events leave the queue, the virtual key goes to
\* its front; with raw the two events come back behind it, as non-targets of
\* the front device.
ApplyDown(r, item, q, active, live, serial) ==
    LET p1 == DownKey(item, q, item.key1)
        p2 == DownKey(item, q, item.key2)
        front == q[1]
        rest == IF p1 < p2 THEN RemoveAt(RemoveAt(q, p2), p1) ELSE RemoveAt(RemoveAt(q, p1), p2)
        raws == IF item.raw
                THEN <<RawItem(q[p1].id, item.key1, TRUE, DevicePtr(front)),
                       RawItem(q[p2].id, item.key2, TRUE, DevicePtr(front))>>
                ELSE << >>
    IN  [result |-> "APPLIED",
         queue  |-> PushRemapped(item, raws \o rest, TRUE, DevicePtr(front)),
         active |-> {e \in active : e.device \in live}
                      \cup {ActiveFromInfo(r, item.key1, DevicePtr(q[p1]), front, serial),
                            ActiveFromInfo(r, item.key2, DevicePtr(q[p2]), front, serial)},
         removed |-> IF item.raw THEN {} ELSE {q[p1].id, q[p2].id}]

\* Mutant: the first release brings the virtual key up.
ApplyUpFirst(r, item, q, active, live) ==
    LET e == FindFirst(r, active, q[1])
    IN  [result |-> "APPLIED",
         queue  |-> PushRemapped(item, Tail(q), FALSE, e.front),
         active |-> {o \in active : o.device \in live} \ {e},
         removed |-> {q[1].id}]

\* Mutant: the release stays in the queue.
ApplyUpKept(r, item, q, active, live) ==
    LET e    == FindFirst(r, active, q[1])
        left == {o \in active : o.device \in live} \ {e}
        done == ~\E o \in left : o.item = r /\ o.serial = e.serial
    IN  [result |-> IF done THEN "APPLIED" ELSE "QUEUE_CHANGED",
         queue  |-> IF done THEN PushRemapped(item, q, FALSE, e.front) ELSE q,
         active |-> left,
         removed |-> {q[1].id}]

\* The front event releases a key of an applied item: it leaves the queue (or
\* passes as a non-target when raw); the last one brings the virtual key up.
ApplyUp(r, item, q, active, live) ==
    LET e    == FindFirst(r, active, q[1])
        left == {o \in active : o.device \in live} \ {e}
        rest == IF item.raw THEN [q EXCEPT ![1].target = FALSE] ELSE Tail(q)
        done == ~\E o \in left : o.item = r /\ o.serial = e.serial
    IN  [result |-> IF done THEN "APPLIED" ELSE "QUEUE_CHANGED",
         queue  |-> IF done THEN PushRemapped(item, rest, FALSE, e.front) ELSE rest,
         active |-> left,
         removed |-> IF item.raw THEN {} ELSE {q[1].id}]

\* remapSimultaneousKeyPresses of item r on the queue q.
RemapSimultaneousKeyPresses(r, item, q, active, live, serial) ==
    IF q # << >> /\ q[1].target /\ ~q[1].down /\ q[1].key \in {item.key1, item.key2}
         /\ Find(r, active, q[1]) # {}
    THEN ApplyUp(r, item, q, active, live)
    ELSE IF q # << >> /\ AllKeysDown(item, q)
    THEN ApplyDown(r, item, q, active, live, serial)
    ELSE [result |-> "NOT_CHANGED", queue |-> q, active |-> active, removed |-> {}]
=============================================================================
