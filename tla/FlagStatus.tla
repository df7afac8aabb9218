----------------------------- MODULE FlagStatus -----------------------------
(***************************************************************************)
(* FlagStatus and ButtonStatus: how often each modifier and each pointing  *)
(* button is pressed.  A modifier is sent while the sum of its counts is   *)
(* positive: count_ by keys and remap functions, temporary_count_ for the  *)
(* event in hand, lock_count_ and negative_lock_count_ by lock keys,       *)
(* sticky_count_ until the next key, lazy_count_ once an event came.       *)
(* A FlagStatus is a function from flags to items; every method maps one   *)
(* to the next.  The status messages for the user are left out.            *)
(***************************************************************************)
EXTENDS Integers, Sequences, FiniteSets

CONSTANTS
    Modifiers,    \* the modifier flags, in the order of FlagStatus::item_
    CAPSLOCK,     \* ModifierFlag::CAPSLOCK, which counts nothing but its lock
    NONE,         \* ModifierFlag::NONE in a list of flags: "and no other"
    Buttons       \* pointing buttons

Flags == {Modifiers[i] : i \in DOMAIN Modifiers}

ASSUME FlagAssumption ==
    /\ Modifiers \in Seq(Flags) /\ NONE \notin Flags
    /\ \A i, j \in DOMAIN Modifiers : Modifiers[i] = Modifiers[j] => i = j
    /\ Buttons \cap Flags = {}

-----------------------------------------------------------------------------
(* FlagStatus *)

\* FlagStatus::Item
FlagItem == [count_ |-> 0, temporary_count_ |-> 0, lock_count_ |-> 0, negative_lock_count_ |-> 0,
             sticky_count_ |-> 0, lazy_count_ |-> 0, lazy_enabled_ |-> FALSE]

FlagItems == [count_ : Int, temporary_count_ : Int, lock_count_ : {0, 1}, negative_lock_count_ : {0, 1},
              sticky_count_ : {0, 1}, lazy_count_ : Int, lazy_enabled_ : BOOLEAN]

InitFlagStatus == [f \in Flags |-> FlagItem]

\* Item::sum
FlagSum(item, forceEnableLazy) ==
    item.count_ + item.temporary_count_ + item.lock_count_ - item.negative_lock_count_
      + item.sticky_count_ + (IF forceEnableLazy \/ item.lazy_enabled_ THEN item.lazy_count_ ELSE 0)

\* A method of the items applied to the flags of S.
Each(fs, S, Method(_)) == [f \in Flags |-> IF f \in S THEN Method(fs[f]) ELSE fs[f]]

\* increase and decrease, n[f] times; CapsLock toggles its lock when increased.
IncreaseBy(fs, n) ==
    [f \in Flags |-> IF f = CAPSLOCK THEN [fs[f] EXCEPT !.lock_count_ = (@ + n[f]) % 2]
                                     ELSE [fs[f] EXCEPT !.count_ = @ + n[f]]]

DecreaseBy(fs, n) ==
    [f \in Flags |-> IF f = CAPSLOCK THEN fs[f] ELSE [fs[f] EXCEPT !.count_ = @ - n[f]]]

Once(S) == [f \in Flags |-> IF f \in S THEN 1 ELSE 0]

Increase(fs, S) == IncreaseBy(fs, Once(S))
Decrease(fs, S) == DecreaseBy(fs, Once(S))

TemporaryIncrease(fs, S) == Each(fs, S, LAMBDA i : [i EXCEPT !.temporary_count_ = @ + 1])
TemporaryDecrease(fs, S) == Each(fs, S, LAMBDA i : [i EXCEPT !.temporary_count_ = @ - 1])
LazyIncrease(fs, S)      == Each(fs, S, LAMBDA i : [i EXCEPT !.lazy_count_ = @ + 1])
LazyDecrease(fs, S)      == Each(fs, S, LAMBDA i : [i EXCEPT !.lazy_count_ = @ - 1])
LockSet(fs, S, n)        == Each(fs, S, LAMBDA i : [i EXCEPT !.lock_count_ = n])

\* Mutant: a lock counts how often it was pressed.
LockToggleCounted(fs, S) == Each(fs, S, LAMBDA i : [i EXCEPT !.lock_count_ = @ + 1])

LockToggle(fs, S)        == Each(fs, S, LAMBDA i : [i EXCEPT !.lock_count_ = 1 - @])
NegativeLockSet(fs, S, n) == Each(fs, S, LAMBDA i : [i EXCEPT !.negative_lock_count_ = n])
NegativeLockToggle(fs, S) == Each(fs, S, LAMBDA i : [i EXCEPT !.negative_lock_count_ = 1 - @])
StickySet(fs, S, n)      == Each(fs, S, LAMBDA i : [i EXCEPT !.sticky_count_ = n])
StickyToggle(fs, S)      == Each(fs, S, LAMBDA i : [i EXCEPT !.sticky_count_ = 1 - @])

LockClear(fs)         == LockSet(fs, Flags, 0)
NegativeLockClear(fs) == NegativeLockSet(fs, Flags, 0)
StickyClear(fs)       == StickySet(fs, Flags, 0)

\* The flags sticky_active_modifiers_* work on.
Active(fs) == {f \in Flags : FlagSum(fs[f], TRUE) > 0}

\* set(): the temporary counts of the event before are forgotten.
SetTemporary(fs) == Each(fs, Flags, LAMBDA i : [i EXCEPT !.temporary_count_ = 0])

\* set(key, flags), for the key of flag f pressed (on) or released.
SetKey(fs, f, on) ==
    LET s == SetTemporary(fs)
    IN  IF f = CAPSLOCK THEN LockSet(s, {f}, IF on THEN 1 ELSE 0)
        ELSE IF on THEN Increase(s, {f}) ELSE Decrease(s, {f})

\* reset keeps locks and stickies.
ResetFlags(fs) ==
    Each(fs, Flags, LAMBDA i : [i EXCEPT !.count_ = 0, !.temporary_count_ = 0,
                                         !.lazy_count_ = 0, !.lazy_enabled_ = FALSE])

LazyEnable(fs) == Each(fs, Flags, LAMBDA i : [i EXCEPT !.lazy_enabled_ = TRUE])

LazyDisableIfOff(fs) ==
    Each(fs, Flags, LAMBDA i : [i EXCEPT !.lazy_enabled_ = @ /\ FlagSum(i, TRUE) > 0])

\* isOn(modifierFlags): all of F, and with NONE among them nothing else.
IsOn(fs, F) ==
    /\ F \ {NONE} \subseteq Active(fs)
    /\ NONE \in F => Active(fs) \subseteq F

IsLocked(fs, F) == \A f \in F \cap Flags : fs[f].lock_count_ > 0
IsStuck(fs, F)  == \A f \in F \cap Flags : fs[f].sticky_count_ > 0

MakeFlags(fs) == {f \in Flags : FlagSum(fs[f], FALSE) > 0}

\* A saved FlagStatus is only ever subtracted from another one: its sums.
Sums(fs) == [f \in Flags |-> FlagSum(fs[f], TRUE)]

\* subtract: how often a flag of a is on beyond b.
Subtract(a, b) == [f \in Flags |-> IF a[f] > b[f] THEN a[f] - b[f] ELSE 0]

\* ScopedSetter: the constructor makes the sums those of newval, the
\* destructor takes back what it did.
Scope(fs, newval) == [added |-> Subtract(Sums(fs), newval), removed |-> Subtract(newval, Sums(fs))]

EnterScope(fs, s) == IncreaseBy(DecreaseBy(fs, s.added), s.removed)

LeaveScope(fs, s) == DecreaseBy(IncreaseBy(fs, s.added), s.removed)

-----------------------------------------------------------------------------
(* ButtonStatus; no virtual key of the model locks a button *)

InitButtonStatus == [b \in Buttons |-> 0]

IncreaseButtons(bs, B) == [b \in Buttons |-> IF b \in B THEN bs[b] + 1 ELSE bs[b]]
DecreaseButtons(bs, B) == [b \in Buttons |-> IF b \in B THEN bs[b] - 1 ELSE bs[b]]

MakeButtons(bs) == {b \in Buttons : bs[b] > 0}
=============================================================================
