------------------------------ MODULE RemapFunc ------------------------------
(***************************************************************************)
(* The remap functions of a configuration: KeyToKey and those built from   *)
(* it.  DependingPressingPeriodKeyToKey (KeyOverlaidModifier and           *)
(* HoldingKeyToKey) sends other keys for a short, a long and a very long   *)
(* press; KeyDownUpToKey for a press nothing came between;                 *)
(* DoublePressModifier for two presses; IgnoreMultipleSameKeyPress drops   *)
(* all presses in a row but the first.                                     *)
(* An item of a configuration is [type, class, tokens, wait, filters,      *)
(* ignorePassThrough]; wait tells that its initial wait is not 0 ms.       *)
(* The KeyToKey objects inside an item i are its parts, with ids           *)
(* <<i, part>>; part ITEM stands for the function itself.  Its state st[i] *)
(* in the world: active_, periodtype_, isFromModifierDecreased_, saved,    *)
(* the sums of flagStatusWhenKeyPressed_, up (lastPhysicalEventType_ is    *)
(* UP), the EventWatcher target observed and any, interrupted_,            *)
(* pressCount_ (2 stands for all above 1) and needToIgnore_.  dpp is the   *)
(* timer of DependingPressingPeriodKeyToKey: target_ (0 for none) and on.  *)
(***************************************************************************)
EXTENDS KeyToKey

CONSTANT Configurations   \* each with its items, in a sequence

ItemTypes == {"KEYTOKEY", "KEYOVERLAIDMODIFIER", "HOLDINGKEYTOKEY", "KEYDOWNUPTOKEY", "DOUBLEPRESSMODIFIER",
              "IGNOREMULTIPLESAMEKEYPRESS", "PASSTHROUGH"}

\* A list of the XML file.
IsList(s) == Len(s) \in Nat /\ DOMAIN s = 1..Len(s)

\* A configuration is a list of items, each with the tokens of its autogen.
ASSUME ConfigurationsAssumption ==
    \A c \in DOMAIN Configurations :
        LET items == Configurations[c].items
        IN  /\ IsList(items)
            /\ \A i \in DOMAIN items :
                  /\ items[i].type \in ItemTypes
                  /\ IsList(items[i].tokens)
                  /\ \A n \in DOMAIN items[i].tokens :
                        LET token == items[i].tokens[n]
                        IN  /\ token.d \in {"code", "flag", "option"}
                            /\ token.d = "code" => token.v = Code(token.v.t, token.v.v)

PeriodParts == {"SHORT", "LONG", "LONG_LONG", "ONLY"}

-----------------------------------------------------------------------------
(* Building the items: the add methods *)

Token(d, v) == [d |-> d, v |-> v]
PseudoToken == Token("code", VK_PSEUDO_KEY)
IsOption(token, o) == token.d = "option" /\ token.v = o

PartsOf(type) ==
    CASE type = "KEYTOKEY" -> {"KTK"}
      [] type \in {"KEYOVERLAIDMODIFIER", "HOLDINGKEYTOKEY"} -> PeriodParts \cup {"BEFORE_AFTER"}
      [] type = "KEYDOWNUPTOKEY" -> {"FROM", "DOWNUP", "INTERRUPTED"}
      [] type = "DOUBLEPRESSMODIFIER" -> {"KTK", "FIRE"}
      [] type \in {"IGNOREMULTIPLESAMEKEYPRESS", "PASSTHROUGH"} -> {}

\* The constructors.
NewItem(type) ==
    [parts |-> [p \in PartsOf(type) |-> IF p \in PeriodParts \cup {"BEFORE_AFTER"}
                                        THEN AddToken(NewKeyToKey, PseudoToken) ELSE NewKeyToKey],
     from |-> VK_NONE, fromFlags |-> {}, interruptible |-> TRUE, index |-> 0, separator |-> FALSE,
     mode |-> type, target |-> IF type = "KEYOVERLAIDMODIFIER" THEN "HOLDING" ELSE "NORMAL"]

AddToParts(b, P, token) ==
    [b EXCEPT !.parts = [p \in DOMAIN b.parts |-> IF p \in P THEN AddToken(b.parts[p], token) ELSE b.parts[p]]]

\* KeyOverlaidModifier::addToDependingPressingPeriodKeyToKey
OverlaidParts(b) ==
    CASE b.target = "HOLDING" -> {"LONG"}
      [] b.target = "NORMAL" -> {"SHORT", "LONG_LONG", "ONLY"}
      [] b.target = "REPEAT_TOKEYS" -> {"LONG_LONG"}
      [] b.target = "BEFORE_AFTER" -> {"BEFORE_AFTER"}

AddOverlaidOption(b, token) ==
    CASE token.v = "KEYOVERLAIDMODIFIER_REPEAT" -> [b EXCEPT !.mode = "WITH_REPEAT"]
      [] token.v = "KEYOVERLAIDMODIFIER_REPEAT_TOKEYS" ->
           [b EXCEPT !.target = "REPEAT_TOKEYS", !.parts["LONG_LONG"] = ClearToKeys(@)]
      [] token.v = "USE_SEPARATOR" -> [b EXCEPT !.separator = TRUE]
      [] token.v = "SEPARATOR" ->
           IF b.index >= 2 /\ b.target = "HOLDING" THEN [b EXCEPT !.target = "NORMAL"] ELSE b
      [] token.v = "NOREPEAT" ->
           AddToParts(b, IF b.target = "REPEAT_TOKEYS" THEN {"LONG_LONG"} ELSE {"LONG"}, token)
      [] token.v \in {"KEYTOKEY_BEFORE_KEYDOWN", "KEYTOKEY_AFTER_KEYUP"} ->
           AddToParts([b EXCEPT !.target = "BEFORE_AFTER"], {"BEFORE_AFTER"}, token)
      [] OTHER -> b

\* KeyOverlaidModifier::add
AddOverlaid(b, token) ==
    LET t == IF ~b.separator /\ b.index >= 2 /\ b.target = "HOLDING" THEN [b EXCEPT !.target = "NORMAL"] ELSE b
    IN  CASE token.d = "code" /\ b.index = 0 -> [b EXCEPT !.from = token.v, !.index = 1]
          [] token.d = "code" /\ b.index > 0 -> [AddToParts(t, OverlaidParts(t), token) EXCEPT !.index = @ + 1]
          [] token.d = "flag" /\ b.index = 0 -> b
          [] token.d = "flag" /\ b.index = 1 -> [b EXCEPT !.fromFlags = @ \cup {token.v}]
          [] token.d = "flag" /\ b.index > 1 -> AddToParts(b, OverlaidParts(b), token)
          [] token.d = "option" -> AddOverlaidOption(b, token)

\* HoldingKeyToKey::addToDependingPressingPeriodKeyToKey
AddHoldingKey(b, token) ==
    CASE b.target = "BEFORE_AFTER" -> AddToParts(b, {"BEFORE_AFTER"}, token)
      [] b.target # "BEFORE_AFTER" /\ IsOption(token, "UNINTERRUPTIBLE_BY_SCROLL_WHEEL") ->
           [b EXCEPT !.interruptible = FALSE]
      [] OTHER -> AddToParts(b, {IF b.target = "NORMAL" THEN "SHORT" ELSE "LONG"}, token)

\* HoldingKeyToKey::add
AddHolding(b, token) ==
    CASE token.d = "code" /\ b.index = 0 -> [b EXCEPT !.from = token.v, !.index = 1]
      [] token.d = "code" /\ b.index > 0 ->
           [(IF ~b.separator /\ token.v = VK_NONE /\ b.target = "NORMAL" THEN [b EXCEPT !.target = "HOLDING"]
             ELSE AddHoldingKey(b, token)) EXCEPT !.index = @ + 1]
      [] token.d # "code" /\ b.index = 0 -> [b EXCEPT !.separator = @ \/ IsOption(token, "USE_SEPARATOR")]
      [] token.d # "code" /\ b.index = 1 ->
           IF token.d = "flag" THEN [b EXCEPT !.fromFlags = @ \cup {token.v}] ELSE b
      [] token.d # "code" /\ b.index > 1 ->
           CASE IsOption(token, "SEPARATOR") ->
                  [b EXCEPT !.target = IF @ = "NORMAL" THEN "HOLDING" ELSE @]
             [] IsOption(token, "KEYTOKEY_BEFORE_KEYDOWN") \/ IsOption(token, "KEYTOKEY_AFTER_KEYUP") ->
                  AddToParts([b EXCEPT !.target = "BEFORE_AFTER"], {"BEFORE_AFTER"}, token)
             [] OTHER -> AddHoldingKey(b, token)

\* KeyDownUpToKey::add; index 0 to 3 for INDEXTYPE_NONE, FROM, DOWNUP and
\* INTERRUPTED.  Every key of the last kind replaces those before it.
AddDownUp(b, token) ==
    CASE token.d = "code" /\ b.index = 0 ->
           [AddToParts(AddToParts(AddToParts(b, {"FROM"}, token), {"DOWNUP", "INTERRUPTED"}, PseudoToken),
                       {"INTERRUPTED"}, token) EXCEPT !.index = 1]
      [] token.d = "code" /\ b.index \in {1, 2} -> [AddToParts(b, {"DOWNUP"}, token) EXCEPT !.index = 2]
      [] token.d = "code" /\ b.index = 3 ->
           AddToParts([b EXCEPT !.parts["INTERRUPTED"] = ClearToKeys(@)], {"INTERRUPTED"}, token)
      [] token.d = "flag" ->
           AddToParts(b, CASE b.index = 0 -> {} [] b.index = 1 -> DOMAIN b.parts
                           [] b.index = 2 -> {"DOWNUP"} [] b.index = 3 -> {"INTERRUPTED"}, token)
      [] token.d = "option" -> IF token.v = "SEPARATOR" THEN [b EXCEPT !.index = 3] ELSE b

\* DoublePressModifier::add
AddDoublePress(b, token) ==
    LET double == b.target = "HOLDING" \/ (token.d = "code" /\ ~b.separator /\ b.index >= 2)
        c == IF double THEN [b EXCEPT !.target = "HOLDING"] ELSE b
        P == IF double THEN {"FIRE"} ELSE {"KTK"}
    IN  CASE token.d = "code" /\ b.index = 0 ->
               [AddToParts(AddToParts(b, {"KTK"}, token), {"FIRE"}, PseudoToken) EXCEPT !.index = 1]
          [] token.d = "code" /\ b.index > 0 -> [AddToParts(c, P, token) EXCEPT !.index = @ + 1]
          [] token.d = "flag" -> IF b.index = 0 THEN b ELSE AddToParts(b, IF b.index = 1 THEN {"KTK", "FIRE"} ELSE P, token)
          [] IsOption(token, "USE_SEPARATOR") -> [b EXCEPT !.separator = TRUE]
          [] IsOption(token, "SEPARATOR") -> IF b.index >= 2 THEN [b EXCEPT !.target = "HOLDING"] ELSE b
          [] OTHER -> AddToParts(b, P, token)

\* IgnoreMultipleSameKeyPress::add
AddIgnore(b, token) ==
    CASE token.d = "code" -> [b EXCEPT !.from = token.v]
      [] token.d = "flag" -> [b EXCEPT !.fromFlags = @ \cup {token.v}]
      [] token.d = "option" -> b

Add(type, b, token) ==
    CASE type = "KEYTOKEY" -> AddToParts(b, {"KTK"}, token)
      [] type = "KEYOVERLAIDMODIFIER" -> AddOverlaid(b, token)
      [] type = "HOLDINGKEYTOKEY" -> AddHolding(b, token)
      [] type = "KEYDOWNUPTOKEY" -> AddDownUp(b, token)
      [] type = "DOUBLEPRESSMODIFIER" -> AddDoublePress(b, token)
      [] type = "IGNOREMULTIPLESAMEKEYPRESS" -> AddIgnore(b, token)
      [] type = "PASSTHROUGH" -> b

MainPart(type) ==
    CASE type \in {"KEYTOKEY", "DOUBLEPRESSMODIFIER"} -> "KTK"
      [] type = "KEYDOWNUPTOKEY" -> "FROM"
      [] OTHER -> "ITEM"

\* The item of the configuration once its function b is built.
WithFunction(item, b, main) ==
    [type |-> item.type, class |-> item.class, wait |-> item.wait, filters |-> item.filters,
     ignorePassThrough |-> item.ignorePassThrough, parts |-> b.parts, mode |-> b.mode,
     interruptible |-> b.interruptible, main |-> main,
     from |-> IF main = "ITEM" THEN b.from ELSE b.parts[main].from,
     fromFlags |-> IF main = "ITEM" THEN b.fromFlags ELSE b.parts[main].fromFlags]

\* RemapClass::Item::Item
NewRemapClassItem(item) ==
    WithFunction(item, FoldLeft(LAMBDA b, token : Add(item.type, b, token), NewItem(item.type), item.tokens),
                 MainPart(item.type))

\* The items of every configuration.
Items == [c \in DOMAIN Configurations |->
             [i \in DOMAIN Configurations[c].items |-> NewRemapClassItem(Configurations[c].items[i])]]
=============================================================================
