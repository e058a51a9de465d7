---------------------------- MODULE UIInputProofs ----------------------------
(* Proofs about UIInput, for any keyboard and any mouse: what the view is   *)
(* told of keys, modifiers and buttons agrees with what is held.            *)
EXTENDS UIInput, TLAPS

\* Only keys of the keyboard are held.
HeldKeys == keys \subseteq Keys

\* What the inductive invariant says of the keys: what the window promises, and that
\* only keys of the keyboard are held.
KeysInv == HeldKeys /\ KeysAgree

\* The types of the events that the other callbacks fire.
LEMMA EventTypes ==
  /\ \A k \in Keys : \A action, held : KeyCallback(k, action, held) =>
       /\ event'.type = "KeyUp" <=> action \notin {"PRESS", "REPEAT"}
       /\ event'.type = "RawKeyDown" <=> action \in {"PRESS", "REPEAT"}
       /\ event'.type # "MouseMoved"
       /\ event'.code = VirtualKey(k)
  /\ \A b, action, held : MouseButtonCallback(b, action, held) =>
       /\ event'.type \notin {"KeyUp", "MouseMoved"}
       /\ event'.type = "MouseDown" <=> action = "PRESS"
       /\ event'.button = ViewButton(b)
  /\ CharCallback => event'.type \notin {"KeyUp", "MouseMoved"}
  /\ ScrollCallback => event'.type \notin {"KeyUp", "MouseMoved"}
  /\ CursorPosCallback => event'.type = "MouseMoved" /\ event'.button = MovingButton(buttons)
  BY DEF KeyCallback, KeyEvent, MouseButtonCallback, CharCallback, ScrollCallback, CursorPosCallback

\* A modifier is set while one of its keys is held, however many are.
LEMMA ModsOfMore ==
  ASSUME NEW held, NEW more, held \subseteq more,
         NEW m \in DOMAIN Modifiers, Modifiers[m] \cap held # {}
  PROVE  ViewModifier[m] \in ViewModifiers(ModsOf(held)) \cap ViewModifiers(ModsOf(more))
<1>1. m \in ModsOf(held) /\ m \in ModsOf(more)
  BY DEF ModsOf
<1> QED BY <1>1 DEF ViewModifiers

\* A key goes down, or repeats.
LEMMA PressKeyAgrees ==
  ASSUME KeysInv, NEW k \in Keys, PressKey(k)
  PROVE  KeysInv'
<1>1. PICK action \in {"PRESS", "REPEAT"} : KeyCallback(k, action, keys \cup {k})
  BY DEF PressKey
<1>2. /\ keys' = keys \cup {k} /\ viewKeys' = viewKeys \cup {VirtualKey(k)}
      /\ masked' = masked \ SameCode(k)
  BY <1>1, EventTypes DEF KeyCallback
<1>3. event'.type # "KeyUp"
  BY <1>1, EventTypes
<1>4. viewKeys' \subseteq {VirtualKey(j) : j \in keys'}
  BY <1>2 DEF KeysInv, KeysAgree
<1>5. ASSUME NEW j \in keys' \ masked'
      PROVE  VirtualKey(j) \in viewKeys'
  <2>1. CASE VirtualKey(j) = VirtualKey(k)
    BY <1>2, <2>1
  <2>2. CASE VirtualKey(j) # VirtualKey(k)
    BY <1>2, <1>5, <2>2 DEF KeysInv, KeysAgree, SameCode
  <2> QED BY <2>1, <2>2
<1>6. HeldKeys'
  BY <1>2 DEF KeysInv, HeldKeys
<1> QED BY <1>3, <1>4, <1>5, <1>6 DEF KeysInv, KeysAgree

\* A key goes up, and the event tells the modifiers of before it or of after it.
LEMMA ReleaseKeyAgrees ==
  ASSUME KeysInv, NEW k \in Keys, ReleaseKey(k)
  PROVE  KeysInv'
<1>1. KeyCallback(k, "RELEASE", keys \ {k}) /\ k \in keys
  BY DEF ReleaseKey
<1>2. /\ keys' = keys \ {k} /\ viewKeys' = viewKeys \ {VirtualKey(k)} /\ focused' = focused
      /\ masked' = (masked \cup SameCode(k)) \cap keys'
  BY <1>1, EventTypes DEF KeyCallback
<1>3. viewKeys' \subseteq {VirtualKey(j) : j \in keys'}
  BY <1>2 DEF KeysInv, KeysAgree
<1>4. ASSUME NEW j \in keys' \ masked'
      PROVE  VirtualKey(j) \in viewKeys'
  <2>1. VirtualKey(j) # VirtualKey(k) /\ j \notin masked
    BY <1>2, <1>4 DEF KeysInv, HeldKeys, SameCode
  <2> QED BY <1>2, <1>4, <2>1 DEF KeysInv, KeysAgree
<1>5. ASSUME focused', NEW m \in DOMAIN Modifiers, NEW j \in keys' \cap Modifiers[m]
      PROVE  ViewModifier[m] \in event'.modifiers
  <2>1. event'.modifiers \in {ViewModifiers(ModsOf(keys)), ViewModifiers(ModsOf(keys \ {k}))}
    BY <1>1, <1>2, <1>5 DEF KeyCallback, ModsWith
  <2>2. Modifiers[m] \cap (keys \ {k}) # {} /\ keys \ {k} \subseteq keys
    BY <1>2, <1>5
  <2>3. ViewModifier[m] \in ViewModifiers(ModsOf(keys \ {k})) \cap ViewModifiers(ModsOf(keys))
    BY <2>2, ModsOfMore
  <2> QED BY <2>1, <2>3
<1>6. HeldKeys'
  BY <1>2 DEF KeysInv, HeldKeys
<1> QED BY <1>3, <1>4, <1>5, <1>6 DEF KeysInv, KeysAgree

\* No callback tells the view of a key or a modifier what is not so.
LEMMA KeysInvStep == KeysInv /\ [Next]_inputVars => KeysInv'
<1> SUFFICES ASSUME KeysInv, [Next]_inputVars
             PROVE  KeysInv'
  OBVIOUS
<1>1. ASSUME UNCHANGED <<keys, viewKeys, focused, masked>>, event'.type # "KeyUp"
      PROVE  KeysInv'
  BY <1>1 DEF KeysInv, HeldKeys, KeysAgree
<1>2. ASSUME NEW k \in Keys, PressKey(k) \/ ReleaseKey(k)
      PROVE  KeysInv'
  BY <1>2, PressKeyAgrees, ReleaseKeyAgrees
<1>3. ASSUME NEW b, PressButton(b) \/ ReleaseButton(b)
      PROVE  KeysInv'
  BY <1>1, <1>3, EventTypes DEF PressButton, ReleaseButton, MouseButtonCallback
<1>4. CASE ScrollCallback
  BY <1>1, <1>4, EventTypes DEF ScrollCallback
<1>5. CASE CharCallback
  BY <1>1, <1>5, EventTypes DEF CharCallback
<1>6. CASE CursorPosCallback
  BY <1>1, <1>6, EventTypes DEF CursorPosCallback
<1>7. CASE FocusCallback
  BY <1>7 DEF FocusCallback, viewVars, KeysInv, HeldKeys, KeysAgree
<1>8. CASE UNCHANGED inputVars
  BY <1>8 DEF inputVars, viewVars, KeysInv, HeldKeys, KeysAgree
<1> QED BY <1>2, <1>3, <1>4, <1>5, <1>6, <1>7, <1>8 DEF Next

\* For the view no key is down that nobody holds, a key that is held is down unless a
\* key of its code was released since one was pressed, and a twin that goes up leaves its modifier set.
THEOREM KeysToldAreHeld == Spec => []KeysAgree
<1>1. Init => KeysInv
  BY DEF Init, NoEvent, KeysInv, HeldKeys, KeysAgree
<1>2. KeysInv => KeysAgree
  BY DEF KeysInv
<1> QED BY <1>1, <1>2, KeysInvStep, PTL DEF Spec

-----------------------------------------------------------------------------
\* Of the buttons it knows, the view has seen pressed exactly those that are held.
ButtonsAgree == viewButtons \cap MainButtons = buttons \cap MainButtons

MovesInv == ButtonsAgree /\ MovesAgree

\* The button of a movement is one of the three that is held, if there is one.
LEMMA MovingIsHeld ==
  ASSUME NEW held
  PROVE  IF held \cap MainButtons = {} THEN MovingButton(held) = "None"
         ELSE MovingButton(held) \in held \cap MainButtons
  BY DEF MovingButton, MainButtons

\* No callback names a button that is not held for the view.
LEMMA MovesInvStep == MovesInv /\ [Next]_inputVars => MovesInv'
<1> SUFFICES ASSUME MovesInv, [Next]_inputVars
             PROVE  MovesInv'
  OBVIOUS
<1>1. "None" \notin MainButtons
  BY DEF MainButtons
<1>2. ASSUME UNCHANGED <<buttons, viewButtons>>, event'.type # "MouseMoved"
      PROVE  MovesInv'
  BY <1>2 DEF MovesInv, ButtonsAgree, MovesAgree
<1>3. ASSUME NEW k \in Keys, PressKey(k) \/ ReleaseKey(k)
      PROVE  MovesInv'
  BY <1>2, <1>3, EventTypes DEF PressKey, ReleaseKey, KeyCallback
<1>4. ASSUME NEW b, PressButton(b) \/ ReleaseButton(b)
      PROVE  MovesInv'
  <2>1. event'.type # "MouseMoved"
    BY <1>4, EventTypes DEF PressButton, ReleaseButton
  <2>2. \/ buttons' = buttons \cup {b} /\ viewButtons' = viewButtons \cup {ViewButton(b)}
        \/ buttons' = buttons \ {b} /\ viewButtons' = viewButtons \ {ViewButton(b)}
    BY <1>4, EventTypes DEF PressButton, ReleaseButton, MouseButtonCallback
  <2>3. ButtonsAgree'
    BY <1>1, <2>2 DEF MovesInv, ButtonsAgree, ViewButton
  <2> QED BY <2>1, <2>3 DEF MovesInv, MovesAgree
<1>5. CASE ScrollCallback
  BY <1>2, <1>5, EventTypes DEF ScrollCallback
<1>6. CASE CharCallback
  BY <1>2, <1>6, EventTypes DEF CharCallback
<1>7. CASE CursorPosCallback
  <2>1. ButtonsAgree' /\ UNCHANGED <<buttons, viewButtons>>
    BY <1>7 DEF CursorPosCallback, MovesInv, ButtonsAgree
  <2>2. event'.button = MovingButton(buttons)
    BY <1>7, EventTypes
  <2>3. MovesAgree'
    BY <1>1, <2>1, <2>2, MovingIsHeld DEF MovesInv, ButtonsAgree, MovesAgree
  <2> QED BY <2>1, <2>3 DEF MovesInv
<1>8. CASE UNCHANGED <<buttons, viewButtons, event>>
  BY <1>8 DEF MovesInv, ButtonsAgree, MovesAgree
<1>9. CASE FocusCallback
  BY <1>8, <1>9 DEF FocusCallback, viewVars
<1> QED BY <1>3, <1>4, <1>5, <1>6, <1>7, <1>8, <1>9 DEF Next, inputVars, viewVars

\* A movement names a button that the view has seen pressed and not released, and none
\* only if there is none.
THEOREM MovesNameHeld == Spec => []MovesAgree
<1>1. Init => MovesInv
  BY DEF Init, NoEvent, MovesInv, ButtonsAgree, MovesAgree
<1>2. MovesInv => MovesAgree
  BY DEF MovesInv
<1> QED BY <1>1, <1>2, MovesInvStep, PTL DEF Spec

=============================================================================
