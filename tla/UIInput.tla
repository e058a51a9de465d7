------------------------------- MODULE UIInput -------------------------------
(* The callbacks of UIEngine::UIWindow, called by GLFW from glfwPollEvents,  *)
(* one at a time: each translates an event of keyboard or mouse and fires it *)
(* at the view.  Several keys share a virtual key code, and a movement of    *)
(* the mouse names one button however many are held, so that what the view   *)
(* can know differs from what is held.                                       *)
CONSTANTS
  Keys,    \* the keys of the keyboard, by their GLFW names
  Buttons  \* the buttons of the mouse

VARIABLES
  focused,      \* GLFW: the window has the focus
  keys,         \* GLFW: the keys that are held
  buttons,      \* GLFW: the buttons that are held
  event,        \* the event last fired at the view
  viewKeys,     \* view: codes it was told are down, and not since that they are up
  viewButtons,  \* view: the same, of buttons
  masked        \* history: the keys that are held, of whose code a key was released
                \* and none pressed since

viewVars == <<event, viewKeys, viewButtons>>
inputVars == <<focused, keys, buttons, viewVars, masked>>

-----------------------------------------------------------------------------
(* The translations.                                                        *)

\* Keys that share their code with another one, or have none.
Shared ==
  [LEFT_SHIFT   |-> "GK_SHIFT",    RIGHT_SHIFT   |-> "GK_SHIFT",
   LEFT_CONTROL |-> "GK_CONTROL",  RIGHT_CONTROL |-> "GK_CONTROL",
   LEFT_ALT     |-> "GK_MENU",     RIGHT_ALT     |-> "GK_MENU",
   ENTER        |-> "GK_RETURN",   KP_ENTER      |-> "GK_RETURN",
   EQUAL        |-> "GK_OEM_PLUS", KP_EQUAL      |-> "GK_OEM_PLUS",
   WORLD_1      |-> "GK_UNKNOWN",  WORLD_2       |-> "GK_UNKNOWN",
   F25          |-> "GK_UNKNOWN",  MENU          |-> "GK_UNKNOWN"]

\* GLFWKeyCodeToUltralightKeyCode; a key that shares none has a code to itself.
VirtualKey(k) == IF k \in DOMAIN Shared THEN Shared[k] ELSE k

\* The modifiers of GLFW and the keys that set them.
Modifiers ==
  [MOD_ALT     |-> {"LEFT_ALT", "RIGHT_ALT"},
   MOD_CONTROL |-> {"LEFT_CONTROL", "RIGHT_CONTROL"},
   MOD_SUPER   |-> {"LEFT_SUPER", "RIGHT_SUPER"},
   MOD_SHIFT   |-> {"LEFT_SHIFT", "RIGHT_SHIFT"}]

ModsOf(held) == {m \in DOMAIN Modifiers : Modifiers[m] \cap held # {}}

ViewModifier ==
  [MOD_ALT |-> "AltKey", MOD_CONTROL |-> "CtrlKey", MOD_SUPER |-> "MetaKey",
   MOD_SHIFT |-> "ShiftKey"]

\* GLFWModsToUltralightMods.
ViewModifiers(mods) == {ViewModifier[m] : m \in mods}

MainButtons == {"Left", "Middle", "Right"}

\* The button of a click: the view knows three.
ViewButton(b) == IF b \in MainButtons THEN b ELSE "None"

\* Mutant: the middle button is forgotten.
MovingButtonOfTwo(held) ==
  IF "Left" \in held THEN "Left" ELSE IF "Right" \in held THEN "Right" ELSE "None"

\* The button of a movement, as glfwGetMouseButton tells which are held.
MovingButton(held) ==
  IF "Left" \in held THEN "Left"
  ELSE IF "Middle" \in held THEN "Middle"
  ELSE IF "Right" \in held THEN "Right" ELSE "None"

\* Mutant: a repetition is not a key that goes down.
KeyEventOnce(action) == IF action = "PRESS" THEN "RawKeyDown" ELSE "KeyUp"

\* The type of the event of a key.
KeyEvent(action) == IF action \in {"PRESS", "REPEAT"} THEN "RawKeyDown" ELSE "KeyUp"

NoEvent == [type |-> "None"]

-----------------------------------------------------------------------------
Init ==
  /\ focused = TRUE
  /\ keys = {} /\ buttons = {}
  /\ event = NoEvent
  /\ viewKeys = {} /\ viewButtons = {} /\ masked = {}

\* GLFW: the modifiers of an event are those of before it or of after it, as the
\* platform has it, and none if it releases the keys because the focus is gone.
ModsWith(held) == IF focused THEN {ModsOf(keys), ModsOf(held)} ELSE {{}}

SameCode(k) == {j \in Keys : VirtualKey(j) = VirtualKey(k)}

\* The key callback, after GLFW has noted that the keys `held` are held now.
KeyCallback(k, action, held) ==
  /\ keys' = held
  /\ \E mods \in ModsWith(held) :
       event' = [type |-> KeyEvent(action), code |-> VirtualKey(k),
                 modifiers |-> ViewModifiers(mods)]
  /\ viewKeys' = IF event'.type = "RawKeyDown" THEN viewKeys \cup {event'.code}
                                               ELSE viewKeys \ {event'.code}
  /\ masked' = IF action = "RELEASE" THEN (masked \cup SameCode(k)) \cap held
                                     ELSE masked \ SameCode(k)
  /\ UNCHANGED <<focused, buttons, viewButtons>>

\* GLFW calls a press of a key that is held already a repetition.
PressKey(k)   == focused /\ KeyCallback(k, IF k \in keys THEN "REPEAT" ELSE "PRESS", keys \cup {k})
ReleaseKey(k) == k \in keys /\ KeyCallback(k, "RELEASE", keys \ {k})

\* The char callback: text, after the press of a key or from an input method.
CharCallback ==
  /\ focused
  /\ event' = [type |-> "Char"]
  /\ UNCHANGED <<focused, keys, buttons, viewKeys, viewButtons, masked>>

MouseButtonCallback(b, action, held) ==
  /\ buttons' = held
  /\ event' = [type |-> IF action = "PRESS" THEN "MouseDown" ELSE "MouseUp",
               button |-> ViewButton(b)]
  /\ viewButtons' = IF event'.type = "MouseDown" THEN viewButtons \cup {event'.button}
                                                 ELSE viewButtons \ {event'.button}
  /\ UNCHANGED <<focused, keys, viewKeys, masked>>

PressButton(b)   == focused /\ b \notin buttons /\ MouseButtonCallback(b, "PRESS", buttons \cup {b})
ReleaseButton(b) == b \in buttons /\ MouseButtonCallback(b, "RELEASE", buttons \ {b})

\* The cursor callback; the cursor may be over a window that has not the focus.
CursorPosCallback ==
  /\ event' = [type |-> "MouseMoved", button |-> MovingButton(buttons)]
  /\ UNCHANGED <<focused, keys, buttons, viewKeys, viewButtons, masked>>

ScrollCallback ==
  /\ event' = [type |-> "ScrollByPixel"]
  /\ UNCHANGED <<focused, keys, buttons, viewKeys, viewButtons, masked>>

\* The callback for the focus does nothing, and the view is not told.  GLFW then
\* releases, one by one, everything that is held.
FocusCallback ==
  /\ focused \/ (keys = {} /\ buttons = {})
  /\ focused' = ~focused
  /\ UNCHANGED <<keys, buttons, viewVars, masked>>

Next ==
  \/ \E k \in Keys : PressKey(k) \/ ReleaseKey(k)
  \/ \E b \in Buttons : PressButton(b) \/ ReleaseButton(b)
  \/ CharCallback \/ CursorPosCallback \/ ScrollCallback \/ FocusCallback

Spec == Init /\ [][Next]_inputVars

-----------------------------------------------------------------------------
\* For the view no key is down that nobody holds, and a key that is held is down,
\* unless a key that shares its code was released since one of them was last
\* pressed or repeated.  When the view is told that a modifier is up while its twin
\* is held, the event's modifiers say so, as long as the window has the focus.
\* (The key callback; left and right shift, control and alt have the same codes.)
KeysAgree ==
  /\ viewKeys \subseteq {VirtualKey(k) : k \in keys}
  /\ \A k \in keys \ masked : VirtualKey(k) \in viewKeys
  /\ focused /\ event.type = "KeyUp" =>
       \A m \in DOMAIN Modifiers :
         \A k \in keys \cap Modifiers[m] :
           VirtualKey(k) = event.code => ViewModifier[m] \in event.modifiers

\* The button that a movement names is one that the view has seen pressed and not
\* released, and no button is named only if there is none: the state that the
\* cursor callback asks for agrees with the clicks reported before.
MovesAgree ==
  event.type = "MouseMoved" =>
    IF event.button = "None" THEN viewButtons \cap MainButtons = {}
                             ELSE event.button \in viewButtons

=============================================================================
