------------------------------- MODULE Input -------------------------------
(***************************************************************************)
(* Keyboard and mouse of a remote viewer, from the calls that spice-server *)
(* and the uinput FIFO make to what is pressed on the X server.            *)
(*                                                                         *)
(* spice.c pushes key fragments and tablet events, agent.c reads events    *)
(* that spice-vdagentd writes to a FIFO, and session.c turns both into     *)
(* XTest requests, against the one button state that it keeps.  All of it  *)
(* runs in the main thread, but the FIFO delays one of the two ways.       *)
(*                                                                         *)
(* Button masks are sets of bits.  External: spice-server, which sends the *)
(* mouse to the agent while that is connected and to the tablet otherwise, *)
(* and which releases the keys, but not the buttons, of a viewer that      *)
(* leaves; vdagentd, which writes what has changed since it last wrote.    *)
(***************************************************************************)
EXTENDS Integers, Sequences, SequencesExt

CONSTANTS
    Keys,       \* keys as the fragments that spice-server pushes for them
    Buttons,    \* of "left", "right", "middle": those that viewers use
    Places,     \* positions of the pointer, as <<x, y>>
    MaxFifo     \* bound on the events in the FIFO

\* No key has the code 96: its release would be the escape.
Codes == (1 .. 127) \ {96}

ASSUME InputAssumption ==
    /\ Keys \subseteq ({<<c>> : c \in Codes} \cup {<<224, c>> : c \in Codes})
    /\ Buttons \subseteq {"left", "right", "middle"}
    /\ Places \subseteq Nat \X Nat
    /\ MaxFifo \in Nat

VARIABLES
    allow_control,     \* option
    escape,            \* spice_t
    buttons_state,     \* spice_t
    uinput_buttons_state, uinput_x, uinput_y,   \* agent_t
    x_keys, x_buttons, x_pointer,               \* X server: pressed, pointer
    pushing,           \* spice-server: fragments of a key still to be pushed
    viewer,            \* spice-server: "none", "connected", "leaving"
    keys, buttons, wheel, pointer,              \* what the viewer holds
    agent,             \* the agent takes the mouse: "never", "up", "gone"
    written,           \* vdagentd: the buttons it has written
    fifo,              \* events between vdagentd and x11spice
    synced, moved      \* history: this viewer has said something about its
                       \* buttons and pointer by the way that is in use

codeVars == <<escape, buttons_state, uinput_buttons_state, uinput_x, uinput_y>>
xVars == <<x_keys, x_buttons, x_pointer>>
mouseVars == <<buttons, wheel, pointer>>
agentVars == <<agent, written, fifo>>
historyVars == <<synced, moved>>
vars == <<allow_control, codeVars, xVars, pushing, viewer, keys, mouseVars, agentVars,
          historyVars>>

----------------------------------------------------------------------------
(* session.c                                                               *)

MIN_KEYCODE == 8
BUTTONS == 5

\* session_handle_key.  X has no keycode 0.
HandleKey(keycode, is_press) ==
    x_keys' = IF ~allow_control \/ keycode = 0 THEN x_keys
              ELSE IF is_press THEN x_keys \cup {keycode} ELSE x_keys \ {keycode}

\* session_handle_mouse_position
HandleMousePosition(x, y) == x_pointer' = IF allow_control THEN <<x, y>> ELSE x_pointer

\* session_handle_button_change: only what differs is sent to X.
HandleButtonChangeForgets(state) ==
    LET changed == ((state \ buttons_state) \cup (buttons_state \ state)) \cap (0 .. BUTTONS - 1)
    IN /\ x_buttons' = IF allow_control
                       THEN (x_buttons \ {i + 1 : i \in changed \ state})
                            \cup {i + 1 : i \in changed \cap state}
                       ELSE x_buttons
       /\ buttons_state' = IF allow_control THEN buttons_state \cup state ELSE buttons_state
HandleButtonChange(state) ==
    LET changed == ((state \ buttons_state) \cup (buttons_state \ state)) \cap (0 .. BUTTONS - 1)
    IN /\ x_buttons' = IF allow_control
                       THEN (x_buttons \ {i + 1 : i \in changed \ state})
                            \cup {i + 1 : i \in changed \cap state}
                       ELSE x_buttons
       /\ buttons_state' = IF allow_control THEN state ELSE buttons_state

\* convert_spice_buttons: middle and right change places, a turn of the wheel is a button.
ConvertSpiceButtons(motion, state) ==
    (state \ {1, 2})
    \cup {3 - i : i \in state \cap {1, 2}}
    \cup (IF motion > 0 THEN {4} ELSE {})
    \cup (IF motion < 0 THEN {3} ELSE {})

HandleMouseWheel(motion, state) == HandleButtonChange(ConvertSpiceButtons(motion, state))
HandleMouseButtons(state) == HandleButtonChange(ConvertSpiceButtons(0, state))

----------------------------------------------------------------------------
(* spice.c: the keyboard, and the state of the tablet's buttons as spice-  *)
(* server has them.                                                        *)

Escaped == {<<28, 104>>, <<29, 105>>, <<53, 106>>, <<55, 107>>, <<56, 108>>, <<70, 127>>,
            <<71, 110>>, <<72, 111>>, <<73, 112>>, <<75, 113>>, <<77, 114>>, <<79, 115>>,
            <<80, 116>>, <<81, 117>>, <<82, 118>>, <<83, 119>>, <<91, 133>>, <<92, 134>>,
            <<93, 135>>}
escaped_map ==
    [c \in 0 .. 127 |->
        IF \E p \in Escaped : p[1] = c THEN (CHOOSE p \in Escaped : p[1] = c)[2] ELSE 0]

\* kbd_push_key
KbdPushKeyEscapes ==
    /\ pushing # <<>>
    /\ LET frag == Head(pushing)
           code == frag % 128
       IN IF frag = 224 THEN escape' = frag /\ UNCHANGED x_keys
          ELSE /\ UNCHANGED escape
               /\ HandleKey(IF escape = 224 THEN escaped_map[code] ELSE code + MIN_KEYCODE,
                            frag < 128)
    /\ pushing' = Tail(pushing)
    /\ UNCHANGED <<allow_control, buttons_state, uinput_buttons_state, uinput_x, uinput_y,
                   x_buttons, x_pointer, viewer, keys, mouseVars, agentVars, historyVars>>
KbdPushKey ==
    /\ pushing # <<>>
    /\ LET frag == Head(pushing)
           code == frag % 128
       IN IF frag = 224 THEN escape' = frag /\ UNCHANGED x_keys
          ELSE /\ escape' = 0
               /\ HandleKey(IF escape = 224 THEN escaped_map[code] ELSE code + MIN_KEYCODE,
                            frag < 128)
    /\ pushing' = Tail(pushing)
    /\ UNCHANGED <<allow_control, buttons_state, uinput_buttons_state, uinput_x, uinput_y,
                   x_buttons, x_pointer, viewer, keys, mouseVars, agentVars, historyVars>>

\* spice-server has the right button in the second bit, and the middle one in the third.
LocalBit(b) == CASE b = "left" -> 0 [] b = "right" -> 1 [] b = "middle" -> 2
Local(bs) == {LocalBit(b) : b \in bs}

----------------------------------------------------------------------------
(* agent.c                                                                 *)

\* uinput_handle_key
UinputHandleKey(event) ==
    LET state == IF event.value > 0 THEN uinput_buttons_state \cup {LocalBit(event.code)}
                                    ELSE uinput_buttons_state \ {LocalBit(event.code)}
    IN /\ uinput_buttons_state' = state
       /\ HandleMouseButtons(state)
       /\ UNCHANGED <<uinput_x, uinput_y, x_pointer>>

\* uinput_handle_relative: the wheel's button is pressed and released again.  It is not in the
\* state before or after, so the two calls leave what a call without it would.
UinputHandleRelativePresses(event) ==
    LET turned == IF event.value = 1 THEN 3 ELSE 4
    IN /\ HandleMouseButtons(uinput_buttons_state \cup {turned})
       /\ UNCHANGED <<uinput_buttons_state, uinput_x, uinput_y, x_pointer>>
UinputHandleRelative(event) ==
    /\ HandleMouseButtons(uinput_buttons_state)
    /\ UNCHANGED <<uinput_buttons_state, uinput_x, uinput_y, x_pointer>>

\* uinput_handle_absolute: the two coordinates come one after the other.
UinputHandleAbsoluteForgets(event) ==
    LET x == IF event.code = "x" THEN event.value ELSE uinput_x
        y == IF event.code = "y" THEN event.value ELSE uinput_y
    IN /\ UNCHANGED <<uinput_x, uinput_y>>
       /\ HandleMousePosition(x, y)
       /\ UNCHANGED <<buttons_state, uinput_buttons_state, x_buttons>>
UinputHandleAbsolute(event) ==
    LET x == IF event.code = "x" THEN event.value ELSE uinput_x
        y == IF event.code = "y" THEN event.value ELSE uinput_y
    IN /\ uinput_x' = x /\ uinput_y' = y
       /\ HandleMousePosition(x, y)
       /\ UNCHANGED <<buttons_state, uinput_buttons_state, x_buttons>>

\* uinput_read_cb: the buffer holds one event, and vdagentd writes whole ones.
UinputReadCb ==
    /\ pushing = <<>>
    /\ fifo # <<>>
    /\ LET event == Head(fifo)
       IN CASE event.type = "key" -> UinputHandleKey(event)
            [] event.type = "rel" -> UinputHandleRelative(event)
            [] event.type = "abs" -> UinputHandleAbsolute(event)
    /\ fifo' = Tail(fifo)
    /\ UNCHANGED <<allow_control, escape, x_keys, pushing, viewer, keys, mouseVars, agent,
                   written, historyVars>>

----------------------------------------------------------------------------
Init ==
    /\ allow_control \in BOOLEAN
    /\ escape = 0 /\ buttons_state = {}
    /\ uinput_buttons_state = {} /\ uinput_x = 0 /\ uinput_y = 0
    /\ x_keys = {} /\ x_buttons = {} /\ x_pointer = <<0, 0>>
    /\ pushing = <<>> /\ viewer = "none" /\ keys = {}
    /\ buttons = {} /\ wheel = 0 /\ pointer = <<0, 0>>
    /\ agent = "never" /\ written = {} /\ fifo = <<>>
    /\ synced = FALSE /\ moved = FALSE

ViewerConnects ==
    /\ pushing = <<>>
    /\ viewer = "none"
    /\ viewer' = "connected"
    /\ synced' = FALSE /\ moved' = FALSE
    /\ UNCHANGED <<allow_control, codeVars, xVars, pushing, keys, mouseVars, agentVars>>

\* It goes at any moment, with keys and buttons held.
ViewerLeaves ==
    /\ pushing = <<>>
    /\ viewer = "connected"
    /\ viewer' = IF keys = {} THEN "none" ELSE "leaving"
    /\ buttons' = {} /\ wheel' = 0
    /\ synced' = FALSE /\ moved' = FALSE
    /\ UNCHANGED <<allow_control, codeVars, xVars, pushing, keys, pointer, agentVars>>

\* The fragments of a key that goes up have bit 7 set, the escape excepted.
Up(key) == [i \in DOMAIN key |-> IF key[i] = 224 THEN 224 ELSE key[i] + 128]

KeyGoes(key) ==
    /\ pushing = <<>>
    /\ \/ /\ viewer = "connected"
          /\ pushing' = key
          /\ keys' = keys \cup {key}
          /\ UNCHANGED viewer
       \/ /\ key \in keys
          /\ pushing' = Up(key)
          /\ keys' = keys \ {key}
          /\ viewer' = IF viewer = "leaving" /\ keys' = {} THEN "none" ELSE viewer
    /\ UNCHANGED <<allow_control, codeVars, xVars, mouseVars, agentVars, historyVars>>

Speaks == pushing = <<>> /\ viewer = "connected"

\* tablet_wheel, which spice-server calls for every press, and tablet_buttons.
ByTablet ==
    /\ agent # "up"
    /\ IF wheel' # 0 \/ (buttons \subseteq buttons' /\ buttons' # buttons)
          THEN HandleMouseWheel(wheel', Local(buttons'))
          ELSE HandleMouseButtons(Local(buttons'))
    /\ synced' = TRUE
    /\ UNCHANGED <<agentVars, x_pointer, moved>>

\* vdagentd writes an event for each button that differs from what it wrote last, and one for
\* a turn of the wheel.
KeyEvents(bs) ==
    LET Event(b) == [type |-> "key", code |-> b, value |-> IF b \in bs THEN 1 ELSE 0]
    IN SetToSeq({Event(b) : b \in (written \ bs) \cup (bs \ written)})
ByAgent ==
    /\ agent = "up"
    /\ LET turn == IF wheel' = 0 THEN <<>>
                   ELSE <<[type |-> "rel", code |-> "wheel", value |-> -wheel']>>
           events == KeyEvents(buttons') \o turn
       IN /\ fifo' = fifo \o events
          /\ synced' = (synced \/ events # <<>>)
    /\ Len(fifo') <= MaxFifo
    /\ written' = buttons'
    /\ UNCHANGED <<buttons_state, x_buttons, agent, x_pointer, moved>>

MouseButton ==
    /\ Speaks
    /\ \/ \E b \in Buttons :
             /\ buttons' = (buttons \ {b}) \cup ({b} \ buttons)
             /\ UNCHANGED wheel
       \/ /\ IF wheel = 0 THEN wheel' \in {-1, 1} ELSE wheel' = 0
          /\ UNCHANGED buttons
    /\ ByTablet \/ ByAgent
    /\ UNCHANGED <<allow_control, escape, uinput_buttons_state, uinput_x, uinput_y, x_keys,
                   pushing, viewer, keys, pointer>>

\* tablet_position, or through the agent, which writes the buttons as well.
MouseMoves ==
    /\ Speaks
    /\ pointer' \in Places
    /\ \/ /\ agent # "up"
          /\ HandleMousePosition(pointer'[1], pointer'[2])
          /\ UNCHANGED <<agentVars, synced>>
       \/ /\ agent = "up"
          /\ fifo' = fifo \o KeyEvents(buttons)
                     \o <<[type |-> "abs", code |-> "x", value |-> pointer'[1]],
                          [type |-> "abs", code |-> "y", value |-> pointer'[2]]>>
          /\ Len(fifo') <= MaxFifo
          /\ written' = buttons
          /\ synced' = (synced \/ KeyEvents(buttons) # <<>>)
          /\ UNCHANGED <<x_pointer, agent>>
    /\ moved' = TRUE
    /\ UNCHANGED <<allow_control, codeVars, x_keys, x_buttons, pushing, viewer, keys, buttons,
                   wheel>>

\* The agent connects once; when it is found dead stop_uinput closes the FIFO, with
\* whatever is in it.
AgentChanges ==
    /\ pushing = <<>>
    /\ \/ agent = "never" /\ agent' = "up"
       \/ agent = "up" /\ agent' = "gone"
    /\ fifo' = <<>>
    /\ synced' = FALSE /\ moved' = FALSE
    /\ UNCHANGED <<allow_control, codeVars, xVars, pushing, viewer, keys, mouseVars, written>>

Next ==
    \/ KbdPushKey \/ UinputReadCb
    \/ ViewerConnects \/ ViewerLeaves
    \/ \E key \in Keys : KeyGoes(key)
    \/ MouseButton \/ MouseMoves \/ AgentChanges

Spec == Init /\ [][Next]_vars

----------------------------------------------------------------------------
Event == [type : {"key"}, code : Buttons, value : {0, 1}]
         \cup [type : {"rel"}, code : {"wheel"}, value : {-1, 1}]
         \cup [type : {"abs"}, code : {"x", "y"}, value : Nat]

\* The type invariant.
TypeOK ==
    /\ allow_control \in BOOLEAN
    /\ escape \in {0, 224}
    /\ buttons_state \subseteq 0 .. BUTTONS - 1 /\ uinput_buttons_state \subseteq 0 .. 2
    /\ uinput_x \in Nat /\ uinput_y \in Nat
    /\ x_keys \subseteq 1 .. 255 /\ x_buttons \subseteq 1 .. BUTTONS /\ x_pointer \in Nat \X Nat
    /\ pushing \in Seq(0 .. 255)
    /\ viewer \in {"none", "connected", "leaving"}
    /\ keys \subseteq Keys /\ buttons \subseteq Buttons /\ wheel \in {-1, 0, 1}
    /\ pointer \in Nat \X Nat
    /\ agent \in {"never", "up", "gone"} /\ written \subseteq Buttons
    /\ fifo \in Seq(Event)
    /\ synced \in BOOLEAN /\ moved \in BOOLEAN

----------------------------------------------------------------------------
\* The reference for key codes: what X calls a key.
Keycode(key) == IF Len(key) = 1 THEN key[1] + 8 ELSE escaped_map[key[2]]

\* Two keys that X takes for one, of which it cannot have pressed one alone, are left out.
ASSUME KeysAreApart ==
    \A key, other \in Keys : Keycode(key) = Keycode(other) => key = other \/ Keycode(key) = 0

XButton(b) == CASE b = "left" -> 1 [] b = "middle" -> 2 [] b = "right" -> 3

\* The state that x11spice compares with is what X has pressed; and without allow_control
\* nothing reaches X at all.  (session_handle_button_change, two callers of different delay)
StateIsPressed ==
    IF allow_control THEN x_buttons = {i + 1 : i \in buttons_state}
    ELSE x_buttons = {} /\ x_keys = {} /\ x_pointer = <<0, 0>>

\* A key is pressed on X while a viewer holds it, and none without a viewer.  (kbd_push_key)
KeysAreHeld ==
    /\ allow_control /\ pushing = <<>> => x_keys = {Keycode(key) : key \in keys} \ {0}
    /\ viewer = "none" /\ pushing = <<>> => x_keys = {}

\* Once a viewer has used its buttons, the buttons that another viewer left pressed are
\* released, and X has pressed what the viewer holds and nothing else; a turn of the wheel
\* through the agent is over at once.  (session_handle_mouse_wheel, uinput_handle_relative)
ButtonsAreHeld ==
    allow_control /\ viewer = "connected" /\ synced /\ fifo = <<>> =>
        x_buttons = {XButton(b) : b \in buttons}
                    \cup (IF agent # "up" /\ wheel < 0 THEN {4} ELSE {})
                    \cup (IF agent # "up" /\ wheel > 0 THEN {5} ELSE {})

\* The pointer is where the viewer has moved it, although the agent's coordinates come one at
\* a time.  (session_handle_mouse_position, uinput_handle_absolute)
PointerFollows ==
    allow_control /\ viewer = "connected" /\ moved /\ fifo = <<>> => x_pointer = pointer
=============================================================================
