------------------------------ MODULE Rollover ------------------------------
(***************************************************************************)
(* The rollover logic of the keyboard window (keyboard.c): buttons of the  *)
(* window and keys of the host's keyboard are turned into the presses and  *)
(* releases that sim_key sends to the processor, one at a time.            *)
(*                                                                         *)
(* A button has a number, its place in the KML file, and a keycode, which  *)
(* the KML file gives it.  A handler makes up to two calls of sim_key;     *)
(* each is performed by the simulator thread before it returns, and the    *)
(* processor runs between the two (SimThread).                             *)
(***************************************************************************)
EXTENDS Integers, Sequences, FiniteSets, FiniteSetsExt

CONSTANTS Buttons,     \* the numbers of the buttons
          Keycode      \* user_keycode of each

ASSUME RolloverAssumption ==
  /\ Buttons \subseteq Nat
  /\ IsFiniteSet(Buttons)
  /\ Keycode \in [Buttons -> Int]

VARIABLES pressed,     \* the buttons with button->pressed set
          count,       \* csim->button_pressed_count
          first,       \* csim->button_pressed_first, 0 before the first press
          calls,       \* the calls of sim_key that the handler has still to make
          down,        \* the keys that the processor has been told are down
          recognised,  \* how often each button was recognised since it was pressed
          exited       \* has fatal() ended the process?

gui == <<pressed, count, first>>
rvars == <<gui, calls, down, recognised, exited>>

Call(k, state) == [key |-> k, state |-> state]

Often(n) == IF n < 2 THEN n + 1 ELSE 2     \* never, once, more often

RInit ==
  /\ pressed = {} /\ count = 0 /\ first = 0
  /\ calls = <<>>
  /\ down = {}
  /\ recognised = [b \in Buttons |-> 0]
  /\ exited = FALSE

-----------------------------------------------------------------------------
(* button_widget_pressed; a host key that repeats comes here again *)
Press_Repeats(b) ==  \* mutant: without the test of button->pressed
  /\ calls = <<>> /\ ~exited
  /\ pressed' = pressed \cup {b}
  /\ count' = count + 1
  /\ IF count' = 1
     THEN first' = Keycode[b] /\ calls' = <<Call(Keycode[b], TRUE)>>
     ELSE UNCHANGED <<first, calls>>
  /\ recognised' = [recognised EXCEPT ![b] = IF count' = 1 THEN 1 ELSE 0]
  /\ UNCHANGED <<down, exited>>

Press(b) ==
  /\ calls = <<>> /\ ~exited
  /\ b \notin pressed
  /\ pressed' = pressed \cup {b}
  /\ count' = count + 1
  /\ IF count' = 1
     THEN first' = Keycode[b] /\ calls' = <<Call(Keycode[b], TRUE)>>
     ELSE UNCHANGED <<first, calls>>
  /\ recognised' = [recognised EXCEPT ![b] = IF count' = 1 THEN 1 ELSE 0]
  /\ UNCHANGED <<down, exited>>

(* find_pressed_button: the number of the first button that is pressed *)
FindPressedButton(held) == Min(held)

(* Rolling over from the first key to the one that is left: the handler    *)
(* compares the number of the button with the keycode of the first key.    *)
RollOver_KeepsFirst(held) ==  \* mutant: button_pressed_first is not updated
  LET i == FindPressedButton(held)
  IN  IF i # first
      THEN /\ calls' = <<Call(first, FALSE), Call(Keycode[i], TRUE)>>
           /\ recognised' = [recognised EXCEPT ![i] = Often(@)]
           /\ UNCHANGED first
      ELSE UNCHANGED <<first, calls, recognised>>

RollOver(held) ==
  LET i == FindPressedButton(held)
  IN  IF i # first
      THEN /\ calls' = <<Call(first, FALSE), Call(Keycode[i], TRUE)>>
           /\ first' = Keycode[i]
           /\ recognised' = [recognised EXCEPT ![i] = Often(@)]
      ELSE UNCHANGED <<first, calls, recognised>>

(* button_widget_released; the release of a host key whose button was      *)
(* released with the mouse is ignored.                                     *)
Release(b) ==
  /\ calls = <<>> /\ ~exited
  /\ b \in pressed
  /\ pressed' = pressed \ {b}
  /\ count' = count - 1
  /\ IF count' = 0
     THEN calls' = <<Call(first, FALSE)>> /\ UNCHANGED <<first, recognised, exited>>
     ELSE IF count' = 1 /\ pressed' # {}
     THEN RollOver(pressed') /\ UNCHANGED exited
     ELSE exited' = (count' = 1)             \* "keyboard rollover error"
          /\ UNCHANGED <<calls, first, recognised>>
  /\ UNCHANGED down

(* sim_key: the processor has handled the event when the call returns. *)
SimKey ==
  /\ calls # <<>>
  /\ LET c == Head(calls)
     IN  down' = IF c.state THEN down \cup {c.key} ELSE down \ {c.key}
  /\ calls' = Tail(calls)
  /\ UNCHANGED <<gui, recognised, exited>>

RNext ==
  \/ \E b \in Buttons : Press(b) \/ Release(b)
  \/ SimKey

RSpec == RInit /\ [][RNext]_rvars /\ WF_rvars(SimKey)

-----------------------------------------------------------------------------
(* find_pressed_button finds one: "keyboard rollover error" is unreachable *)
(* because the count is the number of the buttons that are pressed.        *)
NoRolloverError == ~exited /\ count = Cardinality(pressed)

(* Whatever is pressed and released, between handlers the processor has    *)
(* exactly one key down while any button is, the one in                    *)
(* button_pressed_first, and none otherwise: no key is left stuck.         *)
NoStuckKey == calls = <<>> => down = IF pressed = {} THEN {} ELSE {first}

(* "if additional keys are pressed before the first key is released, none  *)
(* are recognized until all but one are released.  However, if all but the *)
(* first one are released, the first one is not recognized a second time": *)
(* the last key that is left has been recognised, and once.                *)
LastKeyIsRecognisedOnce ==
  \A b \in Buttons : pressed = {b} /\ calls = <<>> => recognised[b] = 1
=============================================================================
