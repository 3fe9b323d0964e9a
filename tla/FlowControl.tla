---------------------------- MODULE FlowControl -----------------------------
(***************************************************************************)
(* What a receiver of a TCP connection promises to its sender, in terms of *)
(* sequence numbers: data arrives only within the granted window, is taken *)
(* in order and never before it arrived, the window never shrinks, and     *)
(* what is granted can be stored.                                          *)
(***************************************************************************)
EXTENDS Integers

CONSTANTS
  Window,   \* what is granted at the start
  Store     \* what the application stores itself

VARIABLES
  granted,  \* the sender may send up to here
  arrived,  \* the data that arrived
  taken     \* the data that was processed

vars == <<granted, arrived, taken>>

Init == granted = Window /\ arrived = 0 /\ taken = 0

(* Everything between taken and granted has its place. *)
Storable(g, t) == g - t <= Window + Store

(* Data arrives, and the receiver may store it and grant as much again. *)
Arrive ==
  /\ arrived' > arrived /\ arrived' <= granted
  /\ granted' \in {granted, granted + (arrived' - arrived)}
  /\ UNCHANGED taken

(* Stored data is moved on: the window opens. *)
Grant ==
  /\ granted' > granted
  /\ granted' - arrived <= Window
  /\ UNCHANGED <<arrived, taken>>

(* Data is processed. *)
Take ==
  /\ taken' > taken /\ taken' <= arrived
  /\ UNCHANGED <<granted, arrived>>

Next == (Arrive \/ Grant \/ Take) /\ Storable(granted', taken')

Spec == Init /\ [][Next]_vars

=============================================================================
