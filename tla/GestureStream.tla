--------------------------- MODULE GestureStream ---------------------------
(***************************************************************************)
(* What TouchHandler promises the callback registered with                 *)
(* set_touch_callback: the TouchEvents of one contact form a gesture that  *)
(* starts with TOUCH_DOWN, continues with TOUCH_MOVEs while the contact is *)
(* a drag, switches once and for all to SCROLL_UP/SCROLL_DOWN steps when   *)
(* it becomes a scroll, and ends with at most one TOUCH_UP (the click),    *)
(* which a scroll never gets.                                              *)
(*                                                                         *)
(* phase is where the current contact is; kinds is the list of the kinds   *)
(* of TouchEvent delivered since the last TOUCH_DOWN.                      *)
(***************************************************************************)
EXTENDS Sequences

VARIABLES phase, kinds

vars == <<phase, kinds>>

Phases == {"Idle", "Pressed", "Scrolling"}

ScrollKinds == {"SCROLL_UP", "SCROLL_DOWN"}

Init ==
  /\ phase = "Idle"
  /\ kinds = <<>>

\* A contact starts: the gesture is TOUCH_DOWN alone.
Press ==
  /\ phase = "Idle"
  /\ phase' = "Pressed"
  /\ kinds' = <<"TOUCH_DOWN">>

\* The contact is dragged: a TOUCH_MOVE, only before any scroll.
Drag ==
  /\ phase = "Pressed"
  /\ kinds' = Append(kinds, "TOUCH_MOVE")
  /\ UNCHANGED phase

\* The contact becomes a scroll, without a step yet.
Latch ==
  /\ phase = "Pressed"
  /\ phase' = "Scrolling"
  /\ UNCHANGED kinds

\* One scroll step; the contact is a scroll from now on.
Scroll ==
  /\ phase \in {"Pressed", "Scrolling"}
  /\ phase' = "Scrolling"
  /\ \E k \in ScrollKinds : kinds' = Append(kinds, k)

\* The contact ends with a click: only a contact that never scrolled.
Click ==
  /\ phase = "Pressed"
  /\ phase' = "Idle"
  /\ kinds' = Append(kinds, "TOUCH_UP")

\* The contact ends without a click.
Lift ==
  /\ phase # "Idle"
  /\ phase' = "Idle"
  /\ UNCHANGED kinds

Next == Press \/ Drag \/ Latch \/ Scroll \/ Click \/ Lift

Spec == Init /\ [][Next]_vars

=============================================================================
