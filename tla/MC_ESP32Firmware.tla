------------------------- MODULE MC_ESP32Firmware -------------------------
(***************************************************************************)
(* Instances of ESP32Firmware for TLC.  The phone is the sketch's default  *)
(* 390x844 iPhone 14, so home()'s 20 x 127 px reach its corner from        *)
(* anywhere.  The command lines are the ones spec section 8 and the       *)
(* sketch's own help text show.                                            *)
(***************************************************************************)
EXTENDS ESP32Firmware

MC_Start == {<<100, 300>>}

\* The setters, the rest of the verbs and a GOTO missing its y, for the
\* liveness run.
MC_Setters ==
  { [verb |-> "FACTOR", args |-> <<0>>],
    [verb |-> "FACTOR", args |-> <<200>>],
    [verb |-> "CALIBRATE", args |-> <<0, 0>>],
    [verb |-> "SCREEN", args |-> <<390, 844>>],
    [verb |-> "GOTO", args |-> <<60, 40>>],
    [verb |-> "SCROLL", args |-> <<60, 40, 1>>],
    [verb |-> "HSCROLL", args |-> <<60, 40, -1, 2>>],
    [verb |-> "SCROLL_UP", args |-> <<60, 40, 0>>],
    [verb |-> "STATUS", args |-> <<>>],
    [verb |-> "GOTO", args |-> <<10>>] }

\* The click of spec section 8 alone.
MC_Click == { [verb |-> "CLICK", args |-> <<195, 422>>] }

\* FACTOR 2.0 followed by a click: move() overshoots forever.
MC_Factor ==
  { [verb |-> "FACTOR", args |-> <<200>>],
    [verb |-> "CLICK", args |-> <<195, 422>>] }

====
