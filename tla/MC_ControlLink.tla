-------------------------- MODULE MC_ControlLink --------------------------
(***************************************************************************)
(* Instances of ControlLink for TLC: the spec section 8 click, a move and  *)
(* a scroll elsewhere on the 390x844 phone, a click off the screen (for   *)
(* setTarget's clamp), and HOME.                                           *)
(***************************************************************************)
EXTENDS ControlLink

MC_Start == {<<100, 300>>}

MC_Intents ==
  { [op |-> "Up", x |-> 195, y |-> 422],
    [op |-> "Up", x |-> 500, y |-> 900],
    [op |-> "Move", x |-> 60, y |-> 40],
    [op |-> "ScrollDown", x |-> 60, y |-> 40],
    [op |-> "Home"] }

MC_ClickAndMove ==
  { [op |-> "Up", x |-> 195, y |-> 422],
    [op |-> "Move", x |-> 60, y |-> 40] }

====
