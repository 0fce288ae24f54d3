-------------------------- MODULE ControlLink_proofs --------------------------
(***************************************************************************)
(* Dead reckoning over the host link, for every phone size the sketch can  *)
(* home on, every set of intents, either dialect and every RX buffer size. *)
(*                                                                         *)
(* The host only ever writes CLICK, GOTO, SCROLL*, HOME, STATUS, MOVE and  *)
(* RESET, and a cut or glued line keeps its verb (or is garbled), so       *)
(* handleCommand never runs FACTOR, SCREEN or CALIBRATE: the correction    *)
(* factor stays 1.0 and the screen 390x844.  Each move() step is then the  *)
(* remaining distance capped at 50 px, the pointer never reaches a phone   *)
(* edge it would stop at, and home() ends in the corner.  Since the link   *)
(* never drops once paired, every report arrives, and currentX/currentY    *)
(* stay equal to the pointer.  Every move() step costs 70 ms and takes 50  *)
(* px off the remaining distance (or ends it), so moveTo reaches its       *)
(* target long before its 10 s timeout: every click lands on target.      *)
(***************************************************************************)
EXTENDS ControlLink, TLAPS, SequenceTheorems

\* setup()'s setScreenResolution(390, 844).
SETUP_W == 390
SETUP_H == 844

\* The phone is at least the screen setup() declares, so every target
\* setTarget clamps to is on the phone, and at most the 20 x 127 px home()
\* pushes, so home() ends in the corner from anywhere.
PhoneFits ==
  /\ PhoneW \in SETUP_W..(F!HOME_MOVES * F!HID_LIMIT)
  /\ PhoneH \in SETUP_H..(F!HOME_MOVES * F!HID_LIMIT)

-----------------------------------------------------------------------------
(* The inductive invariant.                                                *)

\* The verbs the host's lines (whole, cut or glued) can carry.
HostVerbs == {"CLICK", "GOTO", "SCROLL_UP", "SCROLL_DOWN", "HOME", "STATUS",
              "MOVE", "SCROLL", "RESET", "GARBLED"}
HostLine == [verb : HostVerbs, args : Seq(Int)]

\* How far moveTo still has to go (the larger axis), and what finishing
\* can still cost, in fifths of a ms: 70 ms per 50 px step, plus one
\* step's worth for the last partial one.
MaxN(a, b) == IF a >= b THEN a ELSE b
Dist == MaxN(F!AbsI(targetX - currentX), F!AbsI(targetY - currentY))
Pot(d) == IF d = 0 THEN 0 ELSE 7 * d + 350

\* The most 5 * elapsed + Pot(Dist) can be in moveTo: a home() first
\* (20 x 50 ms and a delay(50)), then the full height of the screen.
CLOCK_LIMIT == 5 * (50 * F!HOME_MOVES + 50) + Pot(SETUP_H)

LinkTypeOK ==
  /\ currentX \in Int /\ currentY \in Int
  /\ targetX \in 0..SETUP_W /\ targetY \in 0..SETUP_H
  /\ screenWidth = SETUP_W /\ screenHeight = SETUP_H /\ correctionFactor = 100
  /\ isHomed \in BOOLEAN
  /\ pc \in {"loop", "home", "move", "send", "after"}
  /\ homeStep \in 0..F!HOME_MOVES /\ homeCaller \in {"command", "move"}
  /\ elapsed \in Nat /\ step \in Int \X Int
  /\ after.kind \in {"none", "click", "wheel", "hwheel"}
  /\ connected \in BOOLEAN
  /\ ptr \in (0..PhoneW) \X (0..PhoneH)
  /\ hid \in Seq([kind : {"click", "wheel", "hwheel"}, at : Int \X Int, want : Int \X Int])
  /\ rx \in Seq(HostLine) /\ cut \in HostLine \cup {NoCut}
  /\ written \in Nat

\* The sketch only leaves loop(), and only homes, with the phone paired,
\* and the link never drops.
LinkUp == (pc # "loop" \/ isHomed) => connected

\* home(): each axis of the pointer is in the corner already or at most
\* 127 px per move left from the phone's edge; when moveTo called it, its
\* clock is exactly home()'s delays.
HomeProgress ==
  pc = "home" =>
    /\ ptr[1] = 0 \/ ptr[1] <= PhoneW - F!HID_LIMIT * homeStep
    /\ ptr[2] = 0 \/ ptr[2] <= PhoneH - F!HID_LIMIT * homeStep
    /\ homeCaller = "move" => elapsed = 50 * homeStep

\* Once homed and outside home(), the pointer is where the sketch thinks,
\* on the declared screen.
Tracked ==
  isHomed /\ pc # "home" =>
    /\ ptr = <<currentX, currentY>>
    /\ currentX \in 0..SETUP_W /\ currentY \in 0..SETUP_H

\* moveTo's clock against the work left; before homing it has not started.
Clock ==
  /\ pc \in {"move", "send"} /\ isHomed => 5 * elapsed + Pot(Dist) <= CLOCK_LIMIT
  /\ pc = "move" /\ ~isHomed => elapsed = 0

\* Between the two halves of move(): the step is the capped distance.
Sending ==
  pc = "send" =>
    /\ isHomed /\ ~F!Reached
    /\ step = <<F!AxisStep(targetX - currentX), F!AxisStep(targetY - currentY)>>

\* moveTo only ever returns at its target.
Arrived == pc = "after" => isHomed /\ F!Reached

LinkInv ==
  /\ LinkTypeOK /\ LinkUp /\ HomeProgress /\ Tracked /\ Clock /\ Sending /\ Arrived
  /\ HidOnTarget

-----------------------------------------------------------------------------
(* Lemmas on move()'s arithmetic at correction factor 1.0.                 *)

\* The step move() makes on one axis at factor 1.0: the distance, capped
\* at maxJumpDistance.
Cap(d) == IF d > F!MAX_JUMP THEN F!MAX_JUMP ELSE IF d < -F!MAX_JUMP THEN -F!MAX_JUMP ELSE d

LEMMA AxisStepUnit ==
  ASSUME correctionFactor = 100, NEW d \in Int
  PROVE  F!AxisStep(d) = Cap(d)
BY DEF F!AxisStep, F!Scale, F!constrain, F!AbsI, F!MAX_JUMP, F!HID_LIMIT, Cap

\* constrain(v, lo, hi) lands in lo..hi.
LEMMA ClampRange ==
  ASSUME NEW v \in Int, NEW lo \in Int, NEW hi \in Int, lo <= hi
  PROVE  F!constrain(v, lo, hi) \in lo..hi
BY DEF F!constrain

\* A step never overshoots: it lands between the position and the target.
LEMMA CapBetween ==
  ASSUME NEW c \in Int, NEW t \in Int
  PROVE  /\ c + Cap(t - c) \in (IF c <= t THEN c..t ELSE t..c)
         /\ Cap(t - c) = 0 <=> t = c
BY DEF Cap, F!MAX_JUMP

\* One step takes 50 px off the larger axis, or finishes; either way the
\* work left drops by at least one step's 70 ms (in fifths).
LEMMA PotStep ==
  ASSUME NEW dx \in Int, NEW dy \in Int,
         ~(F!AbsI(dx) <= F!REACHED /\ F!AbsI(dy) <= F!REACHED)
  PROVE  Pot(MaxN(F!AbsI(dx - Cap(dx)), F!AbsI(dy - Cap(dy)))) + 5 * 70
           <= Pot(MaxN(F!AbsI(dx), F!AbsI(dy)))
BY DEF Pot, MaxN, Cap, F!AbsI, F!REACHED, F!MAX_JUMP

\* Any move on the declared screen costs at most a full-height one.
LEMMA PotOnScreen ==
  ASSUME NEW cx \in 0..SETUP_W, NEW cy \in 0..SETUP_H,
         NEW tx \in 0..SETUP_W, NEW ty \in 0..SETUP_H
  PROVE  Pot(MaxN(F!AbsI(tx - cx), F!AbsI(ty - cy))) <= Pot(SETUP_H)
BY DEF Pot, MaxN, F!AbsI, SETUP_W, SETUP_H

-----------------------------------------------------------------------------
(* Lemmas on the host's lines.                                             *)

LEMMA FormatType ==
  ASSUME NEW i \in Intents
  PROVE  Format(i) \in HostLine
<1>1. (i.x \in Nat /\ i.y \in Nat) \/ i.op \in {"Home", "Status"}
  BY LinkAssumption DEF Intent
<1>2. i.op \in {"Up", "Move", "ScrollUp", "ScrollDown", "Home", "Status"}
  BY LinkAssumption DEF Intent
<1>3. QED
  BY <1>1, <1>2, LinkAssumption
  DEF Format, ESP32CommLine, CommandChannelLine, L, HostLine, HostVerbs, AMOUNT, Intent

\* The line Cuts(l) leaves when l is cut inside field k.
CutAt(l, k, d) == L(l.verb, SubSeq(l.args, 1, k - 1) \o <<Prefix(l.args[k], d)>>)

LEMMA CutsType ==
  ASSUME NEW l \in HostLine
  PROVE  Cuts(l) \subseteq HostLine
<1>1. L("GARBLED", <<>>) \in HostLine
  BY DEF L, HostLine, HostVerbs
<1>2. ASSUME NEW k \in DOMAIN l.args, NEW d \in {1, 10, 1000}
      PROVE  CutAt(l, k, d) \in HostLine
  <2>1. k \in 1..Len(l.args) /\ l.args[k] \in Int /\ l.args \in Seq(Int)
    BY <1>2 DEF HostLine
  <2>2. SubSeq(l.args, 1, k - 1) \in Seq(Int)
    BY <2>1, SubSeqProperties
  <2>3. Prefix(l.args[k], d) \in Int
    BY <1>2, <2>1 DEF Prefix
  <2>4. SubSeq(l.args, 1, k - 1) \o <<Prefix(l.args[k], d)>> \in Seq(Int)
    BY <2>2, <2>3, ConcatProperties
  <2>5. QED
    BY <2>4 DEF CutAt, L, HostLine
<1>3. Cuts(l) = {L("GARBLED", <<>>)} \cup
                {CutAt(l, k, d) : k \in DOMAIN l.args, d \in {1, 10, 1000}}
  BY DEF Cuts, CutAt
<1>4. QED
  BY <1>1, <1>2, <1>3

LEMMA MergeType ==
  ASSUME NEW c \in HostLine, NEW l \in HostLine
  PROVE  Merge(c, l) \in HostLine
BY ConcatProperties DEF Merge, L, HostLine

\* What the host's bytes do to the RX buffer keeps it a buffer of host lines.
LEMMA ArriveType ==
  ASSUME rx \in Seq(HostLine), cut \in HostLine \cup {NoCut},
         NEW l \in HostLine, Arrive(l)
  PROVE  rx' \in Seq(HostLine) /\ cut' \in HostLine \cup {NoCut}
<1>1. CASE cut # NoCut
  <2>1. Merge(cut, l) \in HostLine
    BY <1>1, MergeType
  <2>2. Cuts(l) \subseteq HostLine
    BY CutsType
  <2>3. QED
    BY <1>1, <2>1, <2>2 DEF Arrive
<1>2. CASE cut = NoCut
  BY <1>2, CutsType DEF Arrive
<1>3. QED
  BY <1>1, <1>2

-----------------------------------------------------------------------------
(* The invariant, step by step.                                            *)

\* The sketch's state in the sense of LinkInv: every variable but the RX
\* buffer, the host's counters and the ghosts.
sketch == <<F!fw, connected, ptr, hid>>

LEMMA InitInv ==
  ASSUME PhoneFits, Init
  PROVE  LinkInv
<1>1. ptr \in (0..PhoneW) \X (0..PhoneH)
  BY LinkAssumption DEF Init, F!Init
<1>2. rx \in Seq(HostLine) /\ cut \in HostLine \cup {NoCut}
  BY EmptySeq DEF Init, F!Init
<1>3. hid \in Seq([kind : {"click", "wheel", "hwheel"}, at : Int \X Int, want : Int \X Int])
  BY EmptySeq DEF Init, F!Init
<1>4. LinkTypeOK
  <2>1. step \in Int \X Int /\ after.kind \in {"none", "click", "wheel", "hwheel"}
    BY DEF Init, F!Init
  <2>2. isHomed \in BOOLEAN /\ connected \in BOOLEAN
    BY DEF Init, F!Init
  <2>3. /\ currentX \in Int /\ currentY \in Int
        /\ targetX \in 0..SETUP_W /\ targetY \in 0..SETUP_H
        /\ screenWidth = SETUP_W /\ screenHeight = SETUP_H /\ correctionFactor = 100
        /\ pc \in {"loop", "home", "move", "send", "after"}
        /\ homeStep \in 0..F!HOME_MOVES /\ homeCaller \in {"command", "move"}
        /\ elapsed \in Nat /\ written \in Nat
    BY DEF Init, F!Init, SETUP_W, SETUP_H, F!HOME_MOVES
  <2>4. QED
    BY <1>1, <1>2, <1>3, <2>1, <2>2, <2>3 DEF LinkTypeOK
<1>5. QED
  BY <1>4 DEF Init, F!Init, LinkInv, LinkUp, HomeProgress, Tracked, Clock, Sending,
            Arrived, HidOnTarget, F!HidOnTarget

\* A step that leaves the sketch alone and keeps the RX buffer a buffer of
\* host lines keeps the invariant.
LEMMA FrameInv ==
  ASSUME LinkInv, UNCHANGED sketch,
         rx' \in Seq(HostLine), cut' \in HostLine \cup {NoCut}, written' \in Nat
  PROVE  LinkInv'
<1> USE DEF sketch, F!fw
<1>1. LinkTypeOK'
  BY DEF LinkInv, LinkTypeOK
<1>2. (LinkUp /\ HomeProgress /\ Tracked)'
  BY DEF LinkInv, LinkUp, HomeProgress, Tracked
<1>3. (Clock /\ Sending /\ Arrived)'
  <2>1. Clock'
    BY DEF LinkInv, Clock, Dist
  <2>2. Sending'
    BY DEF LinkInv, Sending, F!Reached, F!AxisStep
  <2>3. Arrived'
    BY DEF LinkInv, Arrived, F!Reached
  <2>4. QED
    BY <2>1, <2>2, <2>3
<1>4. HidOnTarget'
  BY DEF LinkInv, HidOnTarget, F!HidOnTarget
<1>5. QED
  BY <1>1, <1>2, <1>3, <1>4 DEF LinkInv

\* The kinds of follow-up a moveTo can have.
AfterKinds == {"none", "click", "wheel", "hwheel"}

\* handleCommand on a line the host can produce does nothing, starts a
\* moveTo or starts home(): FACTOR, SCREEN and CALIBRATE never run.
LEMMA HandleCases ==
  ASSUME NEW c \in HostLine, F!Handle(c)
  PROVE  \/ UNCHANGED F!fw
         \/ /\ connected
            /\ \E x \in Int, y \in Int, th \in [kind : AfterKinds] \cup
                                              [kind : AfterKinds, dir : Int, amount : Int] :
                 F!StartMoveTo(x, y, th)
         \/ /\ connected /\ pc' = "home" /\ homeStep' = 0 /\ homeCaller' = "command"
            /\ UNCHANGED <<currentX, currentY, targetX, targetY, screenWidth, screenHeight,
                           isHomed, correctionFactor, elapsed, step, after>>
<1> DEFINE n == Len(c.args)
          Start == \E x \in Int, y \in Int, th \in [kind : AfterKinds] \cup
                                             [kind : AfterKinds, dir : Int, amount : Int] :
                     F!StartMoveTo(x, y, th)
<1>1. c.verb \in HostVerbs /\ c.args \in Seq(Int)
  BY DEF HostLine
<1>2. n >= 2 => c.args[1] \in Int /\ c.args[2] \in Int
  BY <1>1
<1>3. n >= 3 => c.args[3] \in Int
  BY <1>1
<1>4. F!Arg(c, 4, 1) \in Int /\ F!Arg(c, 3, 3) \in Int
  BY <1>1 DEF F!Arg
<1>5. CASE /\ ~connected \/ ~F!Recognised(c) \/ c.verb = "STATUS"
           /\ UNCHANGED F!fw
  BY <1>5
<1> DEFINE Kinds == [kind : AfterKinds] \cup [kind : AfterKinds, dir : Int, amount : Int]
<1>6. CASE connected /\ c.verb = "GOTO" /\ n >= 2
           /\ F!StartMoveTo(c.args[1], c.args[2], [kind |-> "none"])
  <2>1. [kind |-> "none"] \in Kinds
    BY DEF AfterKinds
  <2>2. QED
    BY <1>2, <1>6, <2>1, Zenon
<1>7. CASE connected /\ c.verb = "CLICK" /\ n >= 2
           /\ F!StartMoveTo(c.args[1], c.args[2], [kind |-> "click"])
  <2>1. [kind |-> "click"] \in Kinds
    BY DEF AfterKinds
  <2>2. QED
    BY <1>2, <1>7, <2>1, Zenon
<1>8. CASE /\ connected /\ c.verb \in {"SCROLL", "HSCROLL"} /\ n >= 3
           /\ F!StartMoveTo(c.args[1], c.args[2],
                            [kind |-> IF c.verb = "SCROLL" THEN "wheel" ELSE "hwheel",
                             dir |-> c.args[3], amount |-> F!Arg(c, 4, 1)])
  <2>1. [kind |-> IF c.verb = "SCROLL" THEN "wheel" ELSE "hwheel",
         dir |-> c.args[3], amount |-> F!Arg(c, 4, 1)] \in Kinds
    BY <1>3, <1>4, <1>8 DEF AfterKinds
  <2>2. c.args[1] \in Int /\ c.args[2] \in Int
    BY <1>2, <1>8
  <2>3. QED
    BY <1>8, <2>1, <2>2, Zenon
<1>9. CASE /\ connected /\ c.verb \in {"SCROLL_UP", "SCROLL_DOWN"} /\ n >= 2
           /\ F!StartMoveTo(c.args[1], c.args[2],
                            [kind |-> "wheel", dir |-> IF c.verb = "SCROLL_UP" THEN 1 ELSE -1,
                             amount |-> F!Arg(c, 3, 3)])
  <2>1. [kind |-> "wheel", dir |-> IF c.verb = "SCROLL_UP" THEN 1 ELSE -1,
         amount |-> F!Arg(c, 3, 3)] \in Kinds
    BY <1>4 DEF AfterKinds
  <2>2. QED
    BY <1>2, <1>9, <2>1, Zenon
<1>11. CASE /\ connected /\ c.verb = "HOME" /\ n = 0
            /\ pc' = "home" /\ homeStep' = 0 /\ homeCaller' = "command"
            /\ UNCHANGED <<currentX, currentY, targetX, targetY, screenWidth, screenHeight,
                           isHomed, correctionFactor, elapsed, step, after>>
  BY <1>11
<1>10. QED
  <2>1. ~(c.verb \in {"CALIBRATE", "SCREEN", "FACTOR"})
    BY <1>1 DEF HostVerbs
  <2>2. \/ /\ ~connected \/ ~F!Recognised(c) \/ c.verb = "STATUS"
           /\ UNCHANGED F!fw
        \/ /\ connected
           /\ \/ c.verb = "GOTO" /\ n >= 2 /\ F!StartMoveTo(c.args[1], c.args[2], [kind |-> "none"])
              \/ c.verb = "CLICK" /\ n >= 2 /\ F!StartMoveTo(c.args[1], c.args[2], [kind |-> "click"])
              \/ /\ c.verb \in {"SCROLL", "HSCROLL"} /\ n >= 3
                 /\ F!StartMoveTo(c.args[1], c.args[2],
                                  [kind |-> IF c.verb = "SCROLL" THEN "wheel" ELSE "hwheel",
                                   dir |-> c.args[3], amount |-> F!Arg(c, 4, 1)])
              \/ /\ c.verb \in {"SCROLL_UP", "SCROLL_DOWN"} /\ n >= 2
                 /\ F!StartMoveTo(c.args[1], c.args[2],
                                  [kind |-> "wheel", dir |-> IF c.verb = "SCROLL_UP" THEN 1 ELSE -1,
                                   amount |-> F!Arg(c, 3, 3)])
              \/ /\ c.verb = "HOME" /\ n = 0
                 /\ pc' = "home" /\ homeStep' = 0 /\ homeCaller' = "command"
                 /\ UNCHANGED <<currentX, currentY, targetX, targetY, screenWidth, screenHeight,
                                isHomed, correctionFactor, elapsed, step, after>>
    BY <2>1, Zenon DEF F!Handle
  <2>3. QED
    BY <1>5, <1>6, <1>7, <1>8, <1>9, <1>11, <2>2

\* What the serial side of a read leaves: the link, the pointer and the
\* HID history alone, the RX buffer a buffer of host lines.
HostFrame ==
  /\ UNCHANGED <<connected, ptr, hid>>
  /\ rx' \in Seq(HostLine) /\ cut' \in HostLine \cup {NoCut} /\ written' \in Nat

\* moveTo clamps its target onto the declared screen.
LEMMA StartMoveTarget ==
  ASSUME screenWidth = SETUP_W, screenHeight = SETUP_H,
         NEW x \in Int, NEW y \in Int, NEW th, F!StartMoveTo(x, y, th)
  PROVE  targetX' \in 0..SETUP_W /\ targetY' \in 0..SETUP_H
<1>1. targetX' = F!constrain(x, 0, SETUP_W) /\ targetY' = F!constrain(y, 0, SETUP_H)
  BY DEF F!StartMoveTo
<1>2. 0 \in Int /\ SETUP_W \in Int /\ SETUP_H \in Int /\ 0 <= SETUP_W /\ 0 <= SETUP_H
  BY DEF SETUP_W, SETUP_H
<1>3. F!constrain(x, 0, SETUP_W) \in 0..SETUP_W /\ F!constrain(y, 0, SETUP_H) \in 0..SETUP_H
  BY <1>2, ClampRange, Zenon
<1>4. QED
  BY <1>1, <1>3

\* A command starts moveTo: the target is clamped onto the declared screen,
\* and, when homed, all of it is reachable in time.
LEMMA StartMoveInv ==
  ASSUME LinkInv, pc = "loop", connected,
         NEW x \in Int, NEW y \in Int,
         NEW th \in [kind : AfterKinds] \cup [kind : AfterKinds, dir : Int, amount : Int],
         F!StartMoveTo(x, y, th), HostFrame
  PROVE  LinkInv'
<1> USE DEF HostFrame, F!StartMoveTo, F!MoveToKeeps
<1>1. targetX' \in 0..SETUP_W /\ targetY' \in 0..SETUP_H
  BY StartMoveTarget DEF LinkInv, LinkTypeOK
<1>2. LinkTypeOK'
  BY <1>1 DEF LinkInv, LinkTypeOK, AfterKinds
<1>3. (LinkUp /\ HomeProgress /\ Tracked /\ Sending /\ Arrived)'
  BY DEF LinkInv, LinkUp, HomeProgress, Tracked, Sending, Arrived
<1>4. Clock'
  <2>1. CASE isHomed
    <3>1. currentX \in 0..SETUP_W /\ currentY \in 0..SETUP_H
      BY <2>1 DEF LinkInv, Tracked
    <3>2. Pot(Dist') <= Pot(SETUP_H)
      BY <1>1, <3>1, PotOnScreen DEF Dist
    <3>3. isHomed' /\ elapsed' = 0 /\ pc' = "move"
      BY <2>1
    <3>4. ASSUME NEW d \in Int, Pot(d) <= Pot(SETUP_H) PROVE 5 * 0 + Pot(d) <= CLOCK_LIMIT
      BY <3>4 DEF CLOCK_LIMIT, F!HOME_MOVES, Pot, SETUP_H
    <3>5. Dist' \in Int
      BY <1>1, <3>1, <3>3 DEF Dist, MaxN, F!AbsI, F!MoveToKeeps, SETUP_W, SETUP_H
    <3>6. QED
      BY <3>2, <3>3, <3>4, <3>5 DEF Clock
  <2>5. CASE ~isHomed
    BY <2>5 DEF Clock
  <2>6. QED
    BY <2>1, <2>5 DEF LinkInv, LinkTypeOK
<1>5. HidOnTarget'
  BY DEF LinkInv, HidOnTarget, F!HidOnTarget
<1>6. QED
  BY <1>2, <1>3, <1>4, <1>5 DEF LinkInv

\* A HOME command starts home() with the pointer anywhere on the phone.
LEMMA HomeCmdInv ==
  ASSUME LinkInv, pc = "loop", connected,
         pc' = "home", homeStep' = 0, homeCaller' = "command",
         UNCHANGED <<currentX, currentY, targetX, targetY, screenWidth, screenHeight,
                     isHomed, correctionFactor, elapsed, step, after>>,
         HostFrame
  PROVE  LinkInv'
<1> USE DEF HostFrame
<1>1. LinkTypeOK'
  BY DEF LinkInv, LinkTypeOK, F!HOME_MOVES
<1>2. HomeProgress'
  <2>1. ptr' \in (0..PhoneW) \X (0..PhoneH)
    BY DEF LinkInv, LinkTypeOK
  <2>2. ptr'[1] \in 0..PhoneW /\ ptr'[2] \in 0..PhoneH
    BY <2>1
  <2>3. QED
    BY <2>2, LinkAssumption DEF HomeProgress, F!HID_LIMIT
<1>3. (LinkUp /\ Tracked /\ Clock /\ Sending /\ Arrived /\ HidOnTarget)'
  BY DEF LinkInv, LinkUp, Tracked, Clock, Sending, Arrived, HidOnTarget, F!HidOnTarget
<1>4. QED
  BY <1>1, <1>2, <1>3 DEF LinkInv

\* handleCommand on a host line keeps the invariant.
LEMMA HandleInv ==
  ASSUME LinkInv, pc = "loop", NEW c \in HostLine, F!Handle(c), HostFrame
  PROVE  LinkInv'
<1>1. CASE UNCHANGED F!fw
  BY <1>1, FrameInv DEF HostFrame, sketch
<1>2. CASE /\ connected
           /\ \E x \in Int, y \in Int, th \in [kind : AfterKinds] \cup
                                             [kind : AfterKinds, dir : Int, amount : Int] :
                F!StartMoveTo(x, y, th)
  BY <1>2, StartMoveInv
<1>3. CASE /\ connected /\ pc' = "home" /\ homeStep' = 0 /\ homeCaller' = "command"
           /\ UNCHANGED <<currentX, currentY, targetX, targetY, screenWidth, screenHeight,
                          isHomed, correctionFactor, elapsed, step, after>>
  BY <1>3, HomeCmdInv
<1>4. QED
  BY <1>1, <1>2, <1>3, HandleCases

\* ESP32Comm::init writes STATUS; the sketch is not touched.
LEMMA OpenInv ==
  ASSUME LinkInv, Open
  PROVE  LinkInv'
<1>1. L("STATUS", <<>>) \in HostLine
  BY EmptySeq DEF L, HostLine, HostVerbs
<1>2. rx' \in Seq(HostLine) /\ cut' \in HostLine \cup {NoCut}
  BY <1>1, ArriveType DEF Open, LinkInv, LinkTypeOK
<1>3. QED
  BY <1>2, FrameInv DEF Open, LinkInv, LinkTypeOK, sketch, F!fw

\* The host writes one intent's line, or nothing when the port is closed.
LEMMA SendInv ==
  ASSUME LinkInv, NEW i \in Intents, Send(i)
  PROVE  LinkInv'
<1>1. rx' \in Seq(HostLine) /\ cut' \in HostLine \cup {NoCut}
  <2>1. CASE hostOpen
    BY <2>1, FormatType, ArriveType DEF Send, LinkInv, LinkTypeOK
  <2>2. CASE ~hostOpen
    BY <2>2 DEF Send, LinkInv, LinkTypeOK
  <2>3. QED
    BY <2>1, <2>2
<1>2. QED
  BY <1>1, FrameInv DEF Send, LinkInv, LinkTypeOK, sketch, F!fw

\* loop() reads and runs the oldest whole line.
LEMMA ReadLineInv ==
  ASSUME LinkInv, ReadLine
  PROVE  LinkInv'
<1>1. rx \in Seq(HostLine) /\ rx # <<>>
  BY DEF ReadLine, F!ReadCommand, LinkInv, LinkTypeOK
<1>2. Head(rx) \in HostLine /\ Tail(rx) \in Seq(HostLine)
  BY <1>1, HeadTailProperties
<1>3. HostFrame
  BY <1>2 DEF HostFrame, ReadLine, F!ReadCommand, F!env, LinkInv, LinkTypeOK
<1>4. QED
  BY <1>2, <1>3, HandleInv DEF ReadLine, F!ReadCommand

\* loop() times out on a cut line and runs what it got.
LEMMA ReadTimeoutInv ==
  ASSUME LinkInv, ReadTimeout
  PROVE  LinkInv'
<1>1. cut \in HostLine
  BY DEF ReadTimeout, LinkInv, LinkTypeOK
<1>2. HostFrame
  BY DEF HostFrame, ReadTimeout, LinkInv, LinkTypeOK, NoCut
<1>3. QED
  BY <1>1, <1>2, HandleInv DEF ReadTimeout

\* The phone pairs: only the link changes.
LEMMA PairInv ==
  ASSUME LinkInv, Pair
  PROVE  LinkInv'
<1> USE DEF Pair, F!Connect, F!fw
<1>1. LinkTypeOK'
  BY DEF LinkInv, LinkTypeOK
<1>2. (LinkUp /\ HomeProgress /\ Tracked /\ Clock)'
  BY DEF LinkInv, LinkUp, HomeProgress, Tracked, Clock, Dist
<1>3. (Sending /\ Arrived /\ HidOnTarget)'
  BY DEF LinkInv, Sending, Arrived, HidOnTarget, F!HidOnTarget, F!Reached, F!AxisStep
<1>4. QED
  BY <1>1, <1>2, <1>3 DEF LinkInv

\* move() up to bleMouse.move: since the link is up, it homes, finishes,
\* or computes a step; a zero step off target cannot happen at factor 1.0.
LEMMA MoveIterInv ==
  ASSUME LinkInv, F!MoveIter, UNCHANGED <<cut>>
  PROVE  LinkInv'
<1> DEFINE dx == targetX - currentX
           dy == targetY - currentY
           s  == <<F!AxisStep(dx), F!AxisStep(dy)>>
<1> USE DEF F!env
<1>1. pc = "move" /\ connected
  BY DEF F!MoveIter, LinkInv, LinkUp
<1>2. /\ currentX \in Int /\ currentY \in Int /\ targetX \in Int /\ targetY \in Int
      /\ correctionFactor = 100
  BY DEF LinkInv, LinkTypeOK, SETUP_W, SETUP_H
<1>3. \/ ~isHomed /\ pc' = "home" /\ homeStep' = 0 /\ homeCaller' = "move"
         /\ UNCHANGED <<elapsed, step>>
      \/ isHomed /\ F!Reached /\ pc' = "after"
         /\ UNCHANGED <<homeStep, homeCaller, elapsed, step>>
      \/ isHomed /\ ~F!Reached /\ s = <<0, 0>>
      \/ isHomed /\ ~F!Reached /\ pc' = "send" /\ step' = s
         /\ UNCHANGED <<homeStep, homeCaller, elapsed>>
  BY <1>1 DEF F!MoveIter
<1>4. UNCHANGED <<currentX, currentY, targetX, targetY, screenWidth, screenHeight,
                  isHomed, correctionFactor, after, rx, connected, toggles, ptr,
                  written, hid, cut>>
  BY DEF F!MoveIter
<1>5. UNCHANGED <<ptr, hid>> /\ (LinkUp /\ HidOnTarget)'
  BY <1>1, <1>4 DEF LinkUp, LinkInv, HidOnTarget, F!HidOnTarget
<1>6. CASE ~isHomed /\ pc' = "home" /\ homeStep' = 0 /\ homeCaller' = "move"
           /\ UNCHANGED <<elapsed, step>>
  <2>1. elapsed = 0
    BY <1>1, <1>6 DEF LinkInv, Clock
  <2>2. ptr'[1] \in 0..PhoneW /\ ptr'[2] \in 0..PhoneH
    BY <1>4 DEF LinkInv, LinkTypeOK
  <2>3. HomeProgress'
    BY <1>6, <2>1, <2>2, LinkAssumption DEF HomeProgress, F!HID_LIMIT
  <2>4. LinkTypeOK'
    BY <1>4, <1>6 DEF LinkInv, LinkTypeOK, F!HOME_MOVES
  <2>5. (Tracked /\ Clock /\ Sending /\ Arrived)'
    BY <1>4, <1>6 DEF Tracked, Clock, Sending, Arrived
  <2>6. QED
    BY <1>5, <2>3, <2>4, <2>5 DEF LinkInv
<1>7. CASE isHomed /\ F!Reached /\ pc' = "after"
           /\ UNCHANGED <<homeStep, homeCaller, elapsed, step>>
  <2>1. LinkTypeOK'
    BY <1>4, <1>7 DEF LinkInv, LinkTypeOK
  <2>2. Arrived'
    BY <1>4, <1>7 DEF Arrived, F!Reached
  <2>3. Tracked'
    BY <1>1, <1>4, <1>7 DEF LinkInv, Tracked
  <2>4. (HomeProgress /\ Clock /\ Sending)'
    BY <1>7 DEF HomeProgress, Clock, Sending
  <2>5. QED
    BY <1>5, <2>1, <2>2, <2>3, <2>4 DEF LinkInv
<1>8. CASE isHomed /\ ~F!Reached /\ s = <<0, 0>>
  <2>1. s = <<Cap(dx), Cap(dy)>>
    BY <1>2, AxisStepUnit
  <2>2. Cap(dx) = 0 <=> targetX = currentX
    BY <1>2, CapBetween
  <2>3. Cap(dy) = 0 <=> targetY = currentY
    BY <1>2, CapBetween
  <2>4. targetX = currentX /\ targetY = currentY
    BY <1>8, <2>1, <2>2, <2>3
  <2>5. QED
    BY <1>2, <1>8, <2>4 DEF F!Reached, F!AbsI, F!REACHED
<1>9. CASE isHomed /\ ~F!Reached /\ pc' = "send" /\ step' = s
           /\ UNCHANGED <<homeStep, homeCaller, elapsed>>
  <2>1. s \in Int \X Int
    BY <1>2, AxisStepUnit DEF Cap, F!MAX_JUMP
  <2>2. LinkTypeOK'
    BY <1>4, <1>9, <2>1 DEF LinkInv, LinkTypeOK
  <2>3. Sending'
    BY <1>4, <1>9 DEF Sending, F!Reached, F!AxisStep
  <2>4. Clock'
    BY <1>1, <1>4, <1>9 DEF LinkInv, Clock, Dist
  <2>5. Tracked'
    BY <1>1, <1>4, <1>9 DEF LinkInv, Tracked
  <2>6. (HomeProgress /\ Arrived)'
    BY <1>9 DEF HomeProgress, Arrived
  <2>7. QED
    BY <1>5, <2>2, <2>3, <2>4, <2>5, <2>6 DEF LinkInv
<1>10. QED
  BY <1>3, <1>6, <1>7, <1>8, <1>9

\* bleMouse.move(step), currentX += step, delay(20): the report lands, the
\* pointer stays on the phone, and moveTo is far from its timeout.
LEMMA MoveSendInv ==
  ASSUME PhoneFits, LinkInv, F!MoveSend, UNCHANGED <<cut>>
  PROVE  LinkInv'
<1>1. /\ pc = "send" /\ isHomed /\ ~F!Reached /\ connected
      /\ ptr = <<currentX, currentY>>
      /\ currentX \in 0..SETUP_W /\ currentY \in 0..SETUP_H
      /\ targetX \in 0..SETUP_W /\ targetY \in 0..SETUP_H
      /\ correctionFactor = 100
  BY DEF F!MoveSend, LinkInv, LinkUp, Sending, Tracked, LinkTypeOK
<1>2. step = <<Cap(targetX - currentX), Cap(targetY - currentY)>>
  BY <1>1, AxisStepUnit DEF LinkInv, Sending, SETUP_W, SETUP_H
<1>3. /\ currentX' = currentX + Cap(targetX - currentX) /\ currentY' = currentY + Cap(targetY - currentY)
      /\ currentX' \in 0..SETUP_W /\ currentY' \in 0..SETUP_H
  <2>0. currentX \in Int /\ targetX \in Int /\ currentY \in Int /\ targetY \in Int
    BY <1>1 DEF SETUP_W, SETUP_H
  <2>1. currentX + Cap(targetX - currentX)
          \in (IF currentX <= targetX THEN currentX..targetX ELSE targetX..currentX)
    BY <2>0, CapBetween
  <2>2. currentY + Cap(targetY - currentY)
          \in (IF currentY <= targetY THEN currentY..targetY ELSE targetY..currentY)
    BY <2>0, CapBetween
  <2>3. currentX + Cap(targetX - currentX) \in 0..SETUP_W
    BY <1>1, <2>1 DEF SETUP_W, Cap, F!MAX_JUMP
  <2>4. currentY + Cap(targetY - currentY) \in 0..SETUP_H
    BY <1>1, <2>2 DEF SETUP_H, Cap, F!MAX_JUMP
  <2>5. QED
    BY <1>2, <2>3, <2>4 DEF F!MoveSend
<1>4. ptr' = <<currentX', currentY'>>
  <2>1. ptr' = <<F!constrain(currentX + Cap(targetX - currentX), 0, PhoneW),
                 F!constrain(currentY + Cap(targetY - currentY), 0, PhoneH)>>
    BY <1>1, <1>2 DEF F!MoveSend, F!Pointer
  <2>2. currentX' \in 0..SETUP_W /\ currentY' \in 0..SETUP_H
    BY <1>3
  <2>3. PhoneW \in SETUP_W..2540 /\ PhoneH \in SETUP_H..2540
    BY DEF PhoneFits, F!HOME_MOVES, F!HID_LIMIT
  <2>4. F!constrain(currentX', 0, PhoneW) = currentX'
        /\ F!constrain(currentY', 0, PhoneH) = currentY'
    BY <2>2, <2>3 DEF F!constrain, SETUP_W, SETUP_H
  <2>5. QED
    BY <1>3, <2>1, <2>4
<1>5. elapsed \in Nat /\ 5 * elapsed + Pot(Dist) <= CLOCK_LIMIT
  BY <1>1 DEF LinkInv, Clock, LinkTypeOK
<1>6. Pot(MaxN(F!AbsI((targetX - currentX) - Cap(targetX - currentX)), F!AbsI((targetY - currentY) - Cap(targetY - currentY)))) + 5 * 70 <= Pot(Dist)
  BY <1>1, PotStep DEF Dist, F!Reached, SETUP_W, SETUP_H
<1>7. Dist' = MaxN(F!AbsI((targetX - currentX) - Cap(targetX - currentX)), F!AbsI((targetY - currentY) - Cap(targetY - currentY)))
  <2>1. targetX' = targetX /\ targetY' = targetY
    BY DEF F!MoveSend
  <2>2. Cap(targetX - currentX) \in Int /\ Cap(targetY - currentY) \in Int
    BY <1>1 DEF Cap, F!MAX_JUMP, SETUP_W, SETUP_H
  <2>3. /\ targetX' - currentX' = (targetX - currentX) - Cap(targetX - currentX)
        /\ targetY' - currentY' = (targetY - currentY) - Cap(targetY - currentY)
    BY <1>1, <1>3, <2>1, <2>2 DEF SETUP_W, SETUP_H
  <2>4. QED
    BY <2>3 DEF Dist
<1>8. Dist \in Int /\ Dist' \in Int
  <2>1. Dist \in Int
    BY <1>1 DEF Dist, MaxN, F!AbsI, SETUP_W, SETUP_H
  <2>2. Dist' \in Int
    BY <1>1, <1>7 DEF MaxN, F!AbsI, Cap, F!MAX_JUMP, SETUP_W, SETUP_H
  <2>3. QED
    BY <2>1, <2>2
<1>9. Pot(Dist) > 5 * 70
  BY <1>1, <1>8 DEF Dist, Pot, MaxN, F!AbsI, F!Reached, F!REACHED
<1>10. pc' = "move" /\ elapsed' = elapsed + 70
  <2>1. elapsed + 20 <= F!TIMEOUT
    BY <1>5, <1>8, <1>9 DEF CLOCK_LIMIT, Pot, SETUP_H, F!HOME_MOVES, F!TIMEOUT
  <2>2. QED
    BY <1>5, <2>1 DEF F!MoveSend, F!Continue, F!TIMEOUT
<1>11. Clock'
  <2>1. Pot(Dist') + 5 * 70 <= Pot(Dist)
    BY <1>6, <1>7
  <2>2. Pot(Dist) \in Int /\ Pot(Dist') \in Int /\ CLOCK_LIMIT \in Int
    BY <1>8 DEF Pot, CLOCK_LIMIT, F!HOME_MOVES, SETUP_H
  <2>3. 5 * (elapsed + 70) + Pot(Dist') <= CLOCK_LIMIT
    BY <1>5, <2>1, <2>2
  <2>4. 5 * elapsed' + Pot(Dist') <= CLOCK_LIMIT
    BY <1>10, <2>3
  <2>5. isHomed'
    BY <1>1 DEF F!MoveSend
  <2>6. QED
    BY <1>10, <2>4, <2>5 DEF Clock
<1>12. LinkTypeOK'
  <2>1. ptr' \in (0..PhoneW) \X (0..PhoneH)
    BY <1>3, <1>4 DEF PhoneFits, SETUP_W, SETUP_H
  <2>2. QED
    BY <1>3, <1>5, <1>10, <2>1 DEF F!MoveSend, LinkInv, LinkTypeOK
<1>13. (Tracked /\ LinkUp /\ HidOnTarget)'
  BY <1>1, <1>3, <1>4, <1>10 DEF F!MoveSend, Tracked, LinkUp, LinkInv, HidOnTarget,
                                 F!HidOnTarget
<1>14. (HomeProgress /\ Sending /\ Arrived)'
  BY <1>10 DEF HomeProgress, Sending, Arrived
<1>15. QED
  BY <1>11, <1>12, <1>13, <1>14 DEF LinkInv

\* One of home()'s bleMouse.move(-127, -127): each axis drops by 127 or
\* stops at the edge.
LEMMA HomeStepInv ==
  ASSUME LinkInv, F!HomeStep, UNCHANGED <<cut>>
  PROVE  LinkInv'
<1>1. /\ pc = "home" /\ connected /\ homeStep \in 0..(F!HOME_MOVES - 1)
      /\ ptr[1] \in 0..PhoneW /\ ptr[2] \in 0..PhoneH
  BY DEF F!HomeStep, LinkInv, LinkUp, LinkTypeOK, F!HOME_MOVES
<1>2. ptr' = <<F!constrain(ptr[1] - F!HID_LIMIT, 0, PhoneW),
               F!constrain(ptr[2] - F!HID_LIMIT, 0, PhoneH)>>
  BY <1>1 DEF F!HomeStep, F!Pointer
<1>3. /\ ptr'[1] \in 0..PhoneW /\ ptr'[2] \in 0..PhoneH
      /\ ptr'[1] = 0 \/ ptr'[1] <= PhoneW - F!HID_LIMIT * homeStep'
      /\ ptr'[2] = 0 \/ ptr'[2] <= PhoneH - F!HID_LIMIT * homeStep'
  <2>1. /\ ptr[1] = 0 \/ ptr[1] <= PhoneW - F!HID_LIMIT * homeStep
        /\ ptr[2] = 0 \/ ptr[2] <= PhoneH - F!HID_LIMIT * homeStep
    BY <1>1 DEF LinkInv, HomeProgress
  <2>2. homeStep' = homeStep + 1
    BY DEF F!HomeStep
  <2>3. QED
    BY <1>1, <1>2, <2>1, <2>2, LinkAssumption DEF F!constrain, F!HID_LIMIT
<1>4. homeCaller' = "move" => elapsed' = 50 * homeStep'
  BY <1>1 DEF F!HomeStep, LinkInv, HomeProgress
<1>5. ptr' \in (0..PhoneW) \X (0..PhoneH)
  BY <1>2, <1>3
<1>6. LinkTypeOK'
  BY <1>1, <1>5 DEF F!HomeStep, LinkInv, LinkTypeOK, F!HOME_MOVES
<1>7. HomeProgress'
  BY <1>3, <1>4 DEF HomeProgress
<1>8. (LinkUp /\ Tracked /\ Clock /\ Sending /\ Arrived /\ HidOnTarget)'
  BY <1>1 DEF F!HomeStep, LinkUp, Tracked, Clock, Sending, Arrived, LinkInv,
              HidOnTarget, F!HidOnTarget
<1>9. QED
  BY <1>6, <1>7, <1>8 DEF LinkInv

\* home() ends: the pointer is in the corner, so currentX = currentY = 0 is
\* right; a moveTo that homed goes on with the full screen still in reach.
LEMMA HomeDoneInv ==
  ASSUME PhoneFits, LinkInv, F!HomeDone, UNCHANGED <<cut>>
  PROVE  LinkInv'
<1>1. /\ pc = "home" /\ connected /\ homeStep = F!HOME_MOVES
      /\ ptr[1] \in 0..PhoneW /\ ptr[2] \in 0..PhoneH
      /\ targetX \in 0..SETUP_W /\ targetY \in 0..SETUP_H
  BY DEF F!HomeDone, LinkInv, LinkUp, LinkTypeOK
<1>2. ptr = <<0, 0>>
  <2>1. /\ ptr[1] = 0 \/ ptr[1] <= PhoneW - F!HID_LIMIT * F!HOME_MOVES
        /\ ptr[2] = 0 \/ ptr[2] <= PhoneH - F!HID_LIMIT * F!HOME_MOVES
    BY <1>1 DEF LinkInv, HomeProgress
  <2>2. ptr[1] = 0 /\ ptr[2] = 0
    BY <1>1, <2>1 DEF PhoneFits, F!HID_LIMIT, F!HOME_MOVES
  <2>3. QED
    BY <2>2 DEF LinkInv, LinkTypeOK
<1>3. /\ ptr' = <<currentX', currentY'>> /\ currentX' = 0 /\ currentY' = 0
      /\ isHomed' /\ UNCHANGED <<targetX, targetY, connected, hid, step, after>>
  BY <1>2 DEF F!HomeDone, F!env
<1>4. CASE homeCaller = "command"
  <2>1. pc' = "loop" /\ UNCHANGED elapsed
    BY <1>4 DEF F!HomeDone
  <2>2. LinkTypeOK'
    BY <1>1, <1>3, <2>1 DEF F!HomeDone, F!env, LinkInv, LinkTypeOK
  <2>3. (LinkUp /\ HomeProgress)'
    BY <1>1, <1>3, <2>1 DEF LinkUp, HomeProgress
  <2>4. Tracked'
    BY <1>3 DEF Tracked, SETUP_W, SETUP_H
  <2>5. (Clock /\ Sending /\ Arrived)'
    BY <2>1 DEF Clock, Sending, Arrived
  <2>6. HidOnTarget'
    BY <1>3 DEF LinkInv, HidOnTarget, F!HidOnTarget
  <2>7. QED
    BY <2>2, <2>3, <2>4, <2>5, <2>6 DEF LinkInv
<1>5. CASE homeCaller = "move"
  <2>1. elapsed = 1000
    BY <1>1, <1>5 DEF LinkInv, HomeProgress, F!HOME_MOVES
  <2>2. pc' = "move" /\ elapsed' = 1050
    BY <1>5, <2>1 DEF F!HomeDone, F!Continue, F!TIMEOUT
  <2>3. Dist' = MaxN(F!AbsI(targetX - 0), F!AbsI(targetY - 0))
    BY <1>3 DEF Dist
  <2>4. Pot(MaxN(F!AbsI(targetX - 0), F!AbsI(targetY - 0))) <= Pot(SETUP_H)
    <3>1. 0 \in 0..SETUP_W /\ 0 \in 0..SETUP_H
      BY DEF SETUP_W, SETUP_H
    <3>2. QED
      BY <1>1, <3>1, PotOnScreen
  <2>5. /\ Pot(Dist') \in Int /\ Pot(SETUP_H) \in Int
        /\ CLOCK_LIMIT = 5 * 1050 + Pot(SETUP_H)
    BY <1>1, <2>3 DEF MaxN, F!AbsI, SETUP_W, SETUP_H, CLOCK_LIMIT, Pot, F!HOME_MOVES
  <2>6. 5 * elapsed' + Pot(Dist') <= CLOCK_LIMIT
    BY <2>2, <2>3, <2>4, <2>5
  <2>7. Clock'
    BY <1>3, <2>2, <2>6 DEF Clock
  <2>8. LinkTypeOK'
    BY <1>1, <1>3, <2>2 DEF F!HomeDone, F!env, LinkInv, LinkTypeOK
  <2>9. (LinkUp /\ HomeProgress)'
    BY <1>1, <1>3, <2>2 DEF LinkUp, HomeProgress
  <2>10. Tracked'
    BY <1>3 DEF Tracked, SETUP_W, SETUP_H
  <2>11. (Sending /\ Arrived)'
    BY <2>2 DEF Sending, Arrived
  <2>12. HidOnTarget'
    BY <1>3 DEF LinkInv, HidOnTarget, F!HidOnTarget
  <2>13. QED
    BY <2>7, <2>8, <2>9, <2>10, <2>11, <2>12 DEF LinkInv
<1>6. QED
  BY <1>4, <1>5 DEF LinkInv, LinkTypeOK

\* The report AfterMove appends, and the reports the history holds.
AfterReport == [kind |-> after.kind, at |-> ptr, want |-> <<targetX, targetY>>]
HidReport == [kind : {"click", "wheel", "hwheel"}, at : Int \X Int, want : Int \X Int]

\* After moveTo: the click or wheel report lands where the pointer is,
\* which is within 2 px of the target since moveTo only returns there.
LEMMA AfterMoveInv ==
  ASSUME LinkInv, F!AfterMove, UNCHANGED <<cut>>
  PROVE  LinkInv'
<1>1. /\ pc = "after" /\ isHomed /\ F!Reached /\ connected
      /\ ptr = <<currentX, currentY>>
      /\ currentX \in 0..SETUP_W /\ currentY \in 0..SETUP_H
      /\ targetX \in 0..SETUP_W /\ targetY \in 0..SETUP_H
      /\ hid \in Seq(HidReport)
  BY DEF F!AfterMove, LinkInv, Arrived, LinkUp, Tracked, LinkTypeOK, HidReport
<1>2. \/ hid' = hid
      \/ after.kind \in {"click", "wheel", "hwheel"} /\ hid' = Append(hid, AfterReport)
  BY <1>1 DEF F!AfterMove, LinkInv, LinkTypeOK, AfterReport
<1>3. /\ F!AbsI(AfterReport.at[1] - AfterReport.want[1]) <= F!REACHED
      /\ F!AbsI(AfterReport.at[2] - AfterReport.want[2]) <= F!REACHED
  BY <1>1 DEF F!Reached, F!AbsI, F!REACHED, SETUP_W, SETUP_H, AfterReport
<1>4. (hid \in Seq(HidReport) /\ HidOnTarget)'
  <2>1. CASE hid' = hid
    BY <1>1, <2>1 DEF LinkInv, HidOnTarget, F!HidOnTarget, HidReport
  <2>2. CASE after.kind \in {"click", "wheel", "hwheel"} /\ hid' = Append(hid, AfterReport)
    <3>1. AfterReport \in HidReport
      <4>1. after.kind \in {"click", "wheel", "hwheel"}
        BY <2>2
      <4>2. currentX \in Int /\ currentY \in Int /\ targetX \in Int /\ targetY \in Int
        BY <1>1 DEF SETUP_W, SETUP_H
      <4>3. ptr \in Int \X Int /\ <<targetX, targetY>> \in Int \X Int
        BY <1>1, <4>2
      <4>4. QED
        BY <4>1, <4>3 DEF AfterReport, HidReport
    <3>2. /\ hid' \in Seq(HidReport) /\ Len(hid') = Len(hid) + 1
          /\ hid'[Len(hid) + 1] = AfterReport
          /\ \A j \in 1..Len(hid) : hid'[j] = hid[j]
      BY <1>1, <2>2, <3>1, AppendProperties
    <3>3. \A k \in DOMAIN hid :
            /\ F!AbsI(hid[k].at[1] - hid[k].want[1]) <= F!REACHED
            /\ F!AbsI(hid[k].at[2] - hid[k].want[2]) <= F!REACHED
      BY DEF LinkInv, HidOnTarget, F!HidOnTarget
    <3>4. DOMAIN hid' = 1..(Len(hid) + 1) /\ DOMAIN hid = 1..Len(hid)
      BY <1>1, <3>2
    <3>5. ASSUME NEW k \in DOMAIN hid'
          PROVE  /\ F!AbsI(hid'[k].at[1] - hid'[k].want[1]) <= F!REACHED
                 /\ F!AbsI(hid'[k].at[2] - hid'[k].want[2]) <= F!REACHED
      <4>1. CASE k \in 1..Len(hid)
        BY <3>2, <3>3, <3>4, <4>1
      <4>2. CASE k = Len(hid) + 1
        <5>1. /\ F!AbsI(hid'[Len(hid) + 1].at[1] - hid'[Len(hid) + 1].want[1]) <= F!REACHED
              /\ F!AbsI(hid'[Len(hid) + 1].at[2] - hid'[Len(hid) + 1].want[2]) <= F!REACHED
          BY <1>3, <3>2
        <5>2. QED
          BY <4>2, <5>1
      <4>3. QED
        BY <3>4, <4>1, <4>2
    <3>6. QED
      BY <3>2, <3>5 DEF HidOnTarget, F!HidOnTarget
  <2>3. QED
    BY <1>2, <2>1, <2>2
<1>5. pc' = "loop" /\ UNCHANGED <<currentX, currentY, targetX, targetY, isHomed, ptr,
                                  connected, elapsed, step, after, homeStep, homeCaller,
                                  screenWidth, screenHeight, correctionFactor,
                                  rx, written>>
  BY DEF F!AfterMove, F!env
<1>6. LinkTypeOK'
  BY <1>4, <1>5 DEF LinkInv, LinkTypeOK, HidReport
<1>7. (LinkUp /\ HomeProgress /\ Tracked /\ Clock /\ Sending /\ Arrived)'
  BY <1>1, <1>5 DEF LinkUp, HomeProgress, Tracked, Clock, Sending, Arrived
<1>8. QED
  BY <1>4, <1>6, <1>7 DEF LinkInv

\* A step that changes nothing.
LEMMA StutterInv ==
  ASSUME LinkInv, UNCHANGED vars
  PROVE  LinkInv'
BY FrameInv DEF vars, firmware, sketch, F!fw, LinkInv, LinkTypeOK

\* The inductive step: every step of the link keeps LinkInv.
LEMMA LinkStep ==
  ASSUME PhoneFits, LinkInv, [Next]_vars
  PROVE  LinkInv'
<1>1. CASE Open
  BY <1>1, OpenInv
<1>2. CASE \E i \in Intents : Send(i)
  BY <1>2, SendInv
<1>3. CASE ReadLine
  BY <1>3, ReadLineInv
<1>4. CASE ReadTimeout
  BY <1>4, ReadTimeoutInv
<1>5. CASE Sketch
  <2>1. UNCHANGED cut
    BY <1>5 DEF Sketch
  <2>2. QED
    BY <1>5, <2>1, MoveIterInv, MoveSendInv, HomeStepInv, HomeDoneInv, AfterMoveInv
    DEF Sketch
<1>6. CASE Idle
  BY <1>6, StutterInv DEF Idle
<1>7. CASE Pair
  BY <1>7, PairInv
<1>8. CASE UNCHANGED vars
  BY <1>8, StutterInv
<1>9. QED
  BY <1>1, <1>2, <1>3, <1>4, <1>5, <1>6, <1>7, <1>8 DEF Next

\* LinkInv holds in every reachable state of the host link and the sketch,
\* on every phone the sketch can home on.
THEOREM LinkInvariant ==
  ASSUME PhoneFits
  PROVE  Spec => []LinkInv
<1>1. Init => LinkInv
  BY InitInv
<1>2. LinkInv /\ [Next]_vars => LinkInv'
  BY LinkStep
<1>3. QED
  BY <1>1, <1>2, PTL DEF Spec

\* Dead reckoning holds over the host link (ControlLink's PointerTracked):
\* once homed and outside home(), currentX/currentY are the phone's pointer.
THEOREM PointerTrackedInv ==
  ASSUME PhoneFits
  PROVE  Spec => []PointerTracked
<1>1. LinkInv => PointerTracked
  BY DEF LinkInv, Tracked, PointerTracked, F!PointerTracked
<1>2. QED
  BY <1>1, LinkInvariant, PTL

\* Every click and wheel report the phone gets over the host link lands
\* within 2 px of its target (ControlLink's HidOnTarget): moveTo never
\* times out before it arrives.
THEOREM HidOnTargetInv ==
  ASSUME PhoneFits
  PROVE  Spec => []HidOnTarget
<1>1. LinkInv => HidOnTarget
  BY DEF LinkInv
<1>2. QED
  BY <1>1, LinkInvariant, PTL

====
