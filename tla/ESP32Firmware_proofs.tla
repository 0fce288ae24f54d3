------------------------ MODULE ESP32Firmware_proofs ------------------------
(***************************************************************************)
(* Proofs about the ESP32 sketch for every value of its constants.        *)
(***************************************************************************)
EXTENDS ESP32Firmware, TLAPS

USE FirmwareAssumption

\* Arduino's constrain() lands in [lo, hi].
LEMMA ConstrainRange ==
  ASSUME NEW v \in Int, NEW lo \in Int, NEW hi \in Int, lo <= hi
  PROVE  constrain(v, lo, hi) \in lo..hi
BY DEF constrain

\* A delivered (or dropped) HID report leaves the pointer on the phone.
LEMMA PointerRange ==
  ASSUME TypeOK, NEW dx \in Int, NEW dy \in Int
  PROVE  Pointer(dx, dy) \in (0..PhoneW) \X (0..PhoneH)
<1>1. ptr[1] \in 0..PhoneW /\ ptr[2] \in 0..PhoneH
  BY DEF TypeOK
<1>2. CASE connected
  <2>1. constrain(ptr[1] + dx, 0, PhoneW) \in 0..PhoneW
    BY <1>1 DEF constrain
  <2>2. constrain(ptr[2] + dy, 0, PhoneH) \in 0..PhoneH
    BY <1>1 DEF constrain
  <2>3. QED
    BY <1>2, <2>1, <2>2 DEF Pointer
<1>3. CASE ~connected
  BY <1>3 DEF Pointer, TypeOK
<1>4. QED
  BY <1>2, <1>3

\* A move() step is a pair of integers.
LEMMA AxisStepType ==
  ASSUME TypeOK, NEW d \in Int
  PROVE  AxisStep(d) \in Int
BY DEF AxisStep, Scale, constrain, AbsI, TypeOK, MAX_JUMP, HID_LIMIT

\* moveTo's wait: the clock stays a natural number and pc a moveTo state.
LEMMA ContinueType ==
  ASSUME NEW el \in Nat, Continue(el)
  PROVE  elapsed' \in Nat /\ pc' \in {"move", "after"}
BY DEF Continue

\* The sketch's members after a step have their types.
FwTypes ==
  /\ currentX' \in Int /\ currentY' \in Int
  /\ targetX' \in Int /\ targetY' \in Int
  /\ screenWidth' \in Int /\ screenHeight' \in Int
  /\ isHomed' \in BOOLEAN /\ correctionFactor' \in Int
  /\ pc' \in {"loop", "home", "move", "send", "after"}
  /\ homeStep' \in 0..HOME_MOVES /\ homeCaller' \in {"command", "move"}
  /\ elapsed' \in Nat /\ step' \in Int \X Int /\ after' \in Then

\* moveTo begins: setTarget's clamp keeps the targets integers.
LEMMA StartMoveToType ==
  ASSUME TypeOK, NEW x \in Int, NEW y \in Int, NEW th \in Then, StartMoveTo(x, y, th)
  PROVE  FwTypes
<1>1. targetX' \in Int /\ targetY' \in Int
  BY DEF StartMoveTo, constrain, TypeOK
<1>2. QED
  BY <1>1 DEF StartMoveTo, MoveToKeeps, FwTypes, TypeOK

\* Every branch of handleCommand keeps the sketch's members well typed.
LEMMA HandleType ==
  ASSUME TypeOK, NEW c \in Line, Handle(c)
  PROVE  FwTypes
<1> DEFINE v == c.verb
           n == Len(c.args)
<1>1. c.args \in Seq(Int) /\ n \in Nat
  BY DEF Line
<1>3. ASSUME n >= 2 PROVE c.args[1] \in Int /\ c.args[2] \in Int
  BY <1>1, <1>3
<1>4. ASSUME n >= 3 PROVE c.args[3] \in Int
  BY <1>1, <1>4
<1>5. Arg(c, 4, 1) \in Int /\ Arg(c, 3, 3) \in Int
  BY <1>1 DEF Arg
<1>6. ASSUME UNCHANGED fw PROVE FwTypes
  BY <1>6 DEF FwTypes, fw, TypeOK
<1>7. ASSUME NEW th \in Then, StartMoveTo(c.args[1], c.args[2], th), n >= 2
      PROVE  FwTypes
  BY <1>7, <1>3, StartMoveToType
<1>8. [kind |-> "none"] \in Then /\ [kind |-> "click"] \in Then
  BY DEF Then
<1>9. ASSUME n >= 3
      PROVE  [kind |-> IF v = "SCROLL" THEN "wheel" ELSE "hwheel",
              dir |-> c.args[3], amount |-> Arg(c, 4, 1)] \in Then
  <2>1. c.args[3] \in Int
    BY <1>4, <1>9
  <2>2. QED
    BY <2>1, <1>5 DEF Then
<1>10. [kind |-> "wheel", dir |-> IF v = "SCROLL_UP" THEN 1 ELSE -1,
        amount |-> Arg(c, 3, 3)] \in Then
  BY <1>5 DEF Then
<1>11. ASSUME pc' = "home", homeStep' = 0, homeCaller' = "command",
              UNCHANGED <<currentX, currentY, targetX, targetY, screenWidth, screenHeight,
                          isHomed, correctionFactor, elapsed, step, after>>
       PROVE  FwTypes
  BY <1>11 DEF FwTypes, TypeOK, HOME_MOVES
<1>12. ASSUME n >= 2, setCurrentPosition(c.args[1], c.args[2]) PROVE FwTypes
  BY <1>12, <1>3 DEF FwTypes, setCurrentPosition, TypeOK
<1>13. ASSUME n >= 2, setScreenResolution(c.args[1], c.args[2]) PROVE FwTypes
  BY <1>13, <1>3 DEF FwTypes, setScreenResolution, TypeOK
<1>14. ASSUME n >= 1, setCorrectionFactor(c.args[1]) PROVE FwTypes
  BY <1>14, <1>1 DEF FwTypes, setCorrectionFactor, TypeOK
<1>15. QED
  BY <1>6, <1>7, <1>8, <1>9, <1>10, <1>11, <1>12, <1>13, <1>14 DEF Handle

\* A step of moveTo's loop: move() up to bleMouse.move.
LEMMA MoveIterType ==
  ASSUME TypeOK, MoveIter
  PROVE  FwTypes /\ UNCHANGED <<rx, env, hid>>
<1> DEFINE s == <<AxisStep(targetX - currentX), AxisStep(targetY - currentY)>>
<1>1. s \in Int \X Int
  BY AxisStepType DEF TypeOK
<1>2. elapsed \in Nat
  BY DEF TypeOK
<1>3. pc = "move"
      /\ UNCHANGED <<currentX, currentY, targetX, targetY, screenWidth, screenHeight,
                     isHomed, correctionFactor, after, rx, env, hid>>
  BY DEF MoveIter
<1>4. CASE Continue(elapsed) /\ UNCHANGED <<homeStep, homeCaller, step>>
  BY <1>2, <1>3, <1>4, ContinueType DEF FwTypes, TypeOK
<1>5. CASE pc' = "home" /\ homeStep' = 0 /\ homeCaller' = "move" /\ UNCHANGED <<elapsed, step>>
  BY <1>3, <1>5 DEF FwTypes, TypeOK, HOME_MOVES
<1>6. CASE pc' = "after" /\ UNCHANGED <<homeStep, homeCaller, elapsed, step>>
  BY <1>3, <1>6 DEF FwTypes, TypeOK
<1>7. CASE pc' = "send" /\ step' = s /\ UNCHANGED <<homeStep, homeCaller, elapsed>>
  BY <1>1, <1>3, <1>7 DEF FwTypes, TypeOK
<1>8. QED
  BY <1>4, <1>5, <1>6, <1>7 DEF MoveIter

\* One step of the sketch or of its environment keeps the types.
LEMMA TypeStep == TypeOK /\ [Next]_vars => TypeOK'
<1> SUFFICES ASSUME TypeOK, [Next]_vars PROVE TypeOK'
  OBVIOUS
<1> USE DEF fw, env
<1>1. CASE ReadCommand
  <2>1. Head(rx) \in Line /\ Tail(rx) \in Seq(Line)
    BY <1>1 DEF ReadCommand, TypeOK
  <2>2. FwTypes
    BY <1>1, <2>1, HandleType DEF ReadCommand
  <2>3. QED
    BY <1>1, <2>1, <2>2 DEF ReadCommand, FwTypes, TypeOK
<1>5. CASE MoveIter
  BY <1>5, MoveIterType DEF FwTypes, TypeOK
<1>6. CASE MoveSend
  <2>1. step[1] \in Int /\ step[2] \in Int /\ elapsed + 20 \in Nat
    BY DEF TypeOK
  <2>2. ptr' \in (0..PhoneW) \X (0..PhoneH)
    BY <1>6, <2>1, PointerRange DEF MoveSend
  <2>3. elapsed' \in Nat /\ pc' \in {"move", "after"}
    BY <1>6, <2>1, ContinueType DEF MoveSend
  <2>4. currentX' \in Int /\ currentY' \in Int
    <3>1. currentX' = currentX + step[1] /\ currentY' = currentY + step[2]
      BY <1>6 DEF MoveSend
    <3>2. currentX \in Int /\ currentY \in Int
      BY DEF TypeOK
    <3>3. QED
      BY <2>1, <3>1, <3>2
  <2>5. UNCHANGED <<targetX, targetY, screenWidth, screenHeight, isHomed, correctionFactor,
                   homeStep, homeCaller, step, after, rx, connected, toggles, written, hid>>
    BY <1>6 DEF MoveSend
  <2>6. QED
    BY <2>2, <2>3, <2>4, <2>5 DEF TypeOK
<1>7. CASE HomeStep
  <2>1. ptr' \in (0..PhoneW) \X (0..PhoneH)
    BY <1>7, PointerRange DEF HomeStep, HID_LIMIT
  <2>2. QED
    BY <1>7, <2>1 DEF HomeStep, TypeOK, HOME_MOVES
<1>8. CASE HomeDone
  <2>1. elapsed' \in Nat /\ pc' \in {"loop", "move", "after"}
    <3>1. CASE homeCaller = "command"
      BY <1>8, <3>1 DEF HomeDone, TypeOK
    <3>2. CASE homeCaller # "command"
      BY <1>8, <3>2, ContinueType DEF HomeDone, TypeOK
    <3>3. QED
      BY <3>1, <3>2
  <2>2. QED
    BY <1>8, <2>1 DEF HomeDone, TypeOK
<1>9. CASE AfterMove
  <2>1. CASE connected /\ after.kind # "none" /\ (after.kind = "click" \/ after.amount > 0)
    <3>1. after.kind \in {"click", "wheel", "hwheel"}
      BY <2>1 DEF TypeOK, Then
    <3>2. [kind |-> after.kind, at |-> ptr, want |-> <<targetX, targetY>>] \in HidEvent
      BY <3>1 DEF TypeOK, HidEvent
    <3>3. QED
      BY <1>9, <2>1, <3>2 DEF AfterMove, TypeOK
  <2>2. CASE ~(connected /\ after.kind # "none" /\ (after.kind = "click" \/ after.amount > 0))
    BY <1>9, <2>2 DEF AfterMove, TypeOK
  <2>3. QED
    BY <2>1, <2>2
<1>10. CASE Connect
  BY <1>10 DEF Connect, TypeOK
<1>14. CASE Disconnect
  <2>1. toggles' \in 0..MaxToggles /\ connected' = FALSE
    BY <1>14 DEF Disconnect, TypeOK
  <2>2. UNCHANGED <<fw, rx, ptr, written, hid>>
    BY <1>14 DEF Disconnect
  <2>3. QED
    BY <2>1, <2>2 DEF TypeOK
<1>11. ASSUME NEW l \in Lines, Write(l) PROVE TypeOK'
  <2>1. l \in Line
    OBVIOUS
  <2>2. rx' \in Seq(Line)
    BY <1>11, <2>1 DEF Write, TypeOK
  <2>3. written' \in 0..MaxLines
    BY <1>11 DEF Write, TypeOK
  <2>4. QED
    BY <1>11, <2>2, <2>3 DEF Write, TypeOK
<1>12. CASE PollIdle \/ UNCHANGED vars
  BY <1>12 DEF PollIdle, vars, TypeOK
<1>13. QED
  BY <1>1, <1>5, <1>6, <1>7, <1>8, <1>9, <1>10, <1>11, <1>12, <1>14
  DEF Next, Firmware, Environment

\* The initial state has the types.
LEMMA TypeInit == Init => TypeOK
<1> SUFFICES ASSUME Init PROVE TypeOK
  OBVIOUS
<1>1. ptr \in (0..PhoneW) \X (0..PhoneH)
  BY DEF Init
<1>2. after \in Then /\ step \in Int \X Int
  BY DEF Init, Then
<1>3. hid \in Seq(HidEvent) /\ rx \in Seq(Line)
  BY DEF Init
<1>4. homeStep \in 0..HOME_MOVES /\ toggles \in 0..MaxToggles /\ written \in 0..MaxLines
  BY DEF Init, HOME_MOVES
<1>5. /\ currentX \in Int /\ currentY \in Int /\ targetX \in Int /\ targetY \in Int
      /\ screenWidth \in Int /\ screenHeight \in Int /\ correctionFactor \in Int
      /\ elapsed \in Nat
  BY DEF Init
<1>6. /\ isHomed \in BOOLEAN /\ connected \in BOOLEAN
      /\ pc \in {"loop", "home", "move", "send", "after"}
      /\ homeCaller \in {"command", "move"}
  BY DEF Init
<1>7. QED
  BY <1>1, <1>2, <1>3, <1>4, <1>5, <1>6 DEF TypeOK

\* The type invariant: in every reachable state the variables have their
\* types; in particular the phone's pointer never leaves the screen, home()
\* never makes more than its 20 moves and every HID report the phone gets is
\* a click or a wheel step at a point of the phone.
THEOREM TypeCorrect == Spec => []TypeOK
<1>1. Init => TypeOK
  BY TypeInit
<1>2. TypeOK /\ [Next]_vars => TypeOK'
  BY TypeStep
<1>3. QED
  BY <1>1, <1>2, PTL DEF Spec

-----------------------------------------------------------------------------
(* How long moveTo blocks loop().                                          *)

\* The clock invariant: outside home(), a move() call starts at most
\* TIMEOUT + 50 ms into moveTo (the last test passed at most TIMEOUT, then
\* delay(50)); inside a home() that move() started, each of its moves adds
\* 50 ms.  MoveToBounded alone is not inductive: it does not say that
\* moveTo stops waiting once past the timeout.
ClockFacts ==
  /\ MoveToBounded
  /\ pc \in {"move", "send"} => elapsed <= TIMEOUT + 50
  /\ pc = "home" /\ homeCaller = "move" => elapsed <= TIMEOUT + 50 + 50 * homeStep

ClockInv == TypeOK /\ ClockFacts

\* The test after move(): past the timeout moveTo returns with the clock as
\* it is; otherwise it waits and calls move() again no later than
\* TIMEOUT + 50.
LEMMA ContinueClock ==
  ASSUME NEW el \in Nat, Continue(el)
  PROVE  \/ pc' = "after" /\ elapsed' = el
         \/ pc' = "move" /\ elapsed' <= TIMEOUT + 50
BY DEF Continue, TIMEOUT

\* handleCommand either starts a moveTo with a fresh clock, or leaves the
\* clock alone and stays in loop() or starts a HOME command's home().
LEMMA HandleClock ==
  ASSUME NEW c \in Line, Handle(c)
  PROVE  \/ elapsed' = 0 /\ pc' = "move"
         \/ elapsed' = elapsed /\ pc' = pc
         \/ elapsed' = elapsed /\ pc' = "home" /\ homeCaller' = "command"
BY DEF Handle, StartMoveTo, setCurrentPosition, setScreenResolution,
       setCorrectionFactor, fw

\* A step keeps the clock invariant.
LEMMA ClockStep == ClockInv /\ [Next]_vars => ClockInv'
<1> SUFFICES ASSUME ClockInv, [Next]_vars PROVE ClockFacts'
  BY TypeStep DEF ClockInv
<1> DEFINE B == BLOCK_LIMIT
<1>0. elapsed \in Nat /\ homeStep \in 0..HOME_MOVES /\ elapsed' \in Nat
  BY TypeStep DEF ClockInv, TypeOK
<1> USE DEF ClockInv, ClockFacts, MoveToBounded, BLOCK_LIMIT, TIMEOUT, HOME_MOVES
<1>1. CASE ReadCommand
  <2>1. Head(rx) \in Line
    BY <1>1 DEF ReadCommand, TypeOK
  <2>2. pc = "loop"
    BY <1>1 DEF ReadCommand
  <2>3. QED
    BY <1>0, <1>1, <2>1, <2>2, HandleClock DEF ReadCommand
<1>2. CASE MoveIter
  <2>1. pc = "move" /\ elapsed <= TIMEOUT + 50
    BY <1>2 DEF MoveIter
  <2>2. CASE Continue(elapsed) /\ UNCHANGED <<homeStep, homeCaller, step>>
    BY <1>0, <2>1, <2>2, ContinueClock
  <2>3. CASE pc' = "home" /\ homeStep' = 0 /\ homeCaller' = "move" /\ UNCHANGED <<elapsed, step>>
    BY <1>0, <2>1, <2>3
  <2>4. CASE pc' = "after" /\ UNCHANGED <<homeStep, homeCaller, elapsed, step>>
    BY <1>0, <2>1, <2>4
  <2>5. CASE pc' = "send" /\ UNCHANGED <<homeStep, homeCaller, elapsed>>
    BY <1>0, <2>1, <2>5
  <2>6. QED
    BY <1>2, <2>2, <2>3, <2>4, <2>5 DEF MoveIter
<1>3. CASE MoveSend
  <2>1. elapsed <= TIMEOUT + 50 /\ Continue(elapsed + 20)
    BY <1>3 DEF MoveSend
  <2>2. elapsed + 20 \in Nat
    BY <1>0
  <2>3. QED
    BY <1>0, <2>1, <2>2, ContinueClock
<1>4. CASE HomeStep
  <2>1. pc = "home" /\ pc' = "home" /\ homeStep < HOME_MOVES /\ homeStep' = homeStep + 1
        /\ homeCaller' = homeCaller
    BY <1>4 DEF HomeStep
  <2>2. CASE homeCaller = "move"
    <3>1. elapsed' = elapsed + 50 /\ elapsed <= TIMEOUT + 50 + 50 * homeStep
      BY <1>4, <2>1, <2>2 DEF HomeStep
    <3>2. QED
      BY <1>0, <2>1, <2>2, <3>1
  <2>3. CASE homeCaller # "move"
    BY <1>0, <1>4, <2>1, <2>3 DEF HomeStep
  <2>4. QED
    BY <2>2, <2>3
<1>5. CASE HomeDone
  <2>1. pc = "home" /\ homeStep = HOME_MOVES
    BY <1>5 DEF HomeDone
  <2>2. CASE homeCaller = "command"
    BY <1>0, <1>5, <2>2 DEF HomeDone
  <2>3. CASE homeCaller # "command"
    <3>1. Continue(elapsed) /\ homeCaller = "move"
      BY <1>0, <1>5, <2>3 DEF HomeDone, TypeOK
    <3>2. elapsed <= B
      BY <1>0, <2>1, <3>1
    <3>3. QED
      BY <1>0, <3>1, <3>2, ContinueClock
  <2>4. QED
    BY <2>2, <2>3
<1>6. CASE AfterMove
  BY <1>0, <1>6 DEF AfterMove
<1>7. CASE Connect \/ Disconnect \/ \E l \in Lines : Write(l)
  BY <1>0, <1>7 DEF Connect, Disconnect, Write, fw
<1>8. CASE PollIdle \/ UNCHANGED vars
  BY <1>0, <1>8 DEF PollIdle, vars, fw, env
<1>9. QED
  BY <1>1, <1>2, <1>3, <1>4, <1>5, <1>6, <1>7, <1>8 DEF Next, Firmware, Environment

\* moveTo, and the home() it may start, never keeps loop() from the serial
\* port longer than BLOCK_LIMIT ms of delays, whatever the link does and
\* whatever the correction factor.
THEOREM MoveToBoundedInv == Spec => []MoveToBounded
<1>1. Init => ClockInv
  BY TypeInit DEF ClockInv, ClockFacts, MoveToBounded, BLOCK_LIMIT, Init, TIMEOUT,
                  HOME_MOVES
<1>2. ClockInv => MoveToBounded
  BY DEF ClockInv, ClockFacts
<1>3. QED
  BY <1>1, <1>2, ClockStep, PTL DEF Spec

====
