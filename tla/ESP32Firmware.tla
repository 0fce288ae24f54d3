--------------------------- MODULE ESP32Firmware ---------------------------
(***************************************************************************)
(* The ESP32 sketch src/esp/main.ino: loop() reads a command line from the *)
(* serial port and handleCommand runs it on BLEMouseTo, which drives the   *)
(* phone's pointer by dead reckoning: home() pushes the pointer into the   *)
(* top-left corner, then move() sends relative BLE HID moves of at most    *)
(* maxJumpDistance toward the target and adds each to currentX/currentY.   *)
(*                                                                         *)
(* A command line is abstracted to its first field (the verb) and the      *)
(* toInt() values of the fields after it: handleCommand only ever looks at *)
(* the verb, the number of commas and substring(...).toInt().  FACTOR's   *)
(* field is toFloat() of the text, kept in hundredths.                     *)
(*                                                                         *)
(* The environment is the BLE link (connected or not), the phone's pointer *)
(* ptr, which moves by what a delivered HID report says and stops at the   *)
(* screen edges, and a serial client that writes command lines.            *)
(* Time is the ms that moveTo's millis() test sees: the delay() calls.     *)
(***************************************************************************)
EXTENDS Integers, Sequences

CONSTANTS
  PhoneW, PhoneH,  \* the pointer's range on the phone: 0..PhoneW x 0..PhoneH
  StartPtrs,       \* where the pointer may be when the sketch starts
  Lines,           \* the command lines the serial client may write
  MaxLines,        \* bound on the lines written
  MaxToggles       \* bound on BLE connection changes

Verbs == {"GOTO", "CLICK", "SCROLL", "SCROLL_UP", "SCROLL_DOWN", "HSCROLL", "HOME",
          "CALIBRATE", "SCREEN", "FACTOR", "STATUS", "MOVE", "RESET", "GARBLED"}

\* verb: the text before the first comma ("GARBLED" when it is none of the
\* others); args: toInt() of each field after it, so Len(args) is the
\* number of commas.
Line == [verb : Verbs, args : Seq(Int)]

ASSUME FirmwareAssumption ==
  /\ PhoneW \in Nat \ {0} /\ PhoneH \in Nat \ {0}
  /\ StartPtrs \subseteq (0..PhoneW) \X (0..PhoneH) /\ StartPtrs # {}
  /\ Lines \subseteq Line
  /\ MaxLines \in Nat /\ MaxToggles \in Nat

-----------------------------------------------------------------------------
(* Constants of the sketch.                                                *)

MAX_JUMP == 50            \* maxJumpDistance (setMaxJumpDistance is never called)
HID_LIMIT == 127          \* constrain(move, -127, 127)
REACHED == 2              \* abs(delta) <= 2: target reached
TIMEOUT == 10000          \* moveTo's timeout, ms
HOME_MOVES == 20          \* home(): 20 x move(-127, -127), 50 ms apart

\* What moveTo does once it returns (clickAt, scrollAt, HSCROLL, GOTO).
Then == [kind : {"none", "click"}]
        \cup [kind : {"wheel", "hwheel"}, dir : Int, amount : Int]

\* A HID report that reached the phone, with where the pointer was and the
\* target moveTo was given.
HidEvent == [kind : {"click", "wheel", "hwheel"}, at : Int \X Int, want : Int \X Int]

VARIABLES
  \* BLEMouseTo members
  currentX, currentY, targetX, targetY, screenWidth, screenHeight, isHomed,
  correctionFactor,           \* in hundredths
  \* where the sketch is: in loop(), in home(), in moveTo's while loop
  \* before or after bleMouse.move, or past moveTo
  pc, homeStep, homeCaller, elapsed, step, after,
  rx,                         \* command lines received and not read
  \* environment
  connected, toggles, ptr, written,
  hid                         \* HID reports the phone received (history)

fw == <<currentX, currentY, targetX, targetY, screenWidth, screenHeight, isHomed,
        correctionFactor, pc, homeStep, homeCaller, elapsed, step, after>>
env == <<connected, toggles, ptr, written>>
vars == <<fw, rx, env, hid>>

-----------------------------------------------------------------------------
(* Arduino helpers.                                                        *)

AbsI(n) == IF n < 0 THEN -n ELSE n
constrain(v, lo, hi) == IF v < lo THEN lo ELSE IF v > hi THEN hi ELSE v
\* (int)(m * f) with f = pct / 100: C truncates toward zero.
Scale(m, pct) == IF m * pct >= 0 THEN (m * pct) \div 100 ELSE -((-(m * pct)) \div 100)

\* bleMouse.move(dx, dy): the phone moves its pointer and stops it at the
\* edges; BleMouse drops the report when no phone is connected.
Pointer(dx, dy) ==
  IF connected THEN <<constrain(ptr[1] + dx, 0, PhoneW), constrain(ptr[2] + dy, 0, PhoneH)>>
               ELSE ptr

\* One axis of a move() step: at most MAX_JUMP, times the correction factor,
\* limited to what a HID report holds.
AxisStep(delta) ==
  LET m == IF AbsI(delta) > MAX_JUMP THEN (IF delta > 0 THEN MAX_JUMP ELSE -MAX_JUMP)
                                     ELSE delta
  IN  constrain(Scale(m, correctionFactor), -HID_LIMIT, HID_LIMIT)

Reached == AbsI(targetX - currentX) <= REACHED /\ AbsI(targetY - currentY) <= REACHED

-----------------------------------------------------------------------------
(* handleCommand: each branch that starts moveTo or home, or changes a     *)
(* member.  Every other line (a bad format, an unknown verb, STATUS, a     *)
(* command while disconnected) only prints, and leaves the state alone.   *)

\* The members moveTo leaves alone when it begins.
MoveToKeeps == UNCHANGED <<currentX, currentY, screenWidth, screenHeight, isHomed,
                           correctionFactor, homeStep, homeCaller, step>>

\* Mutant: setTarget without constrain().
Mutant_SetTargetUnclamped(x, y, th) ==
  /\ targetX' = x /\ targetY' = y
  /\ elapsed' = 0 /\ after' = th /\ pc' = "move"
  /\ MoveToKeeps
\* moveTo(x, y) begins: setTarget(x, y), startTime = millis().
StartMoveTo(x, y, th) ==
  /\ targetX' = constrain(x, 0, screenWidth) /\ targetY' = constrain(y, 0, screenHeight)
  /\ elapsed' = 0 /\ after' = th /\ pc' = "move"
  /\ MoveToKeeps

\* The argument that substring(...).toInt() reads as field i, or dflt when
\* the line has fewer commas.
Arg(c, i, dflt) == IF Len(c.args) >= i THEN c.args[i] ELSE dflt

setScreenResolution(w, h) ==
  /\ screenWidth' = w /\ screenHeight' = h
  /\ UNCHANGED <<currentX, currentY, targetX, targetY, isHomed, correctionFactor,
                 pc, homeStep, homeCaller, elapsed, step, after>>

setCorrectionFactor(f) ==
  /\ correctionFactor' = f
  /\ UNCHANGED <<currentX, currentY, targetX, targetY, screenWidth, screenHeight,
                 isHomed, pc, homeStep, homeCaller, elapsed, step, after>>

\* CALIBRATE: the caller declares where the pointer is.
setCurrentPosition(x, y) ==
  /\ currentX' = x /\ currentY' = y /\ isHomed' = TRUE
  /\ UNCHANGED <<targetX, targetY, screenWidth, screenHeight, correctionFactor,
                 pc, homeStep, homeCaller, elapsed, step, after>>

\* The branches of handleCommand that act: a verb and at least the commas
\* the branch's indexOf tests need (HOME and STATUS must be the whole line).
Recognised(c) ==
  \/ c.verb \in {"GOTO", "CLICK", "SCROLL_UP", "SCROLL_DOWN", "CALIBRATE", "SCREEN"}
       /\ Len(c.args) >= 2
  \/ c.verb \in {"SCROLL", "HSCROLL"} /\ Len(c.args) >= 3
  \/ c.verb = "FACTOR" /\ Len(c.args) >= 1
  \/ c.verb \in {"HOME", "STATUS"} /\ c.args = <<>>

\* handleCommand(command): the BLE gate, then the branch the verb selects.
\* The gate, STATUS, a bad format and an unknown command only print.
Handle(c) ==
  LET v == c.verb
      n == Len(c.args)
  IN
  \/ /\ ~connected \/ ~Recognised(c) \/ v = "STATUS"
     /\ UNCHANGED fw
  \/ /\ connected
     /\ \/ v = "GOTO" /\ n >= 2 /\ StartMoveTo(c.args[1], c.args[2], [kind |-> "none"])
        \/ v = "CLICK" /\ n >= 2 /\ StartMoveTo(c.args[1], c.args[2], [kind |-> "click"])
        \/ /\ v \in {"SCROLL", "HSCROLL"} /\ n >= 3
           /\ StartMoveTo(c.args[1], c.args[2],
                          [kind |-> IF v = "SCROLL" THEN "wheel" ELSE "hwheel",
                           dir |-> c.args[3], amount |-> Arg(c, 4, 1)])
        \/ /\ v \in {"SCROLL_UP", "SCROLL_DOWN"} /\ n >= 2
           /\ StartMoveTo(c.args[1], c.args[2],
                          [kind |-> "wheel", dir |-> IF v = "SCROLL_UP" THEN 1 ELSE -1,
                           amount |-> Arg(c, 3, 3)])
        \/ /\ v = "HOME" /\ n = 0
           /\ pc' = "home" /\ homeStep' = 0 /\ homeCaller' = "command"
           /\ UNCHANGED <<currentX, currentY, targetX, targetY, screenWidth, screenHeight,
                          isHomed, correctionFactor, elapsed, step, after>>
        \/ v = "CALIBRATE" /\ n >= 2 /\ setCurrentPosition(c.args[1], c.args[2])
        \/ v = "SCREEN" /\ n >= 2 /\ setScreenResolution(c.args[1], c.args[2])
        \/ v = "FACTOR" /\ n >= 1 /\ setCorrectionFactor(c.args[1])

\* loop(): Serial.available(), readStringUntil('\n'), trim, handleCommand.
ReadCommand ==
  /\ pc = "loop" /\ rx # <<>>
  /\ Handle(Head(rx))
  /\ rx' = Tail(rx)
  /\ UNCHANGED <<env, hid>>

\* loop() with nothing available: delay(10).
PollIdle ==
  /\ pc = "loop" /\ rx = <<>>
  /\ UNCHANGED vars

-----------------------------------------------------------------------------
(* moveTo's while (!move()) loop, home() and what follows moveTo.          *)

\* Mutant: the loop forgets the delay, so millis() never passes the timeout.
Mutant_ContinueNoClock(el) == pc' = "move" /\ elapsed' = el
\* Mutant: the timeout test dropped.
Mutant_ContinueNoTimeout(el) == pc' = "move" /\ elapsed' = el + 50
\* move() returned false: give up once millis() - startTime > timeout,
\* else delay(50) and call move() again.
Continue(el) ==
  IF el > TIMEOUT THEN pc' = "after" /\ elapsed' = el
                  ELSE pc' = "move" /\ elapsed' = el + 50

\* move() up to bleMouse.move: not connected, not homed, at the target, or
\* a zero step all return without a report.
MoveIter ==
  /\ pc = "move"
  /\ LET s == <<AxisStep(targetX - currentX), AxisStep(targetY - currentY)>>
     IN  \/ /\ ~connected
            /\ Continue(elapsed) /\ UNCHANGED <<homeStep, homeCaller, step>>
         \/ /\ connected /\ ~isHomed
            /\ pc' = "home" /\ homeStep' = 0 /\ homeCaller' = "move"
            /\ UNCHANGED <<elapsed, step>>
         \/ /\ connected /\ isHomed /\ Reached
            /\ pc' = "after" /\ UNCHANGED <<homeStep, homeCaller, elapsed, step>>
         \/ /\ connected /\ isHomed /\ ~Reached /\ s = <<0, 0>>
            /\ Continue(elapsed) /\ UNCHANGED <<homeStep, homeCaller, step>>
         \/ /\ connected /\ isHomed /\ ~Reached /\ s # <<0, 0>>
            /\ pc' = "send" /\ step' = s /\ UNCHANGED <<homeStep, homeCaller, elapsed>>
  /\ UNCHANGED <<currentX, currentY, targetX, targetY, screenWidth, screenHeight,
                 isHomed, correctionFactor, after, rx, env, hid>>

\* bleMouse.move(moveX, moveY), currentX += moveX, delay(20); move() returns
\* false.  The position is tracked whether or not the report was delivered.
MoveSend ==
  /\ pc = "send"
  /\ ptr' = Pointer(step[1], step[2])
  /\ currentX' = currentX + step[1] /\ currentY' = currentY + step[2]
  /\ Continue(elapsed + 20)
  /\ UNCHANGED <<targetX, targetY, screenWidth, screenHeight, isHomed, correctionFactor,
                 homeStep, homeCaller, step, after, rx, connected, toggles, written, hid>>

\* Mutant: for (i = 0; i <= 20; i++).
Mutant_HomeStepOffByOne ==
  /\ pc = "home" /\ homeStep <= HOME_MOVES
  /\ ptr' = Pointer(-HID_LIMIT, -HID_LIMIT)
  /\ homeStep' = homeStep + 1
  /\ elapsed' = IF homeCaller = "move" THEN elapsed + 50 ELSE elapsed
  /\ UNCHANGED <<currentX, currentY, targetX, targetY, screenWidth, screenHeight, isHomed,
                 correctionFactor, pc, homeCaller, step, after, rx,
                 connected, toggles, written, hid>>
\* One of home()'s 20 bleMouse.move(-127, -127), then delay(50).
HomeStep ==
  /\ pc = "home" /\ homeStep < HOME_MOVES
  /\ ptr' = Pointer(-HID_LIMIT, -HID_LIMIT)
  /\ homeStep' = homeStep + 1
  /\ elapsed' = IF homeCaller = "move" THEN elapsed + 50 ELSE elapsed
  /\ UNCHANGED <<currentX, currentY, targetX, targetY, screenWidth, screenHeight, isHomed,
                 correctionFactor, pc, homeCaller, step, after, rx,
                 connected, toggles, written, hid>>

\* Mutant: home() leaves currentX/currentY as they were.
Mutant_HomeDoneNoReset ==
  /\ pc = "home" /\ homeStep = HOME_MOVES
  /\ isHomed' = TRUE
  /\ IF homeCaller = "command" THEN pc' = "loop" /\ UNCHANGED elapsed
                               ELSE Continue(elapsed)
  /\ UNCHANGED <<currentX, currentY, targetX, targetY, screenWidth, screenHeight,
                 correctionFactor, homeStep, homeCaller, step, after, rx, env, hid>>
\* home() ends: currentX = currentY = 0, isHomed = true; back in loop()
\* (HOME) or move() returns false.
HomeDone ==
  /\ pc = "home" /\ homeStep = HOME_MOVES
  /\ currentX' = 0 /\ currentY' = 0 /\ isHomed' = TRUE
  /\ IF homeCaller = "command" THEN pc' = "loop" /\ UNCHANGED elapsed
                               ELSE Continue(elapsed)
  /\ UNCHANGED <<targetX, targetY, screenWidth, screenHeight, correctionFactor,
                 homeStep, homeCaller, step, after, rx, env, hid>>

\* Mutant: every moveTo ends in a click.
Mutant_AfterMoveAlwaysClick ==
  /\ pc = "after"
  /\ hid' = IF connected
            THEN Append(hid, [kind |-> "click", at |-> ptr, want |-> <<targetX, targetY>>])
            ELSE hid
  /\ pc' = "loop"
  /\ UNCHANGED <<currentX, currentY, targetX, targetY, screenWidth, screenHeight, isHomed,
                 correctionFactor, homeStep, homeCaller, elapsed, step, after, rx, env>>
\* After moveTo: delay(100), then click() or scroll(dir, amount) (each only
\* if connected; scroll sends amount wheel reports).
AfterMove ==
  /\ pc = "after"
  /\ LET e == [kind |-> after.kind, at |-> ptr, want |-> <<targetX, targetY>>]
     IN  hid' = IF /\ connected /\ after.kind # "none"
                   /\ after.kind = "click" \/ after.amount > 0
                THEN Append(hid, e) ELSE hid
  /\ pc' = "loop"
  /\ UNCHANGED <<currentX, currentY, targetX, targetY, screenWidth, screenHeight, isHomed,
                 correctionFactor, homeStep, homeCaller, elapsed, step, after, rx, env>>

-----------------------------------------------------------------------------
(* The environment.                                                        *)

Connect ==
  /\ ~connected /\ toggles < MaxToggles
  /\ connected' = TRUE /\ toggles' = toggles + 1
  /\ UNCHANGED <<fw, rx, ptr, written, hid>>

Disconnect ==
  /\ connected /\ toggles < MaxToggles
  /\ connected' = FALSE /\ toggles' = toggles + 1
  /\ UNCHANGED <<fw, rx, ptr, written, hid>>

\* The serial client writes a whole line.
Write(l) ==
  /\ written < MaxLines
  /\ rx' = Append(rx, l) /\ written' = written + 1
  /\ UNCHANGED <<fw, connected, toggles, ptr, hid>>

-----------------------------------------------------------------------------

Init ==
  /\ currentX = 0 /\ currentY = 0 /\ targetX = 0 /\ targetY = 0
  /\ screenWidth = 390 /\ screenHeight = 844   \* setup(): setScreenResolution(390, 844)
  /\ isHomed = FALSE /\ correctionFactor = 100
  /\ pc = "loop" /\ homeStep = 0 /\ homeCaller = "command" /\ elapsed = 0
  /\ step = <<0, 0>> /\ after = [kind |-> "none"]
  /\ rx = <<>>
  /\ connected = FALSE /\ toggles = 0 /\ ptr \in StartPtrs /\ written = 0
  /\ hid = <<>>

Firmware == ReadCommand \/ MoveIter \/ MoveSend \/ HomeStep \/ HomeDone \/ AfterMove

Environment == Connect \/ Disconnect \/ \E l \in Lines : Write(l)

Next == Firmware \/ PollIdle \/ Environment

\* loop() runs forever and nothing in it blocks for good: a step the sketch
\* can take is eventually taken.
Spec == Init /\ [][Next]_vars /\ WF_vars(Firmware)

-----------------------------------------------------------------------------
(* Properties.                                                             *)

\* The variables have their types; home() never makes more than its 20
\* moves and a HID report is only ever a click or a wheel step.
TypeOK ==
  /\ currentX \in Int /\ currentY \in Int /\ targetX \in Int /\ targetY \in Int
  /\ screenWidth \in Int /\ screenHeight \in Int /\ isHomed \in BOOLEAN
  /\ correctionFactor \in Int
  /\ pc \in {"loop", "home", "move", "send", "after"}
  /\ homeStep \in 0..HOME_MOVES /\ homeCaller \in {"command", "move"}
  /\ elapsed \in Nat /\ step \in Int \X Int /\ after \in Then
  /\ rx \in Seq(Line)
  /\ connected \in BOOLEAN /\ toggles \in 0..MaxToggles
  /\ ptr \in (0..PhoneW) \X (0..PhoneH) /\ written \in 0..MaxLines
  /\ hid \in Seq(HidEvent)

\* Dead reckoning is exact: once homed, and outside home()'s own moves,
\* the phone's pointer is where currentX/currentY say it is.  This is what
\* lets clickAt click without any feedback from the phone.
PointerTracked ==
  isHomed /\ pc # "home" => ptr = <<currentX, currentY>>

\* Every click and scroll the phone receives happens within the 2 px that
\* move() calls "reached" of the point the command asked for (after the
\* constrain to the screen).
HidOnTarget ==
  \A i \in DOMAIN hid :
    /\ AbsI(hid[i].at[1] - hid[i].want[1]) <= REACHED
    /\ AbsI(hid[i].at[2] - hid[i].want[2]) <= REACHED

\* The longest moveTo can keep loop() from the serial port: its 10 s
\* timeout, one more delay(50), and home()'s 20 x 50 ms when the first
\* move() homes just before the timeout (home() never looks at the clock).
BLOCK_LIMIT == TIMEOUT + 50 + 50 * HOME_MOVES

\* A moveTo, including a home() it starts, has spent at most BLOCK_LIMIT ms
\* of delays.
MoveToBounded == elapsed <= BLOCK_LIMIT

\* moveTo never blocks the sketch for good: whatever the link does, each
\* command's move (and home) ends and loop() reads the serial port again.
MoveToTerminates == pc # "loop" ~> pc = "loop"

====
