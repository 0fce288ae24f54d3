---------------------------- MODULE ControlLink ----------------------------
(***************************************************************************)
(* The host's command channel composed with the ESP32 sketch.  The host    *)
(* turns each gesture intent into one command line and writes it to the   *)
(* serial port, in one of two dialects:                                    *)
(*   "ESP32Comm":      the class src/fix_all_issues.sh writes out          *)
(*                     (MOVE, SCROLL,dir,amt, RESET);                      *)
(*   "CommandChannel": the protocol of spec section 4.2 (GOTO,             *)
(*                     SCROLL_UP,x,y,3, HOME).                             *)
(* The port has no flow control and nothing acknowledges a line, so lines  *)
(* pile up in the sketch's RX buffer while moveTo blocks.  The buffer      *)
(* holds RxCap lines; a line that does not fit is lost, except that the    *)
(* one reaching the limit may leave a cut prefix (no newline) behind.      *)
(* readStringUntil('\n') then either times out and returns the prefix, or  *)
(* returns it glued to the next line that arrives.                         *)
(***************************************************************************)
EXTENDS Integers, Sequences

CONSTANTS
  PhoneW, PhoneH, StartPtrs,   \* as in ESP32Firmware
  Dialect,                     \* "ESP32Comm" or "CommandChannel"
  Intents,                     \* the gesture intents the host may act on
  MaxIntents,                  \* bound on the intents
  RxCap                        \* RX buffer capacity, in lines

VARIABLES
  currentX, currentY, targetX, targetY, screenWidth, screenHeight, isHomed,
  correctionFactor, pc, homeStep, homeCaller, elapsed, step, after,
  rx, connected, toggles, ptr, written, hid,
  hostOpen,     \* ESP32Comm::connected_ (the port is open)
  cut,          \* a cut line at the end of the RX buffer, or NoCut
  asked,        \* where the host asked for clicks (after setTarget's clamp)
  heard         \* the lines handleCommand was given, in order

F == INSTANCE ESP32Firmware WITH Lines <- {}, MaxLines <- 0, MaxToggles <- 1

NoCut == [verb |-> "NONE", args |-> <<>>]

Intent == [op : {"Up", "Move", "ScrollUp", "ScrollDown"}, x : Nat, y : Nat]
          \cup [op : {"Home", "Status"}]

ASSUME LinkAssumption ==
  /\ PhoneW \in Nat \ {0} /\ PhoneH \in Nat \ {0}
  /\ StartPtrs \subseteq (0..PhoneW) \X (0..PhoneH) /\ StartPtrs # {}
  /\ Dialect \in {"ESP32Comm", "CommandChannel"}
  /\ Intents \subseteq Intent /\ MaxIntents \in Nat /\ RxCap \in Nat \ {0}

firmware == <<currentX, currentY, targetX, targetY, screenWidth, screenHeight,
              isHomed, correctionFactor, pc, homeStep, homeCaller, elapsed, step,
              after, connected, toggles, ptr, written, hid>>
vars == <<firmware, rx, hostOpen, cut, asked, heard>>

-----------------------------------------------------------------------------
(* The host.                                                               *)

\* SCROLL_UP/SCROLL_DOWN's fixed per-step amount (spec section 4.2).
AMOUNT == 3

L(v, a) == [verb |-> v, args |-> a]

\* ESP32Comm's send_click, send_goto, send_scroll_up/down, send_home and
\* send_status.
ESP32CommLine(i) ==
  CASE i.op = "Up"         -> L("CLICK", <<i.x, i.y>>)
    [] i.op = "Move"       -> L("MOVE", <<i.x, i.y>>)
    [] i.op = "ScrollUp"   -> L("SCROLL", <<1, AMOUNT>>)
    [] i.op = "ScrollDown" -> L("SCROLL", <<-1, AMOUNT>>)
    [] i.op = "Home"       -> L("RESET", <<>>)
    [] i.op = "Status"     -> L("STATUS", <<>>)

\* Mutant: the MOVE dialect's verb for Move.
Mutant_CommandChannelMove(i) ==
  CASE i.op = "Up"         -> L("CLICK", <<i.x, i.y>>)
    [] i.op = "Move"       -> L("MOVE", <<i.x, i.y>>)
    [] i.op = "ScrollUp"   -> L("SCROLL_UP", <<i.x, i.y, AMOUNT>>)
    [] i.op = "ScrollDown" -> L("SCROLL_DOWN", <<i.x, i.y, AMOUNT>>)
    [] i.op = "Home"       -> L("HOME", <<>>)
    [] i.op = "Status"     -> L("STATUS", <<>>)
\* CommandChannel.onTouchEvent, home() and queryStatus().
CommandChannelLine(i) ==
  CASE i.op = "Up"         -> L("CLICK", <<i.x, i.y>>)
    [] i.op = "Move"       -> L("GOTO", <<i.x, i.y>>)
    [] i.op = "ScrollUp"   -> L("SCROLL_UP", <<i.x, i.y, AMOUNT>>)
    [] i.op = "ScrollDown" -> L("SCROLL_DOWN", <<i.x, i.y, AMOUNT>>)
    [] i.op = "Home"       -> L("HOME", <<>>)
    [] i.op = "Status"     -> L("STATUS", <<>>)

Format(i) == IF Dialect = "ESP32Comm" THEN ESP32CommLine(i) ELSE CommandChannelLine(i)

\* The text left of a number when the line is cut inside it: toInt() of a
\* cut "-1" is toInt("-") = 0.
Prefix(v, d) == IF v >= 0 THEN v \div d ELSE -((-v) \div d)

\* Where a line may be cut: inside its verb, or inside (or just after) one
\* of its fields; the field cut to nothing reads as 0.
Cuts(l) ==
  {L("GARBLED", <<>>)}
  \cup {L(l.verb, SubSeq(l.args, 1, k - 1) \o <<Prefix(l.args[k], d)>>) :
          k \in DOMAIN l.args, d \in {1, 10, 1000}}

\* A cut line glued to the next line: the next verb's letters end the cut
\* field's digits, and the next line's fields follow as further fields.
Merge(c, l) == L(c.verb, c.args \o l.args)

Used == Len(rx) + (IF cut = NoCut THEN 0 ELSE 1)

\* The bytes of line l reach the RX buffer: whole, glued to a cut line, cut
\* at the limit, or lost.
Arrive(l) ==
  \/ /\ Used < RxCap /\ cut = NoCut
     /\ rx' = Append(rx, l) /\ UNCHANGED cut
  \/ /\ Used < RxCap /\ cut # NoCut
     /\ rx' = Append(rx, Merge(cut, l)) /\ cut' = NoCut
  \/ /\ Used = RxCap - 1 /\ cut = NoCut
     /\ cut' \in Cuts(l) /\ UNCHANGED rx
  \/ /\ Used = RxCap
     /\ UNCHANGED <<rx, cut>>

\* ESP32Comm::init: open and configure the port, then send_status().
Open ==
  /\ ~hostOpen /\ written < MaxIntents
  /\ hostOpen' = TRUE
  /\ Arrive(L("STATUS", <<>>))
  /\ written' = written + 1
  /\ UNCHANGED <<asked, heard>>
  /\ UNCHANGED <<currentX, currentY, targetX, targetY, screenWidth, screenHeight,
                 isHomed, correctionFactor, pc, homeStep, homeCaller, elapsed, step,
                 after, connected, toggles, ptr, hid>>

\* One intent: send_command refuses when the port is not open; otherwise
\* write_to_serial writes the whole line and tcdrain waits for it to leave.
Send(i) ==
  /\ written < MaxIntents
  /\ written' = written + 1
  /\ IF hostOpen THEN Arrive(Format(i)) ELSE UNCHANGED <<rx, cut>>
  /\ asked' = IF i.op = "Up"
              THEN asked \cup {<<F!constrain(i.x, 0, screenWidth),
                                 F!constrain(i.y, 0, screenHeight)>>}
              ELSE asked
  /\ UNCHANGED <<hostOpen, heard>>
  /\ UNCHANGED <<currentX, currentY, targetX, targetY, screenWidth, screenHeight,
                 isHomed, correctionFactor, pc, homeStep, homeCaller, elapsed, step,
                 after, connected, toggles, ptr, hid>>

-----------------------------------------------------------------------------
(* The sketch, reading from the RX buffer.                                 *)

\* loop() reads a whole line.
ReadLine ==
  /\ F!ReadCommand
  /\ heard' = Append(heard, Head(rx))
  /\ UNCHANGED <<hostOpen, cut, asked>>

\* Mutant: a read with no timeout never returns a line without its newline.
Mutant_ReadTimeoutNever == FALSE
\* loop() finds only a cut line: readStringUntil waits out its timeout and
\* returns what it has.
ReadTimeout ==
  /\ pc = "loop" /\ rx = <<>> /\ cut # NoCut
  /\ F!Handle(cut)
  /\ heard' = Append(heard, cut) /\ cut' = NoCut
  /\ UNCHANGED <<connected, toggles, ptr, written, hid, rx, hostOpen, asked>>

\* The rest of moveTo, home() and what follows them.
Sketch ==
  /\ F!MoveIter \/ F!MoveSend \/ F!HomeStep \/ F!HomeDone \/ F!AfterMove
  /\ UNCHANGED <<hostOpen, cut, asked, heard>>

Idle ==
  /\ pc = "loop" /\ rx = <<>> /\ cut = NoCut
  /\ UNCHANGED vars

Pair ==
  /\ F!Connect
  /\ UNCHANGED <<hostOpen, cut, asked, heard>>

Init ==
  /\ F!Init
  /\ hostOpen = FALSE /\ cut = NoCut /\ asked = {} /\ heard = <<>>

Next ==
  \/ Open \/ \E i \in Intents : Send(i)
  \/ ReadLine \/ ReadTimeout \/ Sketch \/ Idle \/ Pair

Spec == Init /\ [][Next]_vars /\ WF_vars(ReadLine \/ ReadTimeout \/ Sketch)

-----------------------------------------------------------------------------
(* Properties.                                                             *)

\* The host and the sketch speak one protocol: every line handleCommand is
\* given is one of its commands with the fields that command needs.
CommandsUnderstood == \A k \in DOMAIN heard : F!Recognised(heard[k])

\* The phone is clicked only where the host asked for a click: moving the
\* pointer (GOTO/MOVE) or scrolling never turns into a click elsewhere.
ClickOnlyWhereRequested ==
  \A k \in DOMAIN hid : hid[k].kind = "click" => hid[k].want \in asked

\* Dead reckoning, on a link that comes up once and stays: once homed and
\* outside home(), the sketch's currentX/currentY are where the phone's
\* pointer is, whatever the host wrote while moveTo ran.
PointerTracked == F!PointerTracked

\* Every click and wheel report the phone gets lands within 2 px of the
\* (clamped) target moveTo was given for it.
HidOnTarget == F!HidOnTarget

\* The sketch never stays stuck on what the host wrote: whatever the RX
\* buffer did to the lines (a cut line included), loop() eventually reads
\* them all and the buffer stays empty.
LinkDrains == <>[](rx = <<>> /\ cut = NoCut)

====
