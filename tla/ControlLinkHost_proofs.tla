------------------------ MODULE ControlLinkHost_proofs ------------------------
(***************************************************************************)
(* What the host's lines make the sketch do, when none of them is cut.    *)
(*                                                                         *)
(* A line is only cut when the RX buffer fills (run link_overflow shows    *)
(* the wrong click that follows).  While the buffer holds every line the   *)
(* host writes (RxCap > MaxIntents), nothing is cut or glued: every line   *)
(* in the buffer, and every line handleCommand gets, is one the host       *)
(* formatted from an intent.  A CLICK line then carries the point the host *)
(* recorded in asked, setTarget clamps it to that very point (the screen   *)
(* stays setup()'s 390x844), and AfterMove clicks at the target: every     *)
(* click is one the host asked for.  In the spec's dialect every such line *)
(* is also one handleCommand recognises.                                   *)
(***************************************************************************)
EXTENDS ControlLink_proofs

\* The RX buffer is larger than everything the host writes.
NoOverflow == RxCap > MaxIntents

\* The lines the host writes: one per intent, and init's STATUS.
HostSent == {Format(i) : i \in Intents} \cup {L("STATUS", <<>>)}

\* Nothing was cut, and each line in the buffer was written.
Whole == cut = NoCut /\ Len(rx) <= written

\* Where setTarget puts a CLICK line's point on setup()'s screen.
Clamp(l) == <<F!constrain(l.args[1], 0, SETUP_W), F!constrain(l.args[2], 0, SETUP_H)>>

\* Every CLICK line waiting in the buffer is one the host asked for.
ClickLines ==
  \A k \in DOMAIN rx : rx[k].verb = "CLICK" => Clamp(rx[k]) \in asked

\* A moveTo that will click is headed where the host asked for a click.
ClickTarget == after.kind = "click" => <<targetX, targetY>> \in asked

\* What the host's side adds to LinkInv.
HostRest ==
  /\ Whole /\ rx \in Seq(HostSent) /\ heard \in Seq(HostSent)
  /\ ClickLines /\ ClickTarget /\ ClickOnlyWhereRequested

HostInv == LinkInv /\ HostRest

-----------------------------------------------------------------------------
(* handleCommand and the click target.                                     *)

\* handleCommand leaves moveTo's target and follow-up alone, starts a moveTo
\* that will not click, or starts one that clicks at the CLICK line's point
\* clamped to the declared screen.
LEMMA HandleClick ==
  ASSUME NEW c, F!Handle(c)
  PROVE  \/ UNCHANGED <<after, targetX, targetY>>
         \/ after'.kind # "click"
         \/ /\ c.verb = "CLICK" /\ Len(c.args) >= 2
            /\ targetX' = F!constrain(c.args[1], 0, screenWidth)
            /\ targetY' = F!constrain(c.args[2], 0, screenHeight)
<1> DEFINE n == Len(c.args)
<1>1. \/ UNCHANGED F!fw
      \/ c.verb = "GOTO" /\ F!StartMoveTo(c.args[1], c.args[2], [kind |-> "none"])
      \/ c.verb = "CLICK" /\ n >= 2
         /\ F!StartMoveTo(c.args[1], c.args[2], [kind |-> "click"])
      \/ F!StartMoveTo(c.args[1], c.args[2],
                       [kind |-> IF c.verb = "SCROLL" THEN "wheel" ELSE "hwheel",
                        dir |-> c.args[3], amount |-> F!Arg(c, 4, 1)])
      \/ F!StartMoveTo(c.args[1], c.args[2],
                       [kind |-> "wheel", dir |-> IF c.verb = "SCROLL_UP" THEN 1 ELSE -1,
                        amount |-> F!Arg(c, 3, 3)])
      \/ UNCHANGED <<targetX, targetY, after>>
  BY Zenon DEF F!Handle, F!setCurrentPosition, F!setScreenResolution, F!setCorrectionFactor
<1>2. CASE UNCHANGED F!fw
  BY <1>2 DEF F!fw
<1>3. CASE c.verb = "GOTO" /\ F!StartMoveTo(c.args[1], c.args[2], [kind |-> "none"])
  BY <1>3 DEF F!StartMoveTo
<1>4. CASE c.verb = "CLICK" /\ n >= 2
           /\ F!StartMoveTo(c.args[1], c.args[2], [kind |-> "click"])
  BY <1>4 DEF F!StartMoveTo
<1>5. CASE F!StartMoveTo(c.args[1], c.args[2],
                         [kind |-> IF c.verb = "SCROLL" THEN "wheel" ELSE "hwheel",
                          dir |-> c.args[3], amount |-> F!Arg(c, 4, 1)])
  BY <1>5 DEF F!StartMoveTo
<1>6. CASE F!StartMoveTo(c.args[1], c.args[2],
                         [kind |-> "wheel", dir |-> IF c.verb = "SCROLL_UP" THEN 1 ELSE -1,
                          amount |-> F!Arg(c, 3, 3)])
  BY <1>6 DEF F!StartMoveTo
<1>7. CASE UNCHANGED <<targetX, targetY, after>>
  BY <1>7
<1>8. QED
  BY <1>1, <1>2, <1>3, <1>4, <1>5, <1>6, <1>7

-----------------------------------------------------------------------------
(* The host's lines.                                                       *)

LEMMA HostSentType ==
  HostSent \subseteq HostLine
<1>1. L("STATUS", <<>>) \in HostLine
  BY EmptySeq DEF L, HostLine, HostVerbs
<1>2. QED
  BY <1>1, FormatType DEF HostSent

\* Only a click intent turns into a CLICK line, and it carries the point.
LEMMA FormatClick ==
  ASSUME NEW i \in Intents, Format(i).verb = "CLICK"
  PROVE  i.op = "Up" /\ Format(i).args = <<i.x, i.y>>
<1>1. i.op \in {"Up", "Move", "ScrollUp", "ScrollDown", "Home", "Status"}
  BY LinkAssumption DEF Intent
<1>2. QED
  BY <1>1 DEF Format, ESP32CommLine, CommandChannelLine, L

\* In the spec's dialect handleCommand recognises every line the host writes.
LEMMA HostSentRecognised ==
  ASSUME Dialect = "CommandChannel", NEW l \in HostSent
  PROVE  F!Recognised(l)
<1>1. CASE l = L("STATUS", <<>>)
  BY <1>1 DEF F!Recognised, L
<1>2. CASE \E i \in Intents : l = Format(i)
  <2>1. PICK i \in Intents : l = CommandChannelLine(i)
    BY <1>2 DEF Format
  <2>2. i.op \in {"Up", "Move", "ScrollUp", "ScrollDown", "Home", "Status"}
    BY LinkAssumption DEF Intent
  <2>3. QED
    BY <2>1, <2>2 DEF CommandChannelLine, L, F!Recognised
<1>3. QED
  BY <1>1, <1>2 DEF HostSent

\* While the buffer holds all the host writes, a line arrives whole.
LEMMA ArriveWhole ==
  ASSUME NoOverflow, Whole, rx \in Seq(HostSent), written \in Nat, written < MaxIntents,
         NEW l, Arrive(l)
  PROVE  rx' = Append(rx, l) /\ cut' = NoCut
<1>1. RxCap \in Nat /\ MaxIntents \in Nat
  BY LinkAssumption
<1>2. Used = Len(rx) /\ Used < RxCap - 1
  BY <1>1 DEF Whole, Used, NoOverflow
<1>3. QED
  BY <1>2 DEF Arrive, Whole

-----------------------------------------------------------------------------
(* HostRest, step by step.                                                 *)

\* A step that leaves the buffer, the ghosts, the click target and the HID
\* history alone.
LEMMA RestFrame ==
  ASSUME HostRest,
         UNCHANGED <<rx, cut, asked, heard, after, targetX, targetY, hid, written>>
  PROVE  HostRest'
BY DEF HostRest, Whole, ClickLines, ClickTarget, ClickOnlyWhereRequested

\* A line appended to the buffer keeps the CLICK lines asked for, when
\* asked only grows and the new line is asked for if it is a CLICK.
LEMMA AppendClickLines ==
  ASSUME rx \in Seq(HostSent), ClickLines, NEW l \in HostSent, rx' = Append(rx, l),
         asked \subseteq asked', l.verb = "CLICK" => Clamp(l) \in asked'
  PROVE  ClickLines'
<1>1. HostSent \subseteq HostLine
  BY HostSentType
<1>2. /\ Len(rx') = Len(rx) + 1 /\ rx'[Len(rx) + 1] = l
      /\ \A j \in 1..Len(rx) : rx'[j] = rx[j]
  BY AppendProperties
<1>3. DOMAIN rx' = 1..(Len(rx) + 1) /\ DOMAIN rx = 1..Len(rx)
  BY <1>2, AppendProperties
<1>4. ASSUME NEW k \in DOMAIN rx', rx'[k].verb = "CLICK"
      PROVE  Clamp(rx'[k]) \in asked'
  <2>1. CASE k \in 1..Len(rx)
    BY <1>2, <1>3, <1>4, <2>1 DEF ClickLines
  <2>2. CASE k = Len(rx) + 1
    BY <1>2, <1>4, <2>2
  <2>3. QED
    BY <1>3, <2>1, <2>2
<1>5. QED
  BY <1>4 DEF ClickLines

\* ESP32Comm::init's STATUS arrives whole.
LEMMA OpenRest ==
  ASSUME NoOverflow, LinkInv, HostRest, Open
  PROVE  HostRest'
<1>1. L("STATUS", <<>>) \in HostSent
  BY DEF HostSent
<1>2. rx' = Append(rx, L("STATUS", <<>>)) /\ cut' = NoCut
  BY ArriveWhole DEF Open, HostRest, LinkInv, LinkTypeOK
<1>3. rx' \in Seq(HostSent) /\ Len(rx') = Len(rx) + 1
  BY <1>1, <1>2, AppendProperties DEF HostRest
<1>4. ClickLines'
  BY <1>1, <1>2, AppendClickLines DEF Open, HostRest, L
<1>5. QED
  BY <1>2, <1>3, <1>4
  DEF Open, HostRest, Whole, ClickTarget, ClickOnlyWhereRequested, LinkInv, LinkTypeOK

\* The host writes an intent's line, and records a click's point (clamped
\* to the screen) in asked whether or not the port is open.
LEMMA SendRest ==
  ASSUME NoOverflow, LinkInv, HostRest, NEW i \in Intents, Send(i)
  PROVE  HostRest'
<1>1. /\ asked \subseteq asked'
      /\ i.op = "Up" =>
           <<F!constrain(i.x, 0, SETUP_W), F!constrain(i.y, 0, SETUP_H)>> \in asked'
  BY DEF Send, LinkInv, LinkTypeOK
<1>2. (ClickTarget /\ ClickOnlyWhereRequested /\ heard \in Seq(HostSent))'
  BY <1>1 DEF Send, HostRest, ClickTarget, ClickOnlyWhereRequested
<1>3. CASE hostOpen
  <2>1. Format(i) \in HostSent
    BY DEF HostSent
  <2>2. rx' = Append(rx, Format(i)) /\ cut' = NoCut
    BY <1>3, ArriveWhole DEF Send, HostRest, LinkInv, LinkTypeOK
  <2>3. Format(i).verb = "CLICK" => Clamp(Format(i)) \in asked'
    BY <1>1, FormatClick DEF Clamp
  <2>4. ClickLines'
    BY <1>1, <2>1, <2>2, <2>3, AppendClickLines DEF HostRest
  <2>5. rx' \in Seq(HostSent) /\ Len(rx') = Len(rx) + 1
    BY <2>1, <2>2, AppendProperties DEF HostRest
  <2>6. QED
    BY <1>2, <2>2, <2>4, <2>5 DEF Send, HostRest, Whole, LinkInv, LinkTypeOK
<1>4. CASE ~hostOpen
  <2>1. UNCHANGED <<rx, cut>> /\ written' = written + 1
    BY <1>4 DEF Send
  <2>2. ClickLines'
    BY <1>1, <2>1 DEF HostRest, ClickLines
  <2>3. QED
    BY <1>2, <2>1, <2>2 DEF HostRest, Whole, LinkInv, LinkTypeOK
<1>5. QED
  BY <1>3, <1>4

\* loop() reads the oldest line: handleCommand gets a line the host wrote,
\* and a CLICK among them clicks where asked.
LEMMA ReadLineRest ==
  ASSUME LinkInv, HostRest, ReadLine
  PROVE  HostRest'
<1>1. rx \in Seq(HostSent) /\ rx # <<>>
  BY DEF ReadLine, F!ReadCommand, HostRest
<1>2. /\ Head(rx) \in HostSent /\ Tail(rx) \in Seq(HostSent)
      /\ Len(Tail(rx)) = Len(rx) - 1
      /\ \A j \in 1..Len(Tail(rx)) : Tail(rx)[j] = rx[j + 1]
  BY <1>1, HeadTailProperties
<1>3. /\ rx' = Tail(rx) /\ heard' = Append(heard, Head(rx))
      /\ UNCHANGED <<cut, asked, hid, written>>
  BY DEF ReadLine, F!ReadCommand, F!env
<1>4. Whole' /\ rx' \in Seq(HostSent) /\ heard' \in Seq(HostSent)
  <2>1. heard' \in Seq(HostSent)
    BY <1>2, <1>3, AppendProperties DEF HostRest
  <2>2. Len(rx') <= written' /\ cut' = NoCut
    <3>1. written \in Nat
      BY DEF LinkInv, LinkTypeOK
    <3>2. QED
      BY <1>1, <1>2, <1>3, <3>1 DEF HostRest, Whole
  <2>3. QED
    BY <1>2, <1>3, <2>1, <2>2 DEF Whole
<1>5. ClickLines'
  <2>1. ASSUME NEW k \in DOMAIN rx', rx'[k].verb = "CLICK"
        PROVE  Clamp(rx'[k]) \in asked'
    <3>1. k \in 1..Len(Tail(rx)) /\ k + 1 \in DOMAIN rx
      BY <1>1, <1>2, <1>3
    <3>2. rx'[k] = rx[k + 1]
      BY <1>2, <1>3, <3>1
    <3>3. QED
      BY <1>3, <2>1, <3>1, <3>2 DEF HostRest, ClickLines
  <2>2. QED
    BY <2>1 DEF ClickLines
<1>6. ClickTarget'
  <2>1. Head(rx) \in HostLine /\ rx[1] = Head(rx) /\ 1 \in DOMAIN rx
    BY <1>1, <1>2, HostSentType
  <2>2. Head(rx).verb = "CLICK" /\ Len(Head(rx).args) >= 2 => Clamp(Head(rx)) \in asked
    BY <2>1 DEF HostRest, ClickLines
  <2>3. screenWidth = SETUP_W /\ screenHeight = SETUP_H
    BY DEF LinkInv, LinkTypeOK
  <2>4. F!Handle(Head(rx))
    BY DEF ReadLine, F!ReadCommand
  <2>5. QED
    BY <1>3, <2>2, <2>3, <2>4, HandleClick DEF HostRest, ClickTarget, Clamp
<1>7. ClickOnlyWhereRequested'
  BY <1>3 DEF HostRest, ClickOnlyWhereRequested
<1>8. QED
  BY <1>4, <1>5, <1>6, <1>7 DEF HostRest

\* After moveTo: a click report's target is where the host asked.
LEMMA AfterMoveRest ==
  ASSUME LinkInv, HostRest, F!AfterMove,
         UNCHANGED <<rx, cut, asked, heard>>
  PROVE  HostRest'
<1>1. hid \in Seq(HidReport)
  BY DEF LinkInv, LinkTypeOK, HidReport
<1>2. \/ hid' = hid
      \/ hid' = Append(hid, AfterReport)
  BY DEF F!AfterMove, AfterReport
<1>3. UNCHANGED <<after, targetX, targetY, written>>
  BY DEF F!AfterMove, F!env
<1>4. AfterReport.kind = "click" => AfterReport.want \in asked
  BY DEF AfterReport, HostRest, ClickTarget
<1>5. ClickOnlyWhereRequested'
  <2>1. CASE hid' = hid
    BY <2>1 DEF HostRest, ClickOnlyWhereRequested
  <2>2. CASE hid' = Append(hid, AfterReport)
    <3>1. /\ Len(hid') = Len(hid) + 1 /\ hid'[Len(hid) + 1] = AfterReport
          /\ \A j \in 1..Len(hid) : hid'[j] = hid[j]
      BY <1>1, <2>2, AppendProperties
    <3>2. DOMAIN hid' = 1..(Len(hid) + 1) /\ DOMAIN hid = 1..Len(hid)
      BY <1>1, <2>2, <3>1, AppendProperties
    <3>3. ASSUME NEW k \in DOMAIN hid', hid'[k].kind = "click"
          PROVE  hid'[k].want \in asked'
      <4>1. CASE k \in 1..Len(hid)
        BY <3>1, <3>2, <3>3, <4>1 DEF HostRest, ClickOnlyWhereRequested
      <4>2. CASE k = Len(hid) + 1
        BY <1>4, <3>1, <3>3, <4>2
      <4>3. QED
        BY <3>2, <4>1, <4>2
    <3>4. QED
      BY <3>3 DEF ClickOnlyWhereRequested
  <2>3. QED
    BY <1>2, <2>1, <2>2
<1>6. QED
  BY <1>3, <1>5 DEF HostRest, Whole, ClickLines, ClickTarget

-----------------------------------------------------------------------------
(* The invariant and the theorems.                                         *)

LEMMA HostInit ==
  ASSUME PhoneFits, Init
  PROVE  HostInv
<1>1. LinkInv
  BY InitInv
<1>2. HostRest
  BY EmptySeq DEF Init, F!Init, HostRest, Whole, ClickLines, ClickTarget,
                  ClickOnlyWhereRequested
<1>3. QED
  BY <1>1, <1>2 DEF HostInv

LEMMA HostStep ==
  ASSUME PhoneFits, NoOverflow, HostInv, [Next]_vars
  PROVE  HostInv'
<1>1. LinkInv'
  BY LinkStep DEF HostInv
<1>2. HostRest'
  <2> USE DEF HostInv
  <2>1. CASE Open
    BY <2>1, OpenRest
  <2>2. CASE \E i \in Intents : Send(i)
    BY <2>2, SendRest
  <2>3. CASE ReadLine
    BY <2>3, ReadLineRest
  <2>4. CASE ReadTimeout
    BY <2>4 DEF ReadTimeout, HostRest, Whole
  <2>5. CASE Sketch
    <3>1. UNCHANGED <<rx, cut, asked, heard>>
      BY <2>5 DEF Sketch, F!MoveIter, F!MoveSend, F!HomeStep, F!HomeDone, F!AfterMove
    <3>2. CASE F!AfterMove
      BY <3>1, <3>2, AfterMoveRest
    <3>3. CASE F!MoveIter \/ F!MoveSend \/ F!HomeStep \/ F!HomeDone
      BY <3>1, <3>3, RestFrame
      DEF F!MoveIter, F!MoveSend, F!HomeStep, F!HomeDone, F!env
    <3>4. QED
      BY <2>5, <3>2, <3>3 DEF Sketch
  <2>6. CASE Idle
    BY <2>6, RestFrame DEF Idle, vars, firmware
  <2>7. CASE Pair
    BY <2>7, RestFrame DEF Pair, F!Connect, F!fw
  <2>8. CASE UNCHANGED vars
    BY <2>8, RestFrame DEF vars, firmware
  <2>9. QED
    BY <2>1, <2>2, <2>3, <2>4, <2>5, <2>6, <2>7, <2>8 DEF Next
<1>3. QED
  BY <1>1, <1>2 DEF HostInv

THEOREM HostInvariant ==
  ASSUME PhoneFits, NoOverflow
  PROVE  Spec => []HostInv
<1>1. Init => HostInv
  BY HostInit
<1>2. HostInv /\ [Next]_vars => HostInv'
  BY HostStep
<1>3. QED
  BY <1>1, <1>2, PTL DEF Spec

\* While the RX buffer holds every line the host writes, the phone is only
\* clicked where the host asked for a click (ControlLink's
\* ClickOnlyWhereRequested): a move or a scroll never turns into a click.
THEOREM ClickOnlyInv ==
  ASSUME PhoneFits, NoOverflow
  PROVE  Spec => []ClickOnlyWhereRequested
<1>1. HostInv => ClickOnlyWhereRequested
  BY DEF HostInv, HostRest
<1>2. QED
  BY <1>1, HostInvariant, PTL

\* In the spec's dialect, and while no line is cut, handleCommand
\* recognises every line the host writes (ControlLink's CommandsUnderstood).
THEOREM CommandsUnderstoodInv ==
  ASSUME PhoneFits, NoOverflow, Dialect = "CommandChannel"
  PROVE  Spec => []CommandsUnderstood
<1>1. HostInv => CommandsUnderstood
  <2> SUFFICES ASSUME HostInv, NEW k \in DOMAIN heard
               PROVE  F!Recognised(heard[k])
    BY DEF CommandsUnderstood
  <2>1. heard[k] \in HostSent
    BY DEF HostInv, HostRest
  <2>2. QED
    BY <2>1, HostSentRecognised
<1>2. QED
  BY <1>1, HostInvariant, PTL

====
