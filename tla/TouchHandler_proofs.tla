------------------------- MODULE TouchHandler_proofs -------------------------
(***************************************************************************)
(* Proofs about TouchHandler for every value of its constants.             *)
(***************************************************************************)
EXTENDS TouchHandler, TLAPS, SequenceTheorems

USE ConstantsAssumption

\* The default mapping is one of the mappings TypeOK allows.
LEMMA DefaultMappingDims == DefaultMapping \in AllMappings /\ DefaultMapping \in Dims
BY DEF DefaultMapping, AllMappings, Dims

\* map_coordinates always lands on the target screen.
LEMMA MapAxisRange ==
  ASSUME NEW raw \in Nat, NEW t \in Nat \ {0}, NEW s \in Nat \ {0}
  PROVE  MapAxis(raw, t, s) \in 0..t - 1
BY DEF MapAxis, MaxI, MinI

\* Every mapping TypeOK allows has positive dimensions.
LEMMA AllMappingsDims == AllMappings \subseteq Dims
BY DefaultMappingDims DEF AllMappings

\* A TouchEvent made from the current position under a TypeOK mapping.
LEMMA EmitType ==
  ASSUME TypeOK, NEW type \in EventKinds, Emit(type)
  PROVE  gesture' \in Seq(TouchEvent)
<1> DEFINE e == [type |-> type, x |-> MapX(current_x), y |-> MapY(current_y),
                 rx |-> current_x, ry |-> current_y]
<1>1. PICK m \in AllMappings : target_width = m.tw /\ target_height = m.th
  BY DEF TypeOK
<1>2. m \in Dims
  BY <1>1, AllMappingsDims
<1>3. MapX(current_x) \in 0..m.tw - 1 /\ MapY(current_y) \in 0..m.th - 1
  BY <1>1, <1>2, MapAxisRange DEF TypeOK, MapX, MapY, Dims
<1>4. e \in TouchEvent
  BY <1>1, <1>3 DEF TypeOK, TouchEvent
<1>5. gesture' = IF type = "TOUCH_DOWN" THEN <<e>> ELSE Append(gesture, e)
  BY DEF Emit
<1>6. QED
  BY <1>4, <1>5 DEF TypeOK

\* The ABS events of a frame: only the changed coordinates.
LEMMA AbsEventsType ==
  ASSUME NEW nx \in XVals, NEW ny \in YVals
  PROVE  AbsEvents(nx, ny) \in Seq(InputEvent)
<1>1. [type |-> "EV_ABS", code |-> "ABS_X", value |-> nx] \in InputEvent
  BY DEF InputEvent
<1>2. [type |-> "EV_ABS", code |-> "ABS_Y", value |-> ny] \in InputEvent
  BY DEF InputEvent
<1>3. (IF nx # pos_x THEN <<[type |-> "EV_ABS", code |-> "ABS_X", value |-> nx]>>
                     ELSE <<>>) \in Seq(InputEvent)
  BY <1>1
<1>4. (IF ny # pos_y THEN <<[type |-> "EV_ABS", code |-> "ABS_Y", value |-> ny]>>
                     ELSE <<>>) \in Seq(InputEvent)
  BY <1>2
<1>5. QED
  BY <1>3, <1>4 DEF AbsEvents

\* The frames the device reports are sequences of input events.
LEMMA FrameType ==
  ASSUME NEW nx \in XVals, NEW ny \in YVals, NEW v \in {0, 1},
         NEW order \in FrameOrders
  PROVE  /\ AbsEvents(nx, ny) \o <<SynReport>> \in Seq(InputEvent)
         /\ Frame(KeyEvents(v), AbsEvents(nx, ny), order) \in Seq(InputEvent)
<1>1. KeyEvents(v) \in Seq(InputEvent)
  BY DEF KeyEvents, InputEvent
<1>2. AbsEvents(nx, ny) \in Seq(InputEvent)
  BY AbsEventsType
<1>3. <<SynReport>> \in Seq(InputEvent)
  BY DEF SynReport, InputEvent
<1>4. QED
  BY <1>1, <1>2, <1>3 DEF Frame

\* event_loop reads the head of a non-empty queue: an input event, and the
\* rest of the queue stays a queue of input events.
LEMMA TailType ==
  ASSUME TypeOK, evq # <<>>
  PROVE  Tail(evq) \in Seq(InputEvent) /\ Head(evq) \in InputEvent
BY DEF TypeOK

\* The type invariant: every reachable state gives the variables their
\* types, in particular the mapping never has a zero screen dimension and
\* every TouchEvent passed to the callback lies on the target screen.
THEOREM TypeCorrect == Spec => []TypeOK
<1>1. Init => TypeOK
  <2> SUFFICES ASSUME Init PROVE TypeOK
    OBVIOUS
  <2>1. \E m \in AllMappings : target_width = m.tw /\ target_height = m.th
    BY DefaultMappingDims DEF Init, DefaultMapping
  <2>2. screen_width \in Nat \ {0} /\ screen_height \in Nat \ {0}
    BY DEF Init, DefaultMapping
  <2>3. gesture \in Seq(TouchEvent) /\ evq \in Seq(InputEvent)
    BY DEF Init
  <2>4. /\ current_x \in Nat /\ current_y \in Nat /\ last_x \in Nat /\ last_y \in Nat
        /\ touch_active \in BOOLEAN /\ scroll_mode \in BOOLEAN /\ scroll_start_y \in Nat
        /\ finger \in BOOLEAN /\ pos_x \in Nat /\ pos_y \in Nat
        /\ press_x \in Nat /\ press_y \in Nat /\ moved \in BOOLEAN
    BY DEF Init
  <2>5. frames \in 0..MaxFrames /\ calls \in 0..MaxCalls
    BY DEF Init
  <2>6. QED
    BY <2>1, <2>2, <2>3, <2>4, <2>5 DEF TypeOK
<1>2. TypeOK /\ [Next]_vars => TypeOK'
  <2> SUFFICES ASSUME TypeOK, [Next]_vars PROVE TypeOK'
    OBVIOUS
  <2> USE DEF handler, mapping, device
  <2>1. ASSUME NEW nx \in XVals, NEW ny \in YVals, NEW o \in FrameOrders,
               Press(nx, ny, o)
        PROVE  TypeOK'
    <3>1. Frame(KeyEvents(1), AbsEvents(nx, ny), o) \in Seq(InputEvent)
      BY FrameType
    <3>2. evq' \in Seq(InputEvent)
      BY <2>1, <3>1 DEF Press, TypeOK
    <3>3. frames' \in 0..MaxFrames
      BY <2>1 DEF Press, TypeOK
    <3>4. QED
      BY <2>1, <3>2, <3>3 DEF Press, TypeOK
  <2>2. ASSUME NEW nx \in XVals, NEW ny \in YVals, Drag(nx, ny)
        PROVE  TypeOK'
    <3>1. PICK o \in FrameOrders : TRUE
      OBVIOUS
    <3>2. QED
      BY <2>2, <3>1, FrameType DEF Drag, TypeOK
  <2>3. ASSUME NEW nx \in XVals, NEW ny \in YVals, NEW o \in FrameOrders,
               Lift(nx, ny, o)
        PROVE  TypeOK'
    <3>1. Frame(KeyEvents(0), AbsEvents(nx, ny), o) \in Seq(InputEvent)
      BY FrameType
    <3>2. evq' \in Seq(InputEvent)
      BY <2>3, <3>1 DEF Lift, TypeOK
    <3>3. frames' \in 0..MaxFrames
      BY <2>3 DEF Lift, TypeOK
    <3>4. QED
      BY <2>3, <3>2, <3>3 DEF Lift, TypeOK
  <2>4. ASSUME NEW m \in Mappings, SetScreenResolution(m.sw, m.sh)
        PROVE  TypeOK'
    BY <2>4 DEF SetScreenResolution, TypeOK, Dims
  <2>5. ASSUME NEW m \in Mappings, SetCoordinateMapping(m)
        PROVE  TypeOK'
    BY <2>5 DEF SetCoordinateMapping, TypeOK, Dims, AllMappings
  <2>6. CASE ProcessAbs
    <3>1. Head(evq) \in InputEvent /\ Head(evq).type = "EV_ABS"
      BY <2>6, TailType DEF ProcessAbs, ev
    <3>2. Head(evq).value \in Nat
      BY <3>1 DEF InputEvent
    <3>3. QED
      BY <2>6, <3>2, TailType DEF ProcessAbs, ev, TypeOK
  <2>7. CASE TouchDown
    BY <2>7, TailType, EmitType DEF TouchDown, TypeOK, EventKinds
  <2>8. CASE TouchUpScroll
    BY <2>8, TailType DEF TouchUpScroll, TypeOK
  <2>9. CASE TouchUpTap
    BY <2>9, TailType, EmitType DEF TouchUpTap, TypeOK, EventKinds
  <2>10. CASE TouchUpDrag
    BY <2>10, TailType DEF TouchUpDrag, TypeOK
  <2>11. CASE SynIdle
    BY <2>11, TailType DEF SynIdle, IsSyn, TypeOK
  <2>12. CASE SynScrollStep
    BY <2>12, TailType, EmitType DEF SynScrollStep, IsSyn, TypeOK, EventKinds
  <2>13. CASE SynScrollHold
    BY <2>13, TailType DEF SynScrollHold, IsSyn, TypeOK
  <2>14. CASE SynMove
    BY <2>14, TailType, EmitType DEF SynMove, IsSyn, TypeOK, EventKinds
  <2>15. CASE SynStill
    BY <2>15, TailType DEF SynStill, IsSyn, TypeOK
  <2>16. CASE PollEmpty \/ UNCHANGED vars
    BY <2>16 DEF PollEmpty, vars, TypeOK
  <2>17. QED
    BY <2>1, <2>2, <2>3, <2>4, <2>5, <2>6, <2>7, <2>8, <2>9, <2>10, <2>11,
       <2>12, <2>13, <2>14, <2>15, <2>16
    DEF Next, Device, Configure, ProcessEvent
<1>3. QED
  BY <1>1, <1>2, PTL DEF Spec

-----------------------------------------------------------------------------
(* map_coordinates against its reference definition.                       *)

\* C++ / on non-negative operands is the floor of the quotient.
LEMMA DivBounds ==
  ASSUME NEW a \in Nat, NEW s \in Nat \ {0}
  PROVE  /\ a \div s \in Nat
         /\ (a \div s) * s <= a
         /\ a < (a \div s + 1) * s
BY SMT

\* The condition RefAxis chooses by: k is at most floor(raw * t / s), and
\* above it only when k is the last pixel.
RefCond(k, raw, t, s) ==
  /\ (k = 0 \/ k * s <= raw * t)
  /\ (k = t - 1 \/ (k + 1) * s > raw * t)

\* At most one pixel satisfies the condition.
LEMMA RefUnique ==
  ASSUME NEW raw \in Nat, NEW t \in Nat \ {0}, NEW s \in Nat \ {0},
         NEW k1 \in 0..t - 1, NEW k2 \in 0..t - 1,
         RefCond(k1, raw, t, s), RefCond(k2, raw, t, s)
  PROVE  k1 = k2
<1>1. SUFFICES ASSUME k1 < k2 PROVE FALSE
  BY <1>1 DEF RefCond
<1>2. k2 * s <= raw * t /\ (k1 + 1) * s > raw * t
  BY <1>1 DEF RefCond
<1>3. (k1 + 1) * s <= k2 * s
  BY <1>1, SMT
<1>4. QED
  BY <1>2, <1>3

\* map_coordinates satisfies the condition.
LEMMA MapAxisCond ==
  ASSUME NEW raw \in Nat, NEW t \in Nat \ {0}, NEW s \in Nat \ {0}
  PROVE  RefCond(MapAxis(raw, t, s), raw, t, s)
<1> DEFINE q == (raw * t) \div s
<1>1. q \in Nat /\ q * s <= raw * t /\ raw * t < (q + 1) * s
  BY DivBounds
<1>2. CASE q <= t - 1
  <2>1. MapAxis(raw, t, s) = q
    BY <1>1, <1>2 DEF MapAxis, MaxI, MinI
  <2>2. QED
    BY <1>1, <2>1 DEF RefCond
<1>3. CASE q > t - 1
  <2>1. MapAxis(raw, t, s) = t - 1
    BY <1>1, <1>3 DEF MapAxis, MaxI, MinI
  <2>2. (t - 1) * s <= q * s
    BY <1>1, <1>3, SMT
  <2>3. QED
    BY <1>1, <2>1, <2>2 DEF RefCond
<1>4. QED
  BY <1>2, <1>3

\* map_coordinates computes exactly the reference pixel.
LEMMA MapAxisIsRef ==
  ASSUME NEW raw \in Nat, NEW t \in Nat \ {0}, NEW s \in Nat \ {0}
  PROVE  MapAxis(raw, t, s) = RefAxis(raw, t, s)
<1>1. MapAxis(raw, t, s) \in 0..t - 1 /\ RefCond(MapAxis(raw, t, s), raw, t, s)
  BY MapAxisRange, MapAxisCond
<1>2. RefAxis(raw, t, s) \in 0..t - 1 /\ RefCond(RefAxis(raw, t, s), raw, t, s)
  BY <1>1 DEF RefAxis, RefCond
<1>3. QED
  BY <1>1, <1>2, RefUnique

\* MapMatchesReference: for every raw position the device can report and
\* every mapping the main thread can install, map_coordinates returns the
\* pixel of its reference definition (no off-by-one at either edge).
THEOREM MapCorrect == Spec => []MapMatchesReference
<1>1. TypeOK => MapMatchesReference
  <2> SUFFICES ASSUME TypeOK PROVE MapMatchesReference
    OBVIOUS
  <2>1. PICK m \in AllMappings : target_width = m.tw /\ target_height = m.th
    BY DEF TypeOK
  <2>2. m \in Dims
    BY AllMappingsDims
  <2>3. QED
    BY <2>1, <2>2, MapAxisIsRef DEF TypeOK, Dims, MapMatchesReference, MapX, MapY
<1>2. QED
  BY <1>1, TypeCorrect, PTL

=============================================================================
