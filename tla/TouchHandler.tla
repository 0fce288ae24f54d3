---------------------------- MODULE TouchHandler ----------------------------
(***************************************************************************)
(* TouchHandler of src/lib/touch_handler.cpp: the gesture state machine    *)
(* that TouchHandler::process_event runs on every input_event the          *)
(* event_loop thread reads from the evdev device, and map_coordinates.     *)
(*                                                                         *)
(* The touch device is modelled as the environment: a finger pressed,      *)
(* dragged and lifted over a few raw positions, each change reported by    *)
(* the driver as one frame (EV_KEY for the button, EV_ABS for a changed    *)
(* coordinate, closed by EV_SYN/SYN_REPORT) appended whole to the evdev    *)
(* queue evq, which the event_loop thread drains one event at a time.      *)
(* Variables keep the names of the C++ members without the trailing _.    *)
(***************************************************************************)
EXTENDS Integers, Sequences

CONSTANTS
  XVals,        \* raw ABS_X values the finger may be reported at
  YVals,        \* raw ABS_Y values the finger may be reported at
  ButtonCodes,  \* the key codes the driver reports for a contact, in order
  FrameOrders,  \* "KeyFirst": the driver reports the key before ABS_X/ABS_Y
  Mappings,     \* the arguments set_coordinate_mapping may be called with
  MaxFrames,    \* bound on the frames the device reports
  MaxPending,   \* the device reports a frame only while at most this many
                \* events are unread (evdev overflow is not modelled here)
  MaxCalls      \* bound on the configuration calls of the main thread

Dims == [sw : Nat \ {0}, sh : Nat \ {0}, tw : Nat \ {0}, th : Nat \ {0}]

ASSUME ConstantsAssumption ==
  /\ XVals \subseteq Nat /\ 0 \in XVals
  /\ YVals \subseteq Nat /\ 0 \in YVals
  /\ ButtonCodes \in Seq({"BTN_TOUCH", "BTN_LEFT"}) /\ ButtonCodes # <<>>
  /\ FrameOrders \subseteq {"KeyFirst", "AbsFirst"} /\ FrameOrders # {}
  /\ Mappings \subseteq Dims
  /\ MaxFrames \in Nat
  /\ MaxPending \in Nat
  /\ MaxCalls \in Nat

-----------------------------------------------------------------------------
(* The constants of the code.                                              *)

\* TouchHandler::SCROLL_THRESHOLD (touch_handler.h).
SCROLL_THRESHOLD == 50
\* The tap limit of the touch-up branch (dx < 20 && dy < 20).
TAP_LIMIT == 20
\* The movement limit of the SYN_REPORT branch (abs(dx) > 5 || abs(dy) > 5).
MOVE_LIMIT == 5

\* The mapping the constructor installs: 800x480 -> 390x844.
DefaultMapping == [sw |-> 800, sh |-> 480, tw |-> 390, th |-> 844]

EventKinds == {"TOUCH_DOWN", "TOUCH_UP", "TOUCH_MOVE", "SCROLL_UP", "SCROLL_DOWN"}

\* A struct input_event, reduced to type, code and value.
InputEvent == [type : {"EV_ABS"}, code : {"ABS_X", "ABS_Y"}, value : Nat]
              \cup [type : {"EV_KEY"}, code : {"BTN_TOUCH", "BTN_LEFT"}, value : {0, 1}]
              \cup [type : {"EV_SYN"}, code : {"SYN_REPORT"}, value : {0}]

AllMappings == Mappings \cup {DefaultMapping}

\* A TouchEvent handed to the callback, x and y on some target screen,
\* with the raw coordinates it was mapped from (rx, ry) kept for the
\* properties.
TouchEvent == [type : EventKinds,
               x : UNION {0..m.tw - 1 : m \in AllMappings},
               y : UNION {0..m.th - 1 : m \in AllMappings},
               rx : Nat, ry : Nat]

VARIABLES
  \* TouchHandler members
  current_x, current_y,       \* last ABS_X / ABS_Y value read
  last_x, last_y,             \* position at touch-down or at the last TOUCH_MOVE
  touch_active,
  scroll_mode,
  scroll_start_y,
  screen_width, screen_height, target_width, target_height,
  \* the callback's view: the TouchEvents since the last TOUCH_DOWN
  gesture,
  \* the device and the kernel's evdev queue
  finger, pos_x, pos_y,       \* the finger is down, and where it is
  evq,                        \* events reported and not yet read
  frames,                     \* frames reported so far
  press_x, press_y, moved,    \* where the last contact began, and if it moved
  calls                       \* configuration calls made so far

handler == <<current_x, current_y, last_x, last_y, touch_active, scroll_mode,
             scroll_start_y>>
mapping == <<screen_width, screen_height, target_width, target_height>>
device == <<finger, pos_x, pos_y, frames, press_x, press_y, moved>>
vars == <<handler, mapping, gesture, device, evq, calls>>

-----------------------------------------------------------------------------
(* map_coordinates: proportional map, then clamp to [0, target - 1].       *)

AbsVal(n) == IF n < 0 THEN -n ELSE n
MaxI(a, b) == IF a >= b THEN a ELSE b
MinI(a, b) == IF a <= b THEN a ELSE b

\* Mutant: the ratio inverted.
MapAxisInverted(raw, target, screen) == MaxI(0, MinI((raw * screen) \div target, target - 1))
\* Mutant: clamped to target instead of target - 1.
MapAxisOffByOne(raw, target, screen) == MaxI(0, MinI((raw * target) \div screen, target))

\* One axis: (raw * target) / screen, clamped (C++ / on non-negatives).
MapAxis(raw, target, screen) == MaxI(0, MinI((raw * target) \div screen, target - 1))

MapX(raw) == MapAxis(raw, target_width, screen_width)
MapY(raw) == MapAxis(raw, target_height, screen_height)

\* The callback receives type at the mapped current position; a TOUCH_DOWN
\* starts a new gesture.
Emit(type) ==
  LET ev == [type |-> type, x |-> MapX(current_x), y |-> MapY(current_y),
             rx |-> current_x, ry |-> current_y]
  IN  gesture' = IF type = "TOUCH_DOWN" THEN <<ev>> ELSE Append(gesture, ev)

-----------------------------------------------------------------------------
(* The device: frames as the driver reports them.                          *)

SynReport == [type |-> "EV_SYN", code |-> "SYN_REPORT", value |-> 0]

KeyEvents(v) == [i \in 1..Len(ButtonCodes) |->
                   [type |-> "EV_KEY", code |-> ButtonCodes[i], value |-> v]]

\* The kernel passes an ABS event only when the value changed.
AbsEvents(nx, ny) ==
  (IF nx # pos_x THEN <<[type |-> "EV_ABS", code |-> "ABS_X", value |-> nx]>> ELSE <<>>)
  \o (IF ny # pos_y THEN <<[type |-> "EV_ABS", code |-> "ABS_Y", value |-> ny]>> ELSE <<>>)

Frame(keys, abs, order) ==
  IF order = "KeyFirst" THEN keys \o abs \o <<SynReport>>
                        ELSE abs \o keys \o <<SynReport>>

\* The finger touches the screen at (nx, ny).
Press(nx, ny, order) ==
  /\ ~finger
  /\ frames < MaxFrames /\ Len(evq) <= MaxPending
  /\ evq' = evq \o Frame(KeyEvents(1), AbsEvents(nx, ny), order)
  /\ finger' = TRUE
  /\ pos_x' = nx /\ pos_y' = ny
  /\ frames' = frames + 1
  /\ press_x' = nx /\ press_y' = ny /\ moved' = FALSE
  /\ UNCHANGED <<handler, mapping, gesture, calls>>

\* The finger moves to (nx, ny).
Drag(nx, ny) ==
  /\ finger
  /\ frames < MaxFrames /\ Len(evq) <= MaxPending
  /\ <<nx, ny>> # <<pos_x, pos_y>>
  /\ evq' = evq \o AbsEvents(nx, ny) \o <<SynReport>>
  /\ pos_x' = nx /\ pos_y' = ny
  /\ frames' = frames + 1
  /\ moved' = TRUE
  /\ UNCHANGED <<handler, mapping, gesture, finger, press_x, press_y, calls>>

\* The finger leaves the screen, last reported at (nx, ny).
Lift(nx, ny, order) ==
  /\ finger
  /\ frames < MaxFrames /\ Len(evq) <= MaxPending
  /\ evq' = evq \o Frame(KeyEvents(0), AbsEvents(nx, ny), order)
  /\ finger' = FALSE
  /\ pos_x' = nx /\ pos_y' = ny
  /\ frames' = frames + 1
  /\ moved' = (moved \/ <<nx, ny>> # <<pos_x, pos_y>>)
  /\ UNCHANGED <<handler, mapping, gesture, press_x, press_y, calls>>

-----------------------------------------------------------------------------
(* The configuration calls of the main thread.                             *)

SetScreenResolution(width, height) ==
  /\ calls < MaxCalls /\ calls' = calls + 1
  /\ screen_width' = width /\ screen_height' = height
  /\ UNCHANGED <<handler, target_width, target_height, gesture, device, evq>>

SetCoordinateMapping(m) ==
  /\ calls < MaxCalls /\ calls' = calls + 1
  /\ screen_width' = m.sw /\ screen_height' = m.sh
  /\ target_width' = m.tw /\ target_height' = m.th
  /\ UNCHANGED <<handler, gesture, device, evq>>

-----------------------------------------------------------------------------
(* process_event, one action per branch, each consuming the event that    *)
(* event_loop read.                                                        *)

ev == Head(evq)

IsTouchKey(e) == e.type = "EV_KEY" /\ e.code \in {"BTN_TOUCH", "BTN_LEFT"}

\* EV_ABS: remember ABS_X / ABS_Y.
ProcessAbs ==
  /\ evq # <<>> /\ ev.type = "EV_ABS"
  /\ current_x' = IF ev.code = "ABS_X" THEN ev.value ELSE current_x
  /\ current_y' = IF ev.code = "ABS_Y" THEN ev.value ELSE current_y
  /\ evq' = Tail(evq)
  /\ UNCHANGED <<last_x, last_y, touch_active, scroll_mode, scroll_start_y,
                 mapping, gesture, device, calls>>

\* Mutant: last_x_/last_y_ not recorded at touch-down.
TouchDownNoAnchor ==
  /\ evq # <<>> /\ IsTouchKey(ev) /\ ev.value = 1
  /\ touch_active' = TRUE
  /\ scroll_mode' = FALSE
  /\ scroll_start_y' = current_y
  /\ Emit("TOUCH_DOWN")
  /\ evq' = Tail(evq)
  /\ UNCHANGED <<current_x, current_y, last_x, last_y, mapping, device, calls>>

\* EV_KEY value 1: touch down.
TouchDown ==
  /\ evq # <<>> /\ IsTouchKey(ev) /\ ev.value = 1
  /\ touch_active' = TRUE
  /\ last_x' = current_x /\ last_y' = current_y
  /\ scroll_mode' = FALSE
  /\ scroll_start_y' = current_y
  /\ Emit("TOUCH_DOWN")
  /\ evq' = Tail(evq)
  /\ UNCHANGED <<current_x, current_y, mapping, device, calls>>

IsTap == AbsVal(current_x - last_x) < TAP_LIMIT /\ AbsVal(current_y - last_y) < TAP_LIMIT

\* Mutant: the scroll branch returns without clearing touch_active_.
TouchUpScrollStaysActive ==
  /\ evq # <<>> /\ IsTouchKey(ev) /\ ev.value = 0
  /\ scroll_mode
  /\ scroll_mode' = FALSE
  /\ evq' = Tail(evq)
  /\ UNCHANGED <<current_x, current_y, last_x, last_y, touch_active,
                 scroll_start_y, mapping, gesture, device, calls>>

\* EV_KEY value 0 with scroll_mode: no TOUCH_UP for a scroll.
TouchUpScroll ==
  /\ evq # <<>> /\ IsTouchKey(ev) /\ ev.value = 0
  /\ scroll_mode
  /\ touch_active' = FALSE /\ scroll_mode' = FALSE
  /\ evq' = Tail(evq)
  /\ UNCHANGED <<current_x, current_y, last_x, last_y, scroll_start_y,
                 mapping, gesture, device, calls>>

\* Mutant: the tap test made before (without) the scroll test.
TouchUpTapAnyMode ==
  /\ evq # <<>> /\ IsTouchKey(ev) /\ ev.value = 0
  /\ IsTap
  /\ touch_active' = FALSE
  /\ Emit("TOUCH_UP")
  /\ evq' = Tail(evq)
  /\ UNCHANGED <<current_x, current_y, last_x, last_y, scroll_mode,
                 scroll_start_y, mapping, device, calls>>

\* Mutant: the click is sent but touch_active_ is not cleared.
TouchUpTapStaysActive ==
  /\ evq # <<>> /\ IsTouchKey(ev) /\ ev.value = 0
  /\ ~scroll_mode /\ IsTap
  /\ Emit("TOUCH_UP")
  /\ evq' = Tail(evq)
  /\ UNCHANGED <<current_x, current_y, last_x, last_y, touch_active, scroll_mode,
                 scroll_start_y, mapping, device, calls>>

\* EV_KEY value 0, no scroll, little movement since last_x/last_y: a click.
TouchUpTap ==
  /\ evq # <<>> /\ IsTouchKey(ev) /\ ev.value = 0
  /\ ~scroll_mode /\ IsTap
  /\ touch_active' = FALSE
  /\ Emit("TOUCH_UP")
  /\ evq' = Tail(evq)
  /\ UNCHANGED <<current_x, current_y, last_x, last_y, scroll_mode,
                 scroll_start_y, mapping, device, calls>>

\* EV_KEY value 0, no scroll, moved since last_x/last_y: nothing sent.
TouchUpDrag ==
  /\ evq # <<>> /\ IsTouchKey(ev) /\ ev.value = 0
  /\ ~scroll_mode /\ ~IsTap
  /\ touch_active' = FALSE
  /\ evq' = Tail(evq)
  /\ UNCHANGED <<current_x, current_y, last_x, last_y, scroll_mode,
                 scroll_start_y, mapping, gesture, device, calls>>

IsSyn == evq # <<>> /\ ev.type = "EV_SYN" /\ ev.code = "SYN_REPORT"

dx == current_x - last_x
dy == current_y - last_y

\* The scroll test of the SYN_REPORT branch.
EntersScroll ==
  ~scroll_mode /\ AbsVal(dy) > SCROLL_THRESHOLD /\ AbsVal(dx) < SCROLL_THRESHOLD \div 2

Scrolling == scroll_mode \/ EntersScroll

scroll_distance == current_y - scroll_start_y

\* SYN_REPORT with no contact.
SynIdle ==
  /\ IsSyn /\ ~touch_active
  /\ evq' = Tail(evq)
  /\ UNCHANGED <<handler, mapping, gesture, device, calls>>

\* SYN_REPORT in scroll mode past the threshold: one scroll step.
SynScrollStep ==
  /\ IsSyn /\ touch_active /\ Scrolling
  /\ AbsVal(scroll_distance) > SCROLL_THRESHOLD
  /\ scroll_mode' = TRUE
  /\ Emit(IF scroll_distance > 0 THEN "SCROLL_DOWN" ELSE "SCROLL_UP")
  /\ scroll_start_y' = current_y
  /\ evq' = Tail(evq)
  /\ UNCHANGED <<current_x, current_y, last_x, last_y, touch_active, mapping, device, calls>>

\* SYN_REPORT in scroll mode within the threshold.
SynScrollHold ==
  /\ IsSyn /\ touch_active /\ Scrolling
  /\ AbsVal(scroll_distance) <= SCROLL_THRESHOLD
  /\ scroll_mode' = TRUE
  /\ evq' = Tail(evq)
  /\ UNCHANGED <<current_x, current_y, last_x, last_y, touch_active,
                 scroll_start_y, mapping, gesture, device, calls>>

\* SYN_REPORT, no scroll, moved more than MOVE_LIMIT: a TOUCH_MOVE.
SynMove ==
  /\ IsSyn /\ touch_active /\ ~Scrolling
  /\ AbsVal(dx) > MOVE_LIMIT \/ AbsVal(dy) > MOVE_LIMIT
  /\ Emit("TOUCH_MOVE")
  /\ last_x' = current_x /\ last_y' = current_y
  /\ evq' = Tail(evq)
  /\ UNCHANGED <<current_x, current_y, touch_active, scroll_mode, scroll_start_y,
                 mapping, device, calls>>

\* SYN_REPORT, no scroll, hardly moved.
SynStill ==
  /\ IsSyn /\ touch_active /\ ~Scrolling
  /\ AbsVal(dx) <= MOVE_LIMIT /\ AbsVal(dy) <= MOVE_LIMIT
  /\ evq' = Tail(evq)
  /\ UNCHANGED <<handler, mapping, gesture, device, calls>>

\* event_loop: read returned -1 (nothing queued), sleep 10 ms.
PollEmpty ==
  /\ evq = <<>>
  /\ UNCHANGED vars

ProcessEvent ==
  \/ ProcessAbs
  \/ TouchDown \/ TouchUpScroll \/ TouchUpTap \/ TouchUpDrag
  \/ SynIdle \/ SynScrollStep \/ SynScrollHold \/ SynMove \/ SynStill

-----------------------------------------------------------------------------

Init ==
  /\ current_x = 0 /\ current_y = 0 /\ last_x = 0 /\ last_y = 0
  /\ touch_active = FALSE /\ scroll_mode = FALSE /\ scroll_start_y = 0
  /\ screen_width = DefaultMapping.sw /\ screen_height = DefaultMapping.sh
  /\ target_width = DefaultMapping.tw /\ target_height = DefaultMapping.th
  /\ gesture = <<>>
  /\ finger = FALSE /\ pos_x = 0 /\ pos_y = 0
  /\ evq = <<>> /\ frames = 0
  /\ press_x = 0 /\ press_y = 0 /\ moved = FALSE
  /\ calls = 0

Device ==
  \/ \E nx \in XVals, ny \in YVals, o \in FrameOrders : Press(nx, ny, o)
  \/ \E nx \in XVals, ny \in YVals : Drag(nx, ny)
  \/ \E nx \in XVals, ny \in YVals, o \in FrameOrders : Lift(nx, ny, o)

Configure ==
  \/ \E m \in Mappings : SetScreenResolution(m.sw, m.sh)
  \/ \E m \in Mappings : SetCoordinateMapping(m)

Next == Device \/ Configure \/ ProcessEvent \/ PollEmpty

\* The event_loop thread loops while running_: a queued event is read.
Spec == Init /\ [][Next]_vars /\ WF_vars(ProcessEvent)

-----------------------------------------------------------------------------
(* Properties.                                                             *)

TypeOK ==
  /\ current_x \in Nat /\ current_y \in Nat /\ last_x \in Nat /\ last_y \in Nat
  /\ touch_active \in BOOLEAN /\ scroll_mode \in BOOLEAN
  /\ scroll_start_y \in Nat
  /\ screen_width \in Nat \ {0} /\ screen_height \in Nat \ {0}
  /\ \E m \in AllMappings : target_width = m.tw /\ target_height = m.th
  /\ gesture \in Seq(TouchEvent)
  /\ finger \in BOOLEAN /\ pos_x \in Nat /\ pos_y \in Nat
  /\ evq \in Seq(InputEvent)
  /\ frames \in 0..MaxFrames
  /\ press_x \in Nat /\ press_y \in Nat /\ moved \in BOOLEAN
  /\ calls \in 0..MaxCalls

\* map_coordinates agrees, on the current raw position and mapping, with
\* its definition: the largest k in 0..target-1 with k * screen <= raw *
\* target (or 0), i.e. floor(raw * target / screen) clamped to the screen.
RefAxis(raw, target, screen) ==
  CHOOSE k \in 0..target - 1 :
    /\ (k = 0 \/ k * screen <= raw * target)
    /\ (k = target - 1 \/ (k + 1) * screen > raw * target)

MapMatchesReference ==
  /\ MapX(current_x) = RefAxis(current_x, target_width, screen_width)
  /\ MapY(current_y) = RefAxis(current_y, target_height, screen_height)

\* Whenever every reported event has been read, the handler agrees with the
\* device: touch_active_ is whether the finger is down and current_x_/_y_
\* is where it is (no contact is left stuck down or up by process_event).
DrainedInSync ==
  evq = <<>> =>
    /\ touch_active = finger
    /\ current_x = pos_x /\ current_y = pos_y

\* The TouchEvents delivered to the callback implement GestureStream: per
\* contact TOUCH_DOWN, TOUCH_MOVEs, then only scroll steps once scroll_mode_
\* is set, and a TOUCH_UP only for a contact that never scrolled.
GS == INSTANCE GestureStream
        WITH phase <- IF ~touch_active THEN "Idle"
                      ELSE IF scroll_mode THEN "Scrolling" ELSE "Pressed",
             kinds <- [i \in DOMAIN gesture |-> gesture[i].type]

GestureRefinement == GS!Spec

\* Once the finger is lifted, the event_loop thread eventually sees the
\* contact end (touch_active_ false) unless the finger touches again.
EventuallyIdle == ~finger ~> (~touch_active \/ finger)

\* Spec section 8: a contact that did not move, once read, gave exactly
\* TOUCH_DOWN then TOUCH_UP, both at the position the finger touched.
TapIsClick ==
  (evq = <<>> /\ ~finger /\ frames > 0 /\ ~moved) =>
    /\ Len(gesture) = 2
    /\ gesture[1].type = "TOUCH_DOWN" /\ gesture[2].type = "TOUCH_UP"
    /\ \A i \in 1..2 : gesture[i].rx = press_x /\ gesture[i].ry = press_y

\* Spec section 4.1 step 2: TOUCH_UP (the click) is sent only when the
\* release is within the tap threshold (50) of the touch-down position.
SPEC_TAP_THRESHOLD == 50

ClickOnlyNearPress ==
  \A i \in DOMAIN gesture :
    gesture[i].type = "TOUCH_UP" =>
      /\ AbsVal(gesture[i].rx - gesture[1].rx) < SPEC_TAP_THRESHOLD
      /\ AbsVal(gesture[i].ry - gesture[1].ry) < SPEC_TAP_THRESHOLD

=============================================================================
