# TLA+ verification of the RPiPlay touch-control path

This directory holds TLA+ models of the RPiPlay touch-control extension. The
models are checked with TLC. Type correctness of the gesture recogniser and of
the ESP32 sketch, the bound on how long the sketch stops reading commands, the
link properties, the recogniser's agreement with the device once its queue is
drained, and its refinement of the gesture contract (for one key code per
contact) are proved with TLAPS.

## The system

In this fork, a touchscreen on the Raspberry Pi controls the iPhone whose screen
RPiPlay mirrors. Four parts interact:

| Part | Source | Role |
|---|---|---|
| TouchHandler | `src/lib/touch_handler.cpp`, header in `src/unnamed/part_007` | An event thread (`event_loop`) reads `struct input_event` from the evdev device without blocking. It sleeps 10 ms when nothing is queued. Each event goes to `process_event`, a gesture recogniser with the members `current_x_/_y_`, `last_x_/_y_`, `touch_active_`, `scroll_mode_` and `scroll_start_y_`. The recogniser turns events into `TouchEvent`s (TOUCH_DOWN, TOUCH_MOVE, TOUCH_UP, SCROLL_UP, SCROLL_DOWN). `map_coordinates` maps each event's position to the iPhone's screen before the registered callback receives it. The main thread may call `set_screen_resolution` and `set_coordinate_mapping` at any time. |
| rpiplay glue | not in `src/` (spec section 4.2) | Turns TouchEvents into ESP32 commands. |
| ESP32Comm | C++ written out by `src/fix_all_issues.sh` (lines 197-463) | Formats the commands (`MOVE,x,y`, `CLICK,x,y`, `SCROLL,dir,amt`, `RESET`) and writes each as one line to the serial port. There is no flow control and no acknowledgement. |
| ESP32 firmware | `src/esp/main.ino` (GOTO dialect), `src/unnamed/part_010` (MOVE dialect) | `loop()` reads a line with `readStringUntil('\n')` and `handleCommand` runs it. Movement is by dead reckoning: `home()` pushes the pointer into the top-left corner, then `moveTo` loops `move()`, relative jumps of at most 50 px, 50 ms apart, until within 2 px or 10 s have passed. While it loops, nothing reads the serial port. |

The rest of `src/` is not modelled:
- the GStreamer renderer (`part_009`);
- the install, setup, test and debug shell scripts;
- the markdown documents.

These are configuration and I/O with no state machine to check.

## Modules

### `TouchHandler.tla`: the gesture recogniser, with the device as its environment

The model's variables correspond to the code as follows:

- **Handler state.** The variables keep the member names without the trailing `_`. The mapping variables are `screen_width`, `screen_height`, `target_width` and `target_height`.
- **`gesture`.** The callback's view: the TouchEvents since the last TOUCH_DOWN. Each event keeps the raw position it was mapped from (`rx`, `ry`) so that the properties can refer to it.
- **`evq`.** The kernel's evdev queue.
- **Device variables.** `finger`, `pos_x`, `pos_y` and `frames`, plus the ghosts `press_x`, `press_y` and `moved` that the properties use.

The actions are:

- **Device: `Press`, `Drag`, `Lift`.** Each appends one whole frame to `evq`:
  - EV_KEY for each code in `ButtonCodes`;
  - EV_ABS for each coordinate that changed (the kernel filters out unchanged values);
  - SYN_REPORT at the end.

  The key events come before or after the ABS events according to the frame order: `KeyFirst` or `AbsFirst`.
- **Main thread: `SetScreenResolution`, `SetCoordinateMapping`.**
- **Event thread:** one action per branch of `process_event`:
  - `ProcessAbs`;
  - `TouchDown`;
  - `TouchUpScroll`, `TouchUpTap` and `TouchUpDrag` for the three outcomes of a release;
  - `SynIdle`, `SynScrollStep`, `SynScrollHold`, `SynMove` and `SynStill` for SYN_REPORT.

  Each action consumes the head of `evq` and includes the `map_coordinates` and callback calls of its branch. `PollEmpty` is the read returning -1.
- **Mapping helpers.** `MapAxis` is `map_coordinates` for one axis: C++ integer division on non-negative values, then a clamp to `[0, target-1]`.

`PROJECT.json` ("map") gives the lines of code that each definition translates.

### `GestureStream.tla`: the contract the callback sees

This is an abstract state machine with two variables:
- `phase`: Idle, Pressed or Scrolling;
- `kinds`: the kinds of the events since the last TOUCH_DOWN.

A contact starts with TOUCH_DOWN and continues with TOUCH_MOVEs until it latches into a scroll. From then on it produces only scroll steps. It ends with at most one TOUCH_UP, which never follows a scroll.

TouchHandler implements this contract under the refinement mapping `GS` in `TouchHandler.tla`:
- `phase` is derived from `touch_active` and `scroll_mode`;
- `kinds` is the sequence of types in `gesture`.

### `ESP32Firmware.tla`: the sketch `src/esp/main.ino`

The model's state corresponds to the code as follows:

- **BLEMouseTo members.** `currentX`, `currentY`, `targetX`, `targetY`, `screenWidth`, `screenHeight`, `isHomed`, and `correctionFactor`, which is kept in hundredths.
- **Where the sketch is.** `pc` is one of:
  - `loop`;
  - `home`, with its loop counter `homeStep` and the caller `homeCaller`;
  - `move` or `send`, the two halves of one `move()` call inside `moveTo`'s while loop;
  - `after`, what the caller does once `moveTo` returns (`after` holds the click or the wheel).

  `elapsed` is the time `moveTo`'s `millis()` test sees: the sum of the `delay()`s since `startTime`.
- **Command lines.** A line is a record of its verb and the `toInt()` of each field after the first comma. That is all `handleCommand` looks at. `FACTOR`'s `toFloat()` is kept in hundredths.
- **Environment.**
  - `connected`: the BLE link, which drops and returns up to `MaxToggles` times.
  - `ptr`: the phone's pointer. It moves by each delivered HID report and stops at the screen edges. A report sent while the link is down is lost.
  - `rx` and `written`: the serial client.
  - `hid`: every click or wheel report the phone received, with where the pointer was and the target `moveTo` was given.

The actions are:

- **`ReadCommand`** is `loop()` reading a line, together with the whole `handleCommand` branch it takes (`Handle`), including the `setTarget`, the first `home()` step of `moveTo` and the setters. `PollIdle` is `loop()` with nothing to read.
- **`moveTo`:**
  - `MoveIter` is `move()` up to `bleMouse.move`, with its five exits: not connected, not homed (starts `home()`), reached, a zero step, or a step to send.
  - `MoveSend` sends the step and updates `currentX`/`currentY`.
  - `Continue` is the timeout test and the `delay(50)`.
- **`home()`:** `HomeStep` is one `move(-127,-127)` plus `delay(50)`. `HomeDone` sets the position to (0,0) and `isHomed`.
- **`AfterMove`:** the click or wheel of `clickAt`, `scrollAt` and `HSCROLL`, each sent only if connected.

The constants `MAX_JUMP`, `HID_LIMIT`, `REACHED`, `TIMEOUT` and `HOME_MOVES` are the literals of the code.

### `ControlLink.tla`: host and sketch through the serial port

This module composes `ESP32Firmware` (by `INSTANCE`) with the host.

- **Host.**
  - `Open` is `ESP32Comm::init`, which sends STATUS.
  - `Send(i)` writes one gesture intent in the dialect the constant `Dialect` names:
    - `ESP32CommLine`, the `send_*` methods of `fix_all_issues.sh`;
    - or `CommandChannelLine`, the protocol of spec section 4.2. This is not in `src/` and is modelled from the spec.

    `send_command` refuses while the port is closed.
- **RX buffer.** The buffer holds `RxCap` lines. A line that does not fit is lost, but the line that reaches the limit may leave a cut prefix `cut` with no newline. `Cuts` lists where it may be cut: inside the verb, or inside a field, where `toInt` of a cut number is its leading digits.
- **Sketch.**
  - `ReadLine` is `ReadCommand` on a whole line.
  - `ReadTimeout` is `readStringUntil` giving up on a cut line and returning it.
  - A line arriving after a cut is glued to it (`Merge`).
- **Ghost variables.** `asked` is where the host asked for clicks, after `setTarget`'s clamp. `heard` is the lines `handleCommand` was given.

The BLE link is up from the start: the link's faults are the firmware runs' subject.

### `MC_TouchHandler.tla`: the instances TLC checks

| Constant | Values |
|---|---|
| Raw x | {0, 10, 800} |
| Raw y | {0, 10, 480} |

- 800 and 480 are the edges of the default 800x480 screen, so the clamp is exercised.
- A step from 0 to 10 is a move greater than 5 px but within the tap limit.
- A step from 10 to 480 exceeds the 50 px scroll threshold with a small dx, so a scroll starts.
- 800 versus 0/10 is a large dx.

The button codes, frame orders and mappings are given per cfg.

## Runs

| Run | cfg | Checks | Shows |
|---|---|---|---|
| core | `MC_TouchHandler.cfg` | TypeOK, MapMatchesReference, DrainedInSync, GestureRefinement, EventuallyIdle | 224,601 states in about 90 s. Up to 4 frames, in both orders, with a second frame allowed to queue before the first is read. Every action except the configuration calls fires. |
| remap | `MC_Remap.cfg` | TypeOK, MapMatchesReference, TapIsClick | 431,317 states in about 80 s. The frames put the ABS events before the button (the order `tap_keyfirst` contrasts with). The mapping changes once at any point, mid-contact included: to a portrait 480x800 to 375x667 mapping, or only the resolution. Every tap is still exactly Down then Up at the touched point. |
| tap_keyfirst | `MC_TapKeyFirst.cfg` | TapIsClick (violation) | With BTN_TOUCH first, the Down is mapped at the previous contact's position. A tap then becomes Down+Move, or a scroll with no click. |
| drag_click | `MC_DragClick.cfg` | ClickOnlyNearPress (violation) | A drag that comes to rest and is released produces a click far from the press. The code compares the release with the last move (limit 20); the spec compares it with the press (limit 50). |
| two_buttons | `MC_TwoButtons.cfg` | GestureRefinement (violation) | A device that reports both BTN_TOUCH and BTN_LEFT gets two Downs and two clicks per tap. |
| firmware_live | `MC_FirmwareLive.cfg` | TypeOK, MoveToBounded, MoveToTerminates | With FACTOR 0 and 2.0, CALIBRATE, SCREEN, all scroll verbs and STATUS and a GOTO missing its y, and the link toggling 3 times (819,762 states, about 75 s), `moveTo` returns to `loop()` after at most 11.05 s of delays. The extra 1 s is a `home()` it may run after a late connect. |
| firmware_drop | `MC_ESP32Drop.cfg` | HidOnTarget (violation) | The link drops during `home()`: its moves are lost, yet the position is set to (0,0). After reconnection CLICK,195,422 clicks at (195,595). |
| firmware_factor | `MC_ESP32Factor.cfg` | HidOnTarget (violation) | After FACTOR,2.0 every step overshoots. `moveTo` times out and `clickAt` clicks at (190,444) anyway. |
| link | `MC_Link.cfg` | CommandsUnderstood, ClickOnlyWhereRequested, PointerTracked, HidOnTarget | The spec's dialect: clicks (one off the screen), a move, a scroll and HOME. Up to 4 lines through an RX buffer of 5, on a BLE link that comes up once (30,716 states). Every line is understood. Dead reckoning tracks the pointer exactly once homed, whatever arrives while `moveTo` runs. Clicks and wheels land within 2 px of their clamped targets, and clicks happen only where asked. |
| link_dialect | `MC_LinkDialect.cfg` | CommandsUnderstood (violation) | ESP32Comm's `MOVE`, `RESET` and `SCROLL,dir,amt` are not commands of `main.ino`: moves and home are ignored, and scrolls are dropped as malformed. |
| link_overflow | `MC_LinkOverflow.cfg` | ClickOnlyWhereRequested (violation) | With an RX buffer of 2 lines, a cut `CLICK,` glued to the next `GOTO,60,40` clicks at (0,60), where no click was asked. |
| link_drain | `MC_LinkDrain.cfg` | LinkDrains | Under the same overflow, every line, cut or glued, is eventually read (71,276 states). The timeout of `readStringUntil` is what makes this hold. |

What the properties say:

- **MapMatchesReference:** `map_coordinates` agrees with a declarative definition: the `k` in `0..target-1` with `k*screen <= raw*target < (k+1)*screen`, with a clamp at the edges.
- **DrainedInSync:** once the queue is drained, `touch_active_` and the current position agree with the finger.
- **GestureRefinement:** the refinement of GestureStream.
- **EventuallyIdle:** a lifted finger ends the contact.
- **TapIsClick** and **ClickOnlyNearPress:** spec sections 8 and 4.1.
- **PointerTracked:** once homed, and outside `home()`, `currentX`/`currentY` equal the phone's pointer. This is what dead reckoning assumes and what no log shows.
- **HidOnTarget:** every click and wheel report lands within `REACHED` of the target `moveTo` was given. This is the sketch's promise to its client ("CLICK,x,y - Click at coordinates").
- **MoveToBounded, MoveToTerminates:** `moveTo` blocks `loop()`, and the serial port, for at most `TIMEOUT + 50 + 50*HOME_MOVES` ms, and always returns.
- **CommandsUnderstood:** every line the host writes is a command `handleCommand` accepts with its fields (spec section 9: the dialect must match the firmware).
- **ClickOnlyWhereRequested:** the phone is clicked only at positions the host sent a click for.
- **LinkDrains:** the RX buffer is eventually empty for good, so the sketch is never stuck on a partial line.

Each property of a passing run has a mutant in `PROJECT.json`: a plausible bug in a mapped definition that the property detects under the run's own cfg.

**Fairness.** `Spec` assumes `WF_vars(ProcessEvent)`. Justification: `event_loop` loops while `running_`, reads whenever data is queued, and never blocks. The device, the main thread and the finger are not assumed fair, so the user may stop touching at any time. `CHECK_DEADLOCK` stays on: `PollEmpty` is always enabled when the queue is empty, as the real thread keeps polling.

**Firmware and link fairness.** `ESP32Firmware` assumes `WF_vars(Firmware)`: `loop()` runs forever, and each step of `moveTo`/`home()` is straight-line code ending in `delay()`. `ControlLink` assumes weak fairness of the sketch's steps only. The host, the BLE link and the serial client are not assumed fair.

**Firmware bounds.**
- The phone is 390x844 and the pointer starts at (100,300), so homing and 50 px steps both matter.
- Targets include an off-screen (500,900) to exercise the clamp.
- `MaxLines` 2, and 4 host lines in `link`, allow a command to arrive while `moveTo` runs. They also allow a click, HOME and a click again, which is what a missing reset in `home()` needs.
- `MaxToggles` 3 lets the link drop and return during a move and again before the next. In firmware_live the setters interleave with it.

**Bounds.**
- `MaxFrames` = 4 allows press, drag, lift and press again. This is the shortest sequence that exhibits stale anchors from an earlier contact.
- `MaxPending` = 1 lets a new frame arrive while a frame is still being read.
- `MaxCalls` bounds the configuration calls.

## Proofs

`TouchHandler_proofs.tla` proves `THEOREM TypeCorrect == Spec => []TypeOK` for every value of the constants that satisfies `ConstantsAssumption`:
- coordinates are natural numbers;
- key codes are BTN_TOUCH or BTN_LEFT;
- every mapping has positive dimensions.

TypeOK is inductive as stated. The argument rests on a few lemmas:

- **`MapAxisRange`:** the clamp keeps `MapAxis` in `0..t-1` for a positive screen size.
- **`EmitType`:** together with `MapAxisRange`, every emitted TouchEvent lies on the target screen of some installed mapping, so `gesture` stays a sequence of TouchEvents.
- **`AbsEventsType`, `FrameType`:** the frames the device appends are sequences of input events.
- **`TailType`:** reading the head of the queue leaves a queue of input events.

The proof has one step per action, and the final step combines the steps with PTL.

`ESP32Firmware_proofs.tla` proves two theorems for every phone size, start position and set of lines that satisfy `FirmwareAssumption`:

- **`TypeCorrect == Spec => []TypeOK`.** The lemmas behind it:
  - `ConstrainRange` and `PointerRange`: the clamp and the phone's edges keep the pointer on the screen.
  - `AxisStepType`: a step is within the HID limit.
  - `StartMoveToType`, `HandleType` and `MoveIterType`: one per disjunct of `handleCommand` and `move()`.
  - `TypeStep`: one case per action.
- **`MoveToBoundedInv == Spec => []MoveToBounded`.** `MoveToBounded` alone is not inductive: a state with `elapsed` just under the bound in `home()` with 19 moves still to make satisfies it, but the next step breaks it. The strengthening `ClockInv` adds `TypeOK` and `ClockFacts`:
  - in `move`/`send`, `elapsed <= TIMEOUT + 50`, because `Continue` only loops while `elapsed <= TIMEOUT`;
  - in `home()` called from `moveTo`, `elapsed <= TIMEOUT + 50 + 50*homeStep`.

  `ContinueClock` and `HandleClock` show each step keeps these, and `ClockStep` combines them.

`TouchHandler_proofs.tla` also proves **`MapCorrect == Spec => []MapMatchesReference`**. The code's clamp of `raw * t / r` (integer division) gives the same screen coordinate as the reference definition in every reachable state. It rests on two lemmas:
- `DivBounds`: the quotient and remainder bounds of `\div`;
- `RefUnique`: the reference coordinate is the only one whose scaled interval holds the raw position.

`ControlLink_proofs.tla` proves three theorems about host and sketch together, for every value of the constants satisfying `LinkAssumption`. `LinkAssumption` covers:
- positive phone sizes `PhoneW`, `PhoneH`;
- start positions `StartPtrs` on the phone;
- the dialect, the intent set, `MaxIntents` and `RxCap`.

The theorems also assume `PhoneFits`: the phone contains the 390x844 screen that `setup()` installs. Every run uses a 390x844 phone, so it holds there.
- **`LinkInvariant == Spec => []LinkInv`.** `LinkInv` is the inductive invariant. Its conjuncts are:
  - a type invariant;
  - `LinkUp`: while the USB link is up, the sketch's pointer equals the phone's;
  - `HomeProgress`: in `home()` the pointer has made `homeStep` moves of -127 towards the corner. 20 x 127 = 2540 px exceed every on-phone coordinate, which is why `PhoneFits` and the corner are needed.
  - `Tracked`, `Sending` and `Arrived`: the pointer stays inside the screen, so `constrain` never clamps it, and the sketch's target is the one the reports use.
  - `Clock`: the potential `5*elapsed + Pot(Dist) <= 11508`, where `Dist` is the distance still to cover. Each `move` step of `Cap(delta)` lowers `Pot` by more than the 5 x 70 ms the step costs (`PotStep`). So `elapsed` stays below 2227 ms and the 10 s timeout of `moveTo` never fires while the link is up.

  `LinkStep` has one case per action, and one lemma per firmware step (`MoveSendInv`, `HomeDoneInv`, ...).
- **`PointerTrackedInv`, `HidOnTargetInv`** follow from `LinkInv`. They state that the pointer the sketch believes in is the real one, and that every click or wheel report is sent on moveTo's target.

`ControlLinkHost_proofs.tla` strengthens `LinkInv` by `HostRest` into `HostInv`. `HostRest` says:
- no line is cut, and the RX buffer holds at most the lines written;
- every line in `rx` and `heard` is one the host formats (`HostSent`);
- every queued or pending CLICK target, after `constrain`, is in `asked`.

The hypothesis `NoOverflow` (`RxCap > MaxIntents`) is what makes `Whole` inductive. `ArriveWhole` shows that a line then arrives whole. The `link_overflow` run (RxCap 2) shows that without it a cut line turns into a click nobody asked for. From `HostInv`:
- **`ClickOnlyInv`** proves `ClickOnlyWhereRequested` under `PhoneFits` and `NoOverflow`.
- **`CommandsUnderstoodInv`** proves `CommandsUnderstood` under `PhoneFits`, `NoOverflow` and `Dialect = "CommandChannel"`. `HostSentRecognised` shows the sketch recognises every line of that dialect. The `link_dialect` run shows that ESP32Comm's MOVE lines are not recognised.

`TouchHandlerSync_proofs.tla` proves **`DrainedInSyncInv == Spec => []DrainedInSync`** for every value of the constants. DrainedInSync is not inductive: it says nothing while events are queued, and a Press frame read half-way leaves `touch_active_` and `finger` apart. The strengthening is `InSync`, stated per channel (the touch keys, ABS_X, ABS_Y):
- `Dev` is the device's value on each channel (`finger`, `pos_x`, `pos_y`) and `Held` the handler's (`touch_active_`, `current_x_`, `current_y_`);
- if the queue holds an event on the channel, the last such event carries `Dev`;
- otherwise `Held` already equals `Dev`.

With an empty queue the second case gives DrainedInSync. `InSync` needs no count or fold over the queue. The lemmas behind it:
- `HasTail`, `LastOnTail` and `SyncTail`: reading the head keeps the property, with the head's value moved into `Held` (`ReadSync`).
- `SyncConcat` and `ChannelConcat`: appending a frame whose events on a channel all carry the new device value keeps it (`AppendSync`).
- `KeyChannels`, `AbsChannels` and `FrameChannels`: what each frame holds on each channel. Only a changed coordinate is reported, and an unchanged one needs no event because `Dev` did not change.
- `KeyRead`, `KeySync`, `AbsSync` and `SynSync`: one per group of branches of `process_event`. `StepSync` is one case per action.
`SyncInvariant == Spec => []SyncInv` states the strengthened invariant itself.

`TouchHandlerRefinement_proofs.tla` proves **`GestureRefinementThm`**: under the hypothesis `OneButton` (`Len(ButtonCodes) = 1`), `Spec => GestureRefinement`, for every coordinate set, frame order and mapping. The refinement mapping is the `GS` instance of `TouchHandler`:
- the phase is Idle, Pressed or Scrolling as `touch_active_` and `scroll_mode_` say;
- the kinds are the types of the gesture's TouchEvents.

The step mapping (`RefStep`):

| TouchHandler step | GestureStream step |
|---|---|
| TouchDown | Press |
| SynMove | Drag |
| SynScrollHold, when not yet scrolling | Latch |
| SynScrollStep | Scroll |
| TouchUpTap | Click |
| TouchUpDrag, TouchUpScroll | Lift |
| every other step | a stutter |

Press needs TOUCH_DOWN to find the handler idle, and Lift and Click need a touch-up to find it active. Neither is a guard of the code. They hold because of `KeysAlternate`: the touch keys in the queue alternate, and the first is the opposite of `touch_active_`. The device reports a press only with the finger up and a lift only with it down. With one key code a frame holds one key (`FrameOneKey`). Together with `InSync`, that key's value differs from the last key queued (`AppendAlt`). Reading the head keeps the alternation (`ReadAlt`, `NextKeyTail`, `FirstKeyTail`). `ScrollActive` (`scroll_mode_` implies `touch_active_`) makes a TouchUpScroll a Lift from Scrolling. The hypothesis is needed: with BTN_TOUCH and BTN_LEFT a frame has two equal keys, and the `two_buttons` run finds a second TOUCH_DOWN on an active contact.

**Only model-checked.** The following rest on TLC alone, either because TLAPS cannot prove them or because no proof has been written:
- the liveness properties EventuallyIdle, MoveToTerminates and LinkDrains, which need fairness and ENABLED;
- TapIsClick and ClickOnlyNearPress. Both relate an emitted TouchEvent to where the contact began. A proof would need an invariant that ties the queued ABS events to the order of a frame and to `last_x_`/`last_y_`. That proof is not done;
- GestureRefinement on devices with two key codes, where it fails (`two_buttons`);
- PointerTracked and HidOnTarget in `ESP32Firmware` alone, where the link may drop and come back;
- the ControlLink properties on phones smaller than the setup screen, and with an RX buffer that can cut lines (checked only by the runs).

## Not yet modelled (planned)

1. **Lifecycle module.**
   - `init`/`close`/`start`/`stop` and the `running_` flag.
   - The unsynchronised `set_touch_callback` and mapping writes, split into field-by-field steps.
   - Evdev overflow with a lost release (SYN_DROPPED, which `process_event` ignores).
2. **The MOVE-dialect sketch `part_010`.** ESP32Comm's dialect is checked against `main.ino`, the sketch under `src/esp`.
3. **ESP32Comm details.** `close`, `send_calibrate`, `set_iphone_resolution` and the termios set-up. `write_to_serial` is modelled as writing a whole line, or failing as a whole.
4. **The coupling of TouchHandler to the command channel.** In ControlLink the host writes any intent of a small set, not the TouchEvents of a gesture.
5. **Unused sketch code.** `quickMoveTo`, `setMaxJumpDistance` and `rehome` are never called.
6. **Further theorems.**
   - TapIsClick for frames that report the ABS events first.
   - PointerTracked and HidOnTarget for the firmware alone, across a link that drops.
