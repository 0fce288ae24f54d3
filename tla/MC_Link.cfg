\* The spec's dialect, an RX buffer that never fills and a BLE link that
\* comes up once: clicks (one off the screen), a move, a scroll and HOME.
CONSTANTS
  PhoneW = 390
  PhoneH = 844
  StartPtrs <- MC_Start
  Dialect = "CommandChannel"
  Intents <- MC_Intents
  MaxIntents = 4
  RxCap = 5
SPECIFICATION Spec
INVARIANTS CommandsUnderstood ClickOnlyWhereRequested PointerTracked HidOnTarget
