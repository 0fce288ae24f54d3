\* The spec's dialect with an RX buffer that fills: the sketch still reads
\* every line, whole, glued or cut.
CONSTANTS
  PhoneW = 390
  PhoneH = 844
  StartPtrs <- MC_Start
  Dialect = "CommandChannel"
  Intents <- MC_ClickAndMove
  MaxIntents = 4
  RxCap = 2
SPECIFICATION Spec
PROPERTY LinkDrains
