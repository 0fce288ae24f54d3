\* ESP32Comm's dialect talking to src/esp/main.ino.
CONSTANTS
  PhoneW = 390
  PhoneH = 844
  StartPtrs <- MC_Start
  Dialect = "ESP32Comm"
  Intents <- MC_Intents
  MaxIntents = 3
  RxCap = 4
SPECIFICATION Spec
INVARIANT CommandsUnderstood
