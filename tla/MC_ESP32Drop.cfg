\* The BLE link drops and comes back while moveTo is under way.
CONSTANTS
  PhoneW = 390
  PhoneH = 844
  StartPtrs <- MC_Start
  Lines <- MC_Click
  MaxLines = 2
  MaxToggles = 3
SPECIFICATION Spec
INVARIANT HidOnTarget
