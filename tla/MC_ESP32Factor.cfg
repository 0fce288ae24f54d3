\* FACTOR,2.0 is set on a stable link before a click.
CONSTANTS
  PhoneW = 390
  PhoneH = 844
  StartPtrs <- MC_Start
  Lines <- MC_Factor
  MaxLines = 2
  MaxToggles = 1
SPECIFICATION Spec
INVARIANT HidOnTarget
