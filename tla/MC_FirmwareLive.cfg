\* The link comes and goes, and the setters (FACTOR 0 and 2.0, CALIBRATE,
\* SCREEN) run between moves: every moveTo still returns to loop().
CONSTANTS
  PhoneW = 390
  PhoneH = 844
  StartPtrs <- MC_Start
  Lines <- MC_Setters
  MaxLines = 2
  MaxToggles = 3
SPECIFICATION Spec
INVARIANTS TypeOK MoveToBounded
PROPERTY MoveToTerminates
