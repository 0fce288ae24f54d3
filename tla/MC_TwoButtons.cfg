CONSTANTS
  XVals <- MC_XVals
  YVals <- MC_YVals
  ButtonCodes <- MC_TwoButtons
  FrameOrders <- MC_AbsFirst
  Mappings <- MC_Default
  MaxFrames = 4
  MaxPending = 0
  MaxCalls = 0

SPECIFICATION Spec

PROPERTY GestureRefinement
