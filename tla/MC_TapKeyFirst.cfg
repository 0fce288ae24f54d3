CONSTANTS
  XVals <- MC_XVals
  YVals <- MC_YVals
  ButtonCodes <- MC_OneButton
  FrameOrders <- MC_KeyFirst
  Mappings <- MC_Default
  MaxFrames = 4
  MaxPending = 0
  MaxCalls = 0

SPECIFICATION Spec

INVARIANT TapIsClick
