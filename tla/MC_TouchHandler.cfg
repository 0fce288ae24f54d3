CONSTANTS
  XVals <- MC_XVals
  YVals <- MC_YVals
  ButtonCodes <- MC_OneButton
  FrameOrders <- MC_BothOrders
  Mappings <- MC_Default
  MaxFrames = 4
  MaxPending = 1
  MaxCalls = 0

SPECIFICATION Spec

INVARIANT TypeOK
INVARIANT MapMatchesReference
INVARIANT DrainedInSync
PROPERTY GestureRefinement
PROPERTY EventuallyIdle
