\* Mapping changes mid-contact, ABS events before the button in each frame.
CONSTANTS
  XVals <- MC_XVals
  YVals <- MC_YVals
  ButtonCodes <- MC_OneButton
  FrameOrders <- MC_AbsFirst
  Mappings <- MC_Mappings
  MaxFrames = 4
  MaxPending = 0
  MaxCalls = 1

SPECIFICATION Spec

 
 
INVARIANT TapIsClick
