INIT Init
NEXT Next
CONSTANTS
  Windows = {"w1", "w2"}
  MaxReports = 3
CHECK_DEADLOCK FALSE
INVARIANT PictureComplete
