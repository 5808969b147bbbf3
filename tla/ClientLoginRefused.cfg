\* The server may refuse a login.
SPECIFICATION ClientSpec
CONSTANTS
  MaxRequests = 2
  MaxPushes = 2
  RecvSize = 3
  Refusable = {"login"}
  MayClose = TRUE
PROPERTY MenuComesBack
\* The program may end.
CHECK_DEADLOCK FALSE
