\* Everything may be refused, and the server may close.
SPECIFICATION ClientSpec
CONSTANTS
  MaxRequests = 6
  MaxPushes = 2
  RecvSize = 3
  Refusable = {"reg", "login"}
  MayClose = TRUE
INVARIANTS ClientTypeOK NoStalePost SessionsAgree AbortsExplained
PROPERTY AnswerWakes
\* The program may end.
CHECK_DEADLOCK FALSE
