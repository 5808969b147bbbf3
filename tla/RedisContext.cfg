SPECIFICATION RedisContextSpec
CONSTANTS
  Callers = {t1, t2}
  Receiver = Receiver
  Users = {u1}
  Msgs = {m1}
  NoCommand = NoCommand
  Confirmation = Confirmation
  MaxCalls = 2
  MaxPushes = 1
INVARIANTS RedisContextTypeOK NothingLeft HandlerBeforeMessage
PROPERTIES ImplementsBroker CallsReturn
\* The calls are bounded, and the process may die.
CHECK_DEADLOCK FALSE
