SPECIFICATION FairSpec
CONSTANTS
  Handlers = {h1, h2}
  Hooks = {k1}
  Tokens = {1, 2, 3}
  Permits = {1, 2, 3, 4}
  ResetMessages = {r}
  InviteMessages = {i}
  MaxAttempts = 2
  MaxRequests = 3
  MaxFaults = 1
  NoToken = none
  Initial = initial
CHECK_DEADLOCK FALSE
INVARIANTS
  SessionsEnd
  OneTokenPerLogin
PROPERTIES
  ImplementsSingleUse
  AcceptedMessageIsMailed
