SPECIFICATION FairSpec
CONSTANTS
  Clients = {c1}
  Broadcasters = {b1, b2}
  Keys = {reload, status}
  NoKey = NoKey
  Cap = 2
  MaxEvents = 4
INVARIANTS
  TypeOK
  OneTokenPerKey
  NoStuckKey
  NewestKept
  NoSendOnClosed
PROPERTIES
  KeyedDelivered
CHECK_DEADLOCK FALSE
