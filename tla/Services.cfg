SPECIFICATION ServicesSpec
CONSTANTS
  Order = {o1}
  Product = {p1}
  Txn = {t1}
  Handler = {h1}
  Ipn = {ipn}
  Return = {ret}
  TotalUsd = 5
  DepositUsd = 1
  MayRollback = FALSE
  MaxCrash = 1
  NoOrder = NoOrder
  NoTxn = NoTxn
  InitStock <- MCStock
  Basket <- MCOneUnit
  Messages = {m1, m2, m3}
  MAX_ATTEMPTS = 3
  MaxRestarts = 1
  Unset = Unset
  Tickets = {k1, k2}
  NoTicket = NoTicket
  w1 = w1
  w2 = w2
  Watches = {w1, w2}
  WatchTopic <- MCWatchTopic
  WatchThreshold <- MCWatchThreshold
  MaxLevel = 2
  Rounds = {"loop", "post"}
  MaxBackoff = 6
  StaleAfter = 3
INVARIANTS
  ServicesTypeOK
  NotifyKept
  DelegationRenewed
  AlertedOnce
PROPERTIES
  PendingEnds ChargedIsSettled
  NotifyEnds
  SwitchedOffHoldsNone
  SignOutEndsDelegation
  
  WatchAnswered
  
CHECK_DEADLOCK FALSE
