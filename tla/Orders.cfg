SPECIFICATION OrdersSpec
CONSTANTS
  Order = {o1, o2}
  Product = {p1}
  Txn = {t1, t2}
  Handler = {h1, h2}
  Ipn = {ipn}
  Return = {ret}
  TotalUsd = 5
  DepositUsd = 1
  MayRollback = TRUE
  MaxCrash = 1
  NoOrder = NoOrder
  NoTxn = NoTxn
  InitStock <- MCStock
  Basket <- MCBaskets
INVARIANTS TypeOK
  PaidIsBacked  
  LoggedUnlessSettled 
PROPERTIES ImplementsLedger LifecycleOnly
\* Every order may reach a final status with nothing left to do.
CHECK_DEADLOCK FALSE
