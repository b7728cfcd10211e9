SPECIFICATION Spec
CONSTANTS
  Order = {o1}
  Product = {p1}
  Txn = {t1, t2}
  Handler = {h1}
  Ipn = {ipn}
  Return = {ret}
  TotalUsd = 5
  DepositUsd = 1
  MayRollback = TRUE
  MaxCrash = 0
  NoOrder = NoOrder
  NoTxn = NoTxn
  InitStock <- MCStock
  Basket <- MCOneUnit
INVARIANT SecondMoneyReported
\* Every order may reach a final status with nothing left to do.
CHECK_DEADLOCK FALSE
