SPECIFICATION Spec
CONSTANTS
  Guest = {}
  User = {u1}
  Cart = {c1}
  Key = {k1, k2}
  Intent = {}
  Slot = {s1}
  Approval = {}
  MaxOrders = 3
  NoOne = NoOne
  NoCart = NoCart
  NoKey = NoKey
  NoIntent = NoIntent
  NoSlot = NoSlot
  Cap = {2}
  Method = {"vnpay"}
  Look <- MCLook
INVARIANT SequentialRetryBlocked
\* The rows run out: every limit is spent and every order is final.
CHECK_DEADLOCK FALSE
