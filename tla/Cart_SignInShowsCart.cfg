SPECIFICATION CartSpec
CONSTANTS
  Tabs = {b1, b2}
  Lines = {l1}
  MaxQty = 2
  NotAList = NotAList
INVARIANT
  SignInShowsCart
CHECK_DEADLOCK FALSE
