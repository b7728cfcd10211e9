------------------------------ MODULE MCOrderRuns ------------------------------
(***************************************************************************)
(* Two instances of OrderLifecycle in one run: two orders compete for the  *)
(* stock of a product, with a crash but without VNPay; and one order of    *)
(* one unit is paid over two links, by callbacks of both channels.         *)
(* `instance' says which.                                                  *)
(***************************************************************************)
EXTENDS MCOrders

VARIABLE instance

OrdersInit == Init /\ instance \in {"stock", "money"}

PaidOrder == CHOOSE o \in Order : TRUE

OrdersNext ==
  /\ Next
  /\ instance = "stock" => txn' = txn
  /\ instance = "money" =>
       /\ crashes' = 0
       /\ \A o \in Order : status'[o] # "none" => o = PaidOrder /\ basket'[o] \in MCOneUnit
  /\ UNCHANGED instance

OrdersSpec == OrdersInit /\ [][OrdersNext]_<<vars, instance>>
================================================================================
