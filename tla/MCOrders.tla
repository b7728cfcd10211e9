------------------------------- MODULE MCOrders -------------------------------
(***************************************************************************)
(* Small instances of OrderLifecycle for TLC.                              *)
(***************************************************************************)
EXTENDS OrderLifecycle

(* One product with two units; an order takes one or both.                 *)
MCStock == [p \in Product |-> 2]
MCBaskets == {[p \in Product |-> q] : q \in 1..2}
MCOneUnit == {[p \in Product |-> 1]}
================================================================================
