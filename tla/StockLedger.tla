----------------------------- MODULE StockLedger -----------------------------
(***************************************************************************)
(* What the order code promises about inventory, with no orders' statuses, *)
(* no payments and no concurrency in it: units leave the shelf when an     *)
(* order is taken, and come back at most once, in exactly the quantity     *)
(* that left.  OrderLifecycle implements this specification.               *)
(***************************************************************************)
EXTENDS Integers

CONSTANTS Order, Product, InitStock, Basket

VARIABLES
  shelf,     \* shelf[p]: units of p that can still be sold
  held,      \* held[o]: units, per product, that order o keeps off the shelf
  closed     \* orders whose units came back: they never hold any again

ledgerVars == <<shelf, held, closed>>

NoUnits == [p \in Product |-> 0]

Init ==
  /\ shelf = InitStock
  /\ held = [o \in Order |-> NoUnits]
  /\ closed = {}

(* An order takes its whole basket, or nothing.                            *)
Reserve(o, bag) ==
  /\ held[o] = NoUnits
  /\ o \notin closed
  /\ \A p \in Product : shelf[p] >= bag[p]
  /\ shelf' = [p \in Product |-> shelf[p] - bag[p]]
  /\ held' = [held EXCEPT ![o] = bag]
  /\ UNCHANGED closed

(* All of an order's units come back together, once.                       *)
Release(o) ==
  /\ o \notin closed
  /\ shelf' = [p \in Product |-> shelf[p] + held[o][p]]
  /\ held' = [held EXCEPT ![o] = NoUnits]
  /\ closed' = closed \cup {o}

Next == \E o \in Order : (\E bag \in Basket : Reserve(o, bag)) \/ Release(o)

Spec == Init /\ [][Next]_ledgerVars
==============================================================================
