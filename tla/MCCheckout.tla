------------------------------ MODULE MCCheckout ------------------------------
(***************************************************************************)
(* Small instances of Checkout for TLC.                                    *)
(***************************************************************************)
EXTENDS Checkout, TLC

(* All carts hold one watch for 2; they differ in its engraving.           *)
MCLook == [c \in Cart |-> [slugs |-> {"w1"}, lines |-> 1, total |-> 2]]

(* Slots are interchangeable: nothing orders them.                         *)
MCSymmetry == Permutations(Slot)
================================================================================
