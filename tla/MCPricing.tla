----------------------------- MODULE MCPricing -----------------------------
(* Pricing for TLC.  Changes of two products, concurrent approvals and        *)
(* concurrent closings are all explored, but not all at once.                *)
EXTENDS Pricing, TLC

CONSTANTS s1, s2, a1, a2, cron, admin

MCSymmetry == Permutations(Products) \union Permutations(Approvers)

(* The items some change or promotion deals with. *)
MCInPlay ==
    UNION ({ItemsOf(i) : i \in {j \in Changes : changes[j] # None}}
           \union {DOMAIN promos[p].snapshot : p \in {q \in Promos : promos[q] # None}})

MCBusy == Cardinality({a \in Approvers : Serving(a)}) + Cardinality({c \in Closers : closing[c] # None})

MCRows == {p \in Promos : promos[p] # None}

(* One of: two products in play, two promotions, several approvals and        *)
(* closings under way.                                                        *)
MCBound ==
    /\ Cardinality(MCInPlay) > 1 => MCBusy <= 1 /\ Cardinality(MCRows) <= 1
    /\ MCBusy <= IF Cardinality(MCRows) > 1 THEN 1 ELSE 2
    /\ \A s \in Products \ MCInPlay : price[s] = Regular(1)
=============================================================================
