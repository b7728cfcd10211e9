----------------------------- MODULE Recursions -----------------------------
(***************************************************************************)
(* Two recursions that the models share, as functions, so that one can prove   *)
(* about them: what a filter leaves of a list (the comprehensions of the host,   *)
(* Array.filter), and a power (the backoffs, BASE ** attempts).               *)
(***************************************************************************)
EXTENDS Integers, Sequences

\* The elements of s that are in S, in their order.
Sift(s, S) ==
  LET kept[i \in 0 .. Len(s)] ==
        IF i = 0 THEN <<>>
        ELSE IF s[i] \in S THEN Append(kept[i - 1], s[i]) ELSE kept[i - 1]
  IN kept[Len(s)]

Power(b, n) ==
  LET power[i \in 0 .. n] == IF i = 0 THEN 1 ELSE b * power[i - 1]
  IN power[n]
=============================================================================
