--------------------------- MODULE Recursions_proofs --------------------------
(***************************************************************************)
(* What the recursive functions of the models compute, for every argument.  A     *)
(* recursive function is a CHOOSE: it is shown to exist by the least number for     *)
(* which it would not, and then to be what its equation says.  Lemmas for           *)
(* Services_proofs, Pages_proofs, Host_proofs and Stores_proofs.                *)
(***************************************************************************)
EXTENDS Recursions, Functions, FiniteSetTheorems, WellFoundedInduction, TLAPS

NatBelow == {p \in Nat \X Nat : p[1] < p[2]}

\* A set of naturals that is not empty has a least one.
LEMMA NatLeast ==
  ASSUME NEW T, T \subseteq Nat, T # {}
  PROVE  \E x \in T : \A y \in T : x <= y
<1>1. IsWellFoundedOn(NatBelow, Nat)
  BY NatLessThanWellFounded DEF OpToRel, NatBelow
<1>2. PICK x \in T : \A y \in T : ~(<<y, x>> \in NatBelow)
  BY <1>1, WFMin
<1>3. ASSUME NEW y \in T PROVE x <= y
  <2>1. y \in Nat /\ x \in Nat  OBVIOUS
  <2>2. ~(<<y, x>> \in NatBelow)  BY <1>2
  <2>3. ~(y < x)  BY <2>1, <2>2 DEF NatBelow
  <2> QED BY <2>1, <2>3
<1>4. QED BY <1>3

\* Induction: a set of naturals with 0 and with the successor of each member holds all.
LEMMA NatAll ==
  ASSUME NEW T, 0 \in T, \A n \in Nat : n \in T => n + 1 \in T
  PROVE  Nat \subseteq T
<1>1. SUFFICES ASSUME Nat \ T # {} PROVE FALSE  OBVIOUS
<1>2. PICK x \in Nat \ T : \A y \in Nat \ T : x <= y  BY <1>1, NatLeast
<1>3. x # 0 /\ x - 1 \in Nat  BY <1>2
<1>4. x - 1 \in T  BY <1>2, <1>3
<1>5. (x - 1) + 1 = x  BY <1>2
<1> QED BY <1>2, <1>3, <1>4, <1>5

\* The table that Sift reads is there: Sift is its last entry.
LEMMA SiftKept ==
  ASSUME NEW T, NEW s \in Seq(T), NEW S
  PROVE  \E kept :
           /\ kept = [i \in 0 .. Len(s) |->
                        IF i = 0 THEN <<>>
                        ELSE IF s[i] \in S THEN Append(kept[i - 1], s[i]) ELSE kept[i - 1]]
           /\ Sift(s, S) = kept[Len(s)]
<1> DEFINE IsKept(g, n) == g = [i \in 0 .. n |->
                        IF i = 0 THEN <<>>
                        ELSE IF s[i] \in S THEN Append(g[i - 1], s[i]) ELSE g[i - 1]]
           Has == {n \in Nat : \E g : IsKept(g, n)}
<1>1. 0 \in Has
  <2> DEFINE g0 == [i \in 0 .. 0 |-> <<>>]
  <2>1. IsKept(g0, 0)  OBVIOUS
  <2> QED BY <2>1
<1>2. ASSUME NEW n \in Nat, n \in Has PROVE n + 1 \in Has
  <2>1. PICK g : IsKept(g, n)  BY <1>2
  <2> DEFINE h == [i \in 0 .. n + 1 |->
                     IF i <= n THEN g[i]
                     ELSE IF s[i] \in S THEN Append(g[i - 1], s[i]) ELSE g[i - 1]]
  <2>2. IsKept(h, n + 1)
    <3>1. ASSUME NEW i \in 0 .. n + 1
          PROVE  h[i] = IF i = 0 THEN <<>>
                        ELSE IF s[i] \in S THEN Append(h[i - 1], s[i]) ELSE h[i - 1]
      <4>1. CASE i = 0  BY <2>1, <4>1
      <4>2. CASE i \in 1 .. n
        <5>1. h[i] = g[i] /\ h[i - 1] = g[i - 1]  BY <4>2
        <5>2. g[i] = IF s[i] \in S THEN Append(g[i - 1], s[i]) ELSE g[i - 1]
          <6>1. i \in 0 .. n /\ i # 0  BY <4>2
          <6>2. g[i] = [j \in 0 .. n |->
                         IF j = 0 THEN <<>>
                         ELSE IF s[j] \in S THEN Append(g[j - 1], s[j]) ELSE g[j - 1]][i]
            BY <2>1
          <6> QED BY <6>1, <6>2
        <5> HIDE DEF h
        <5> QED BY <4>2, <5>1, <5>2
      <4>3. CASE i = n + 1
        <5>1. h[i - 1] = g[i - 1]  BY <4>3
        <5>2. h[i] = IF s[i] \in S THEN Append(g[i - 1], s[i]) ELSE g[i - 1]  BY <4>3
        <5> QED BY <4>3, <5>1, <5>2
      <4> QED BY <4>1, <4>2, <4>3
    <3>2. h = [i \in 0 .. n + 1 |-> h[i]]  OBVIOUS
    <3> HIDE DEF h
    <3> QED BY <3>1, <3>2
  <2> HIDE DEF h
  <2> QED BY <2>2
<1>3. Len(s) \in Has
  <2> HIDE DEF Has
  <2> QED BY <1>1, <1>2, NatAll
<1> DEFINE theKept == CHOOSE g : IsKept(g, Len(s))
<1>4. IsKept(theKept, Len(s))  BY <1>3
<1>5. Sift(s, S) = theKept[Len(s)]  BY DEF Sift
<1> QED BY <1>4, <1>5
\* What Sift returns: the elements of S, each once, in their order.  at[k] is where the k-th
\* of them stood.
IsSifted(s, S, at, n, r) ==
  \E m \in 0 .. n :
    /\ at \in [1 .. m -> 1 .. n]
    /\ r = [k \in 1 .. m |-> s[at[k]]]
    /\ \A k, l \in 1 .. m : k < l => at[k] < at[l]
    /\ \A k \in 1 .. m : s[at[k]] \in S
    /\ \A i \in 1 .. n : s[i] \in S => \E k \in 1 .. m : at[k] = i

\* Sift returns that, for every sequence and every set.
LEMMA SiftIsSifted ==
  ASSUME NEW T, NEW s \in Seq(T), NEW S
  PROVE  \E at : IsSifted(s, S, at, Len(s), Sift(s, S))
<1>1. PICK kept :
           /\ kept = [i \in 0 .. Len(s) |->
                        IF i = 0 THEN <<>>
                        ELSE IF s[i] \in S THEN Append(kept[i - 1], s[i]) ELSE kept[i - 1]]
           /\ Sift(s, S) = kept[Len(s)]
  BY SiftKept
<1> DEFINE Good == {n \in Nat : n <= Len(s) => \E at : IsSifted(s, S, at, n, kept[n])}
<1>a. ASSUME NEW i \in 0 .. Len(s)
      PROVE  kept[i] = IF i = 0 THEN <<>>
                        ELSE IF s[i] \in S THEN Append(kept[i - 1], s[i]) ELSE kept[i - 1]
  BY <1>1
<1>2. 0 \in Good
  <2>1. kept[0] = <<>>  BY <1>a
  <2>2. IsSifted(s, S, <<>>, 0, <<>>)  BY DEF IsSifted
  <2> QED BY <2>1, <2>2
<1>3. ASSUME NEW n \in Nat, n \in Good PROVE n + 1 \in Good
  <2>1. SUFFICES ASSUME n + 1 <= Len(s)
                 PROVE  \E at : IsSifted(s, S, at, n + 1, kept[n + 1])
    OBVIOUS
  <2>2. PICK at : IsSifted(s, S, at, n, kept[n])  BY <1>3, <2>1
  <2>3. PICK m \in 0 .. n :
          /\ at \in [1 .. m -> 1 .. n]
          /\ kept[n] = [k \in 1 .. m |-> s[at[k]]]
          /\ \A k, l \in 1 .. m : k < l => at[k] < at[l]
          /\ \A k \in 1 .. m : s[at[k]] \in S
          /\ \A i \in 1 .. n : s[i] \in S => \E k \in 1 .. m : at[k] = i
    BY <2>2 DEF IsSifted
  <2>4. kept[n + 1] = IF s[n + 1] \in S THEN Append(kept[n], s[n + 1]) ELSE kept[n]
    BY <1>a, <2>1
  <2>5. CASE s[n + 1] \notin S
    <3>1. IsSifted(s, S, at, n + 1, kept[n])
      <4>1. \A i \in 1 .. n + 1 : s[i] \in S => \E k \in 1 .. m : at[k] = i
        <5> TAKE i \in 1 .. n + 1
        <5> HAVE s[i] \in S
        <5>1. i # n + 1  BY <2>5
        <5>2. i \in 1 .. n  BY <5>1
        <5> QED BY <2>3, <5>2
      <4>2. at \in [1 .. m -> 1 .. n + 1]  BY <2>3
      <4>3. m \in 0 .. n + 1  BY <2>3
      <4> QED BY <2>3, <4>1, <4>2, <4>3 DEF IsSifted
    <3> QED BY <2>4, <2>5, <3>1
  <2>6. CASE s[n + 1] \in S
    <3> DEFINE more == [k \in 1 .. m + 1 |-> IF k <= m THEN at[k] ELSE n + 1]
    <3>1. more \in [1 .. m + 1 -> 1 .. n + 1]  BY <2>3
    <3>2. \A k \in 1 .. m : more[k] = at[k] /\ at[k] \in 1 .. n  BY <2>3
    <3>3. more[m + 1] = n + 1  BY <2>3
    <3>x. m \in Nat /\ m + 1 \in 0 .. n + 1  BY <2>3
    <3> HIDE DEF more
    <3>4. \A k, l \in 1 .. m + 1 : k < l => more[k] < more[l]
      <4> TAKE k, l \in 1 .. m + 1
      <4> HAVE k < l
      <4>0. k \in 1 .. m  BY <2>3
      <4>1. CASE l = m + 1  BY <3>2, <3>3, <4>0, <4>1
      <4>2. CASE l \in 1 .. m  BY <2>3, <3>2, <4>0, <4>2
      <4> QED BY <4>1, <4>2, <3>x
    <3>5. \A k \in 1 .. m + 1 : s[more[k]] \in S
      <4> TAKE k \in 1 .. m + 1
      <4>1. CASE k = m + 1  BY <2>6, <3>3, <4>1
      <4>2. CASE k \in 1 .. m  BY <2>3, <3>2, <4>2
      <4> QED BY <4>1, <4>2, <3>x
    <3>6. \A i \in 1 .. n + 1 : s[i] \in S => \E k \in 1 .. m + 1 : more[k] = i
      <4> TAKE i \in 1 .. n + 1
      <4> HAVE s[i] \in S
      <4>1. CASE i = n + 1  BY <3>3, <3>x, <4>1
      <4>2. CASE i \in 1 .. n
        <5>1. PICK k \in 1 .. m : at[k] = i  BY <2>3, <4>2
        <5> QED BY <3>2, <3>x, <5>1
      <4> QED BY <4>1, <4>2
    <3>7. Append(kept[n], s[n + 1]) = [k \in 1 .. m + 1 |-> s[more[k]]]
      <4>1. kept[n] \in Seq(T) /\ Len(kept[n]) = m
        <5>1. \A k \in 1 .. m : s[at[k]] \in T  BY <2>3, <2>1
        <5> QED BY <2>3, <5>1
      <4>2. Append(kept[n], s[n + 1])
              = [k \in 1 .. m + 1 |-> IF k = m + 1 THEN s[n + 1] ELSE kept[n][k]]
        BY <4>1, <2>1
      <4>3. \A k \in 1 .. m + 1 : (IF k = m + 1 THEN s[n + 1] ELSE kept[n][k]) = s[more[k]]
        <5> TAKE k \in 1 .. m + 1
        <5>1. CASE k = m + 1  BY <5>1, <3>3
        <5>2. CASE k \in 1 .. m
          <6>1. k # m + 1  BY <5>2
          <6>2. kept[n][k] = s[at[k]]  BY <2>3, <5>2
          <6> QED BY <6>1, <6>2, <3>2, <5>2
        <5> QED BY <5>1, <5>2, <3>x
      <4> QED BY <4>2, <4>3
    <3>8. IsSifted(s, S, more, n + 1, Append(kept[n], s[n + 1]))
      BY <3>x, <3>1, <3>4, <3>5, <3>6, <3>7 DEF IsSifted
    <3> QED BY <2>4, <2>6, <3>8
  <2> QED BY <2>5, <2>6
<1>4. Len(s) \in Good
  <2> HIDE DEF Good
  <2> QED BY <1>2, <1>3, NatAll
<1> QED BY <1>1, <1>4

\* Sift returns a sequence of what it keeps.
LEMMA SiftType ==
  ASSUME NEW T, NEW s \in Seq(T), NEW S
  PROVE  Sift(s, S) \in Seq(T \cap S) /\ Len(Sift(s, S)) <= Len(s)
<1>1. PICK at : IsSifted(s, S, at, Len(s), Sift(s, S))  BY SiftIsSifted
<1>2. PICK m \in 0 .. Len(s) :
        /\ at \in [1 .. m -> 1 .. Len(s)]
        /\ Sift(s, S) = [k \in 1 .. m |-> s[at[k]]]
        /\ \A k \in 1 .. m : s[at[k]] \in S
  BY <1>1 DEF IsSifted
<1>3. \A k \in 1 .. m : s[at[k]] \in T \cap S  BY <1>2
<1> QED BY <1>2, <1>3

\* What is kept was there, and what is to be kept is.
LEMMA SiftKeeps ==
  ASSUME NEW T, NEW s \in Seq(T), NEW S
  PROVE  /\ \A k \in 1 .. Len(Sift(s, S)) :
              Sift(s, S)[k] \in S /\ \E i \in 1 .. Len(s) : Sift(s, S)[k] = s[i]
         /\ \A i \in 1 .. Len(s) :
              s[i] \in S => \E k \in 1 .. Len(Sift(s, S)) : Sift(s, S)[k] = s[i]
<1>1. PICK at : IsSifted(s, S, at, Len(s), Sift(s, S))  BY SiftIsSifted
<1>2. PICK m \in 0 .. Len(s) :
        /\ at \in [1 .. m -> 1 .. Len(s)]
        /\ Sift(s, S) = [k \in 1 .. m |-> s[at[k]]]
        /\ \A k \in 1 .. m : s[at[k]] \in S
        /\ \A i \in 1 .. Len(s) : s[i] \in S => \E k \in 1 .. m : at[k] = i
  BY <1>1 DEF IsSifted
<1>3. Len(Sift(s, S)) = m  BY <1>2
<1>4. \A k \in 1 .. m : Sift(s, S)[k] = s[at[k]] /\ at[k] \in 1 .. Len(s)  BY <1>2
<1> QED BY <1>2, <1>3, <1>4

\* Order is kept: any two of the kept stand as they stood, and at two different places.
LEMMA SiftOrder ==
  ASSUME NEW T, NEW s \in Seq(T), NEW S
  PROVE  \A k, l \in 1 .. Len(Sift(s, S)) : k < l =>
           \E i, j \in 1 .. Len(s) :
             i < j /\ Sift(s, S)[k] = s[i] /\ Sift(s, S)[l] = s[j]
<1> SUFFICES ASSUME NEW k \in 1 .. Len(Sift(s, S)), NEW l \in 1 .. Len(Sift(s, S)), k < l
             PROVE  \E i, j \in 1 .. Len(s) :
                      i < j /\ Sift(s, S)[k] = s[i] /\ Sift(s, S)[l] = s[j]
  OBVIOUS
<1>1. PICK at : IsSifted(s, S, at, Len(s), Sift(s, S))  BY SiftIsSifted
<1>2. PICK m \in 0 .. Len(s) :
        /\ at \in [1 .. m -> 1 .. Len(s)]
        /\ Sift(s, S) = [x \in 1 .. m |-> s[at[x]]]
        /\ \A x, y \in 1 .. m : x < y => at[x] < at[y]
  BY <1>1 DEF IsSifted
<1>3. Len(Sift(s, S)) = m  BY <1>2
<1>4. k \in 1 .. m /\ l \in 1 .. m  BY <1>3
<1>5. at[k] < at[l] /\ at[k] \in 1 .. Len(s) /\ at[l] \in 1 .. Len(s)  BY <1>2, <1>4
<1>6. Sift(s, S)[k] = s[at[k]] /\ Sift(s, S)[l] = s[at[l]]  BY <1>2, <1>4
<1> QED BY <1>5, <1>6

-----------------------------------------------------------------------------
(* Powers.                                                                 *)

IsPowers(g, b, n) == g = [i \in 0 .. n |-> IF i = 0 THEN 1 ELSE b * g[i - 1]]

\* There is a table of powers up to any exponent.
LEMMA PowersExist ==
  ASSUME NEW b \in Nat, NEW n \in Nat
  PROVE  \E g : IsPowers(g, b, n)
<1> DEFINE Has == {k \in Nat : \E g : IsPowers(g, b, k)}
<1>1. 0 \in Has
  <2>1. IsPowers([i \in 0 .. 0 |-> 1], b, 0)  BY DEF IsPowers
  <2> QED BY <2>1
<1>2. ASSUME NEW k \in Nat, k \in Has PROVE k + 1 \in Has
  <2>1. PICK g : IsPowers(g, b, k)  BY <1>2
  <2> DEFINE h == [i \in 0 .. k + 1 |-> IF i <= k THEN g[i] ELSE b * g[k]]
  <2>2. ASSUME NEW i \in 0 .. k + 1 PROVE h[i] = IF i = 0 THEN 1 ELSE b * h[i - 1]
    <3>1. CASE i = k + 1
      <4>1. h[i] = b * g[k] /\ h[i - 1] = g[k] /\ i # 0  BY <3>1
      <4> QED BY <4>1
    <3>2. CASE i \in 0 .. k
      <4>1. h[i] = g[i] /\ (i # 0 => h[i - 1] = g[i - 1])  BY <3>2
      <4>2. g[i] = [j \in 0 .. k |-> IF j = 0 THEN 1 ELSE b * g[j - 1]][i]
        BY <2>1 DEF IsPowers
      <4>3. g[i] = IF i = 0 THEN 1 ELSE b * g[i - 1]  BY <4>2, <3>2
      <4> HIDE DEF h
      <4> QED BY <4>1, <4>3
    <3> QED BY <3>1, <3>2
  <2>3. h = [i \in 0 .. k + 1 |-> h[i]]  OBVIOUS
  <2> HIDE DEF h
  <2>4. IsPowers(h, b, k + 1)  BY <2>2, <2>3 DEF IsPowers
  <2> QED BY <2>4
<1>3. Nat \subseteq Has
  <2> HIDE DEF Has
  <2> QED BY <1>1, <1>2, NatAll
<1> QED BY <1>3

\* Two tables of powers agree as far as both go.
LEMMA PowersAgree ==
  ASSUME NEW b \in Nat, NEW m \in Nat, NEW n \in Nat, m <= n,
         NEW g, IsPowers(g, b, m), NEW h, IsPowers(h, b, n)
  PROVE  \A i \in 0 .. m : g[i] = h[i]
<1>a. ASSUME NEW i \in 0 .. m PROVE g[i] = IF i = 0 THEN 1 ELSE b * g[i - 1]
  <2>1. g[i] = [j \in 0 .. m |-> IF j = 0 THEN 1 ELSE b * g[j - 1]][i]  BY DEF IsPowers
  <2> QED BY <2>1
<1>b. ASSUME NEW i \in 0 .. m PROVE h[i] = IF i = 0 THEN 1 ELSE b * h[i - 1]
  <2>1. h[i] = [j \in 0 .. n |-> IF j = 0 THEN 1 ELSE b * h[j - 1]][i]  BY DEF IsPowers
  <2>2. i \in 0 .. n  OBVIOUS
  <2> QED BY <2>1, <2>2
<1> DEFINE Same == {i \in Nat : i <= m => g[i] = h[i]}
<1>1. 0 \in Same  BY <1>a, <1>b
<1>2. ASSUME NEW k \in Nat, k \in Same PROVE k + 1 \in Same
  <2>1. CASE k + 1 <= m
    <3>1. k + 1 \in 0 .. m /\ k + 1 # 0 /\ (k + 1) - 1 = k  BY <2>1
    <3>2. g[k] = h[k]  BY <1>2, <2>1
    <3>3. g[k + 1] = b * g[k]  BY <3>1, <1>a
    <3>4. h[k + 1] = b * h[k]  BY <3>1, <1>b
    <3> QED BY <3>2, <3>3, <3>4
  <2> QED BY <2>1
<1>3. Nat \subseteq Same
  <2> HIDE DEF Same
  <2> QED BY <1>1, <1>2, NatAll
<1> QED BY <1>3

\* A power is read off such a table.
LEMMA PowerTable ==
  ASSUME NEW b \in Nat, NEW n \in Nat
  PROVE  \E g : IsPowers(g, b, n) /\ Power(b, n) = g[n]
<1> DEFINE T == CHOOSE g : IsPowers(g, b, n)
<1>1. IsPowers(T, b, n)  BY PowersExist
<1>2. Power(b, n) = T[n]  BY DEF Power, IsPowers
<1> QED BY <1>1, <1>2

\* The equations of Power.
LEMMA PowerStep ==
  ASSUME NEW b \in Nat
  PROVE  /\ Power(b, 0) = 1
         /\ \A n \in Nat : Power(b, n + 1) = b * Power(b, n)
<1>1. Power(b, 0) = 1
  <2>1. PICK g : IsPowers(g, b, 0) /\ Power(b, 0) = g[0]  BY PowerTable
  <2>2. g[0] = [i \in 0 .. 0 |-> IF i = 0 THEN 1 ELSE b * g[i - 1]][0]  BY <2>1 DEF IsPowers
  <2> QED BY <2>1, <2>2
<1>2. ASSUME NEW n \in Nat PROVE Power(b, n + 1) = b * Power(b, n)
  <2>1. PICK g : IsPowers(g, b, n) /\ Power(b, n) = g[n]  BY PowerTable
  <2>2. PICK h : IsPowers(h, b, n + 1) /\ Power(b, n + 1) = h[n + 1]  BY PowerTable
  <2>3. g[n] = h[n]
    <3>1. n <= n + 1 /\ n + 1 \in Nat /\ n \in 0 .. n  OBVIOUS
    <3> QED BY <2>1, <2>2, <3>1, PowersAgree
  <2>4. h[n + 1] = [i \in 0 .. n + 1 |-> IF i = 0 THEN 1 ELSE b * h[i - 1]][n + 1]
    BY <2>2 DEF IsPowers
  <2>5. h[n + 1] = b * h[n]
    <3>1. n + 1 \in 0 .. n + 1 /\ n + 1 # 0 /\ (n + 1) - 1 = n  OBVIOUS
    <3> QED BY <2>4, <3>1
  <2> QED BY <2>1, <2>2, <2>3, <2>5
<1> QED BY <1>1, <1>2

\* Powers are positive and grow with the exponent.
LEMMA PowerGrows ==
  ASSUME NEW b \in Nat \ {0}
  PROVE  /\ \A n \in Nat : Power(b, n) \in Nat \ {0}
         /\ \A n \in Nat : \A k \in 0 .. n : Power(b, k) \in 1 .. Power(b, n)
<1> DEFINE Up == {n \in Nat : /\ Power(b, n) \in Nat \ {0}
                              /\ \A k \in 0 .. n : Power(b, k) \in 1 .. Power(b, n)}
<1>1. 0 \in Up
  <2>1. \A k \in 0 .. 0 : k = 0  OBVIOUS
  <2>2. Power(b, 0) = 1  BY PowerStep
  <2> QED BY <2>1, <2>2
<1>2. ASSUME NEW n \in Nat, n \in Up PROVE n + 1 \in Up
  <2>1. /\ Power(b, n) \in Nat \ {0}
        /\ \A k \in 0 .. n : Power(b, k) \in 1 .. Power(b, n)
    BY <1>2
  <2>2. Power(b, n + 1) = b * Power(b, n)  BY PowerStep
  <2> DEFINE p == Power(b, n)
  <2>3. p \in Nat \ {0} /\ b * p \in Nat \ {0} /\ p <= b * p
    <3>1. p \in Nat \ {0}  BY <2>1
    <3> HIDE DEF p
    <3>2. \A x \in Nat \ {0} : x * p \in Nat \ {0} /\ p <= x * p  BY <3>1
    <3> QED BY <3>1, <3>2
  <2>4. ASSUME NEW k \in 0 .. n + 1 PROVE Power(b, k) \in 1 .. Power(b, n + 1)
    <3>1. CASE k = n + 1  BY <3>1, <2>2, <2>3
    <3>2. CASE k \in 0 .. n
      <4>1. Power(b, k) \in 1 .. p  BY <3>2, <2>1
      <4>2. \A x \in 1 .. p : x \in 1 .. b * p  BY <2>3
      <4> QED BY <4>1, <4>2, <2>2
    <3> QED BY <3>1, <3>2
  <2> QED BY <2>2, <2>3, <2>4
<1>3. Nat \subseteq Up
  <2> HIDE DEF Up
  <2> QED BY <1>1, <1>2, NatAll
<1> QED BY <1>3
-----------------------------------------------------------------------------
(* Sift, an element at a time.                                             *)

\* Induction over sequences, an element at a time.
LEMMA SeqAll ==
  ASSUME NEW A, NEW T, <<>> \in T,
         \A s \in Seq(A) : \A x \in A : s \in T => Append(s, x) \in T
  PROVE  Seq(A) \subseteq T
<1> DEFINE Long == {n \in Nat : \A s \in Seq(A) : Len(s) = n => s \in T}
<1>1. 0 \in Long
  <2>1. \A s \in Seq(A) : Len(s) = 0 => s = <<>>  OBVIOUS
  <2> QED BY <2>1
<1>2. ASSUME NEW n \in Nat, n \in Long PROVE n + 1 \in Long
  <2> SUFFICES ASSUME NEW s \in Seq(A), Len(s) = n + 1 PROVE s \in T  OBVIOUS
  <2> DEFINE r == [i \in 1 .. n |-> s[i]]
  <2>1. s[n + 1] \in A /\ r \in Seq(A) /\ Len(r) = n
    <3>1. \A i \in 1 .. n + 1 : s[i] \in A  OBVIOUS
    <3>2. r \in [1 .. n -> A]  BY <3>1
    <3> QED BY <3>1, <3>2
  <2>2. s = Append(r, s[n + 1])
    <3>1. Append(r, s[n + 1]) \in Seq(A) /\ Len(Append(r, s[n + 1])) = n + 1  BY <2>1
    <3>2. \A i \in 1 .. n + 1 : Append(r, s[n + 1])[i] = s[i]
      <4> TAKE i \in 1 .. n + 1
      <4>1. CASE i = n + 1  BY <2>1, <4>1
      <4>2. CASE i \in 1 .. n  BY <2>1, <4>2
      <4> QED BY <4>1, <4>2
    <3> HIDE DEF r
    <3> QED BY <3>1, <3>2
  <2> HIDE DEF r
  <2>3. r \in T  BY <1>2, <2>1
  <2> QED BY <2>1, <2>2, <2>3
<1>3. Nat \subseteq Long
  <2> HIDE DEF Long
  <2> QED BY <1>1, <1>2, NatAll
<1> QED BY <1>3

\* Of nothing nothing is left.
LEMMA SiftEmpty ==
  ASSUME NEW S
  PROVE  Sift(<<>>, S) = <<>>
<1>1. <<>> \in Seq({})  OBVIOUS
<1>2. Sift(<<>>, S) \in Seq({} \cap S)  BY <1>1, SiftType
<1> QED BY <1>2

\* One element more.
LEMMA SiftAppend ==
  ASSUME NEW T, NEW s \in Seq(T), NEW x \in T, NEW S
  PROVE  Sift(Append(s, x), S) = IF x \in S THEN Append(Sift(s, S), x) ELSE Sift(s, S)
<1> DEFINE r == Append(s, x)
           n == Len(s)
<1>0. r \in Seq(T) /\ Len(r) = n + 1 /\ n \in Nat /\ r[n + 1] = x /\ \A i \in 1 .. n : r[i] = s[i]
  OBVIOUS
<1> HIDE DEF r, n
<1>1. PICK k : /\ k = [i \in 0 .. Len(r) |->
                        IF i = 0 THEN <<>>
                        ELSE IF r[i] \in S THEN Append(k[i - 1], r[i]) ELSE k[i - 1]]
               /\ Sift(r, S) = k[Len(r)]
  BY <1>0, SiftKept
<1>2. PICK g : /\ g = [i \in 0 .. n |->
                        IF i = 0 THEN <<>>
                        ELSE IF s[i] \in S THEN Append(g[i - 1], s[i]) ELSE g[i - 1]]
               /\ Sift(s, S) = g[n]
  BY SiftKept DEF n
<1>3. ASSUME NEW i \in 0 .. n + 1
      PROVE  k[i] = IF i = 0 THEN <<>> ELSE IF r[i] \in S THEN Append(k[i - 1], r[i]) ELSE k[i - 1]
  BY <1>0, <1>1
<1>4. ASSUME NEW i \in 0 .. n
      PROVE  g[i] = IF i = 0 THEN <<>> ELSE IF s[i] \in S THEN Append(g[i - 1], s[i]) ELSE g[i - 1]
  <2>1. g[i] = [j \in 0 .. n |->
                        IF j = 0 THEN <<>>
                        ELSE IF s[j] \in S THEN Append(g[j - 1], s[j]) ELSE g[j - 1]][i]
    BY <1>2
  <2> QED BY <2>1
<1> DEFINE Same == {i \in Nat : i <= n => k[i] = g[i]}
<1>5. 0 \in Same
  <2>1. 0 \in 0 .. n /\ 0 \in 0 .. n + 1  BY <1>0
  <2> QED BY <1>3, <1>4, <2>1
<1>6. ASSUME NEW i \in Nat, i \in Same PROVE i + 1 \in Same
  <2>1. SUFFICES ASSUME i + 1 <= n PROVE k[i + 1] = g[i + 1]  OBVIOUS
  <2>2. k[i] = g[i]  BY <1>0, <1>6, <2>1
  <2>3. i + 1 \in 1 .. n /\ i + 1 \in 0 .. n /\ i + 1 \in 0 .. n + 1 /\ i + 1 # 0 /\ (i + 1) - 1 = i
    BY <1>0, <2>1
  <2>4. k[i + 1] = IF r[i + 1] \in S THEN Append(k[i], r[i + 1]) ELSE k[i]  BY <1>3, <2>3
  <2>5. g[i + 1] = IF s[i + 1] \in S THEN Append(g[i], s[i + 1]) ELSE g[i]  BY <1>4, <2>3
  <2>6. r[i + 1] = s[i + 1]  BY <1>0, <2>3
  <2> QED BY <2>2, <2>4, <2>5, <2>6
<1>7. k[n] = g[n]
  <2> HIDE DEF Same
  <2>1. n \in Same  BY <1>0, <1>5, <1>6, NatAll
  <2> QED BY <1>0, <2>1 DEF Same
<1>8. n + 1 \in 0 .. n + 1 /\ n + 1 # 0 /\ (n + 1) - 1 = n  BY <1>0
<1>9. k[n + 1] = IF r[n + 1] \in S THEN Append(k[n], r[n + 1]) ELSE k[n]  BY <1>3, <1>8
<1> QED BY <1>0, <1>1, <1>2, <1>7, <1>9 DEF r

\* What is all of S stays as it is.
LEMMA SiftAll ==
  ASSUME NEW T, NEW S, T \subseteq S
  PROVE  \A s \in Seq(T) : Sift(s, S) = s
<1> DEFINE Good == {s \in Seq(T) : Sift(s, S) = s}
<1>1. <<>> \in Good  BY SiftEmpty
<1>2. ASSUME NEW s \in Seq(T), NEW x \in T, s \in Good PROVE Append(s, x) \in Good
  <2>1. Sift(Append(s, x), S) = IF x \in S THEN Append(Sift(s, S), x) ELSE Sift(s, S)  BY SiftAppend
  <2> QED BY <1>2, <2>1
<1>3. Seq(T) \subseteq Good
  <2> HIDE DEF Good
  <2> QED BY <1>1, <1>2, SeqAll
<1> QED BY <1>3

-----------------------------------------------------------------------------
(* The sum of a function's values.                                         *)

Pick(s) == CHOOSE x \in s : TRUE
IsTotals(g, f, S) == g = [s \in SUBSET S |-> IF s = {} THEN 0 ELSE f[Pick(s)] + g[s \ {Pick(s)}]]
Total(f) == FoldFunction(LAMBDA n, sum : n + sum, 0, f)

\* There is a table of totals, for the subsets of a finite set.
LEMMA TotalsExist ==
  ASSUME NEW S, IsFiniteSet(S), NEW f
  PROVE  \E g : IsTotals(g, f, S)
<1> DEFINE Upto(n) == {s \in SUBSET S : Cardinality(s) <= n}
           Fits(g, n) == g = [s \in Upto(n) |-> IF s = {} THEN 0 ELSE f[Pick(s)] + g[s \ {Pick(s)}]]
           Has == {n \in Nat : \E g : Fits(g, n)}
<1>0. ASSUME NEW s \in SUBSET S
      PROVE  /\ Cardinality(s) \in Nat /\ (Cardinality(s) = 0 <=> s = {})
             /\ s # {} => /\ Pick(s) \in s /\ s \ {Pick(s)} \in SUBSET S
                          /\ Cardinality(s \ {Pick(s)}) = Cardinality(s) - 1
  <2>1. IsFiniteSet(s)  BY FS_Subset
  <2>2. Cardinality(s) \in Nat /\ (Cardinality(s) = 0 <=> s = {})  BY <2>1, FS_CardinalityType, FS_EmptySet
  <2>3. ASSUME s # {} PROVE Pick(s) \in s  BY <2>3 DEF Pick
  <2>4. ASSUME s # {} PROVE Cardinality(s \ {Pick(s)}) = Cardinality(s) - 1
    BY <2>1, <2>3, <2>4, FS_RemoveElement
  <2> QED BY <2>2, <2>3, <2>4
<1>a. \A s \in SUBSET S : Cardinality(s) \in Nat /\ (Cardinality(s) = 0 <=> s = {})  BY <1>0
<1>1. 0 \in Has
  <2>1. Upto(0) = {{}}
    <3>1. ASSUME NEW s \in SUBSET S PROVE (Cardinality(s) <= 0) <=> (s = {})
      <4>1. Cardinality(s) \in Nat /\ (Cardinality(s) = 0 <=> s = {})  BY <1>a
      <4> QED BY <4>1
    <3> QED BY <3>1
  <2>2. Fits([s \in {{}} |-> 0], 0)
    <3> HIDE DEF Upto
    <3> QED BY <2>1
  <2> QED BY <2>2
<1>2. ASSUME NEW n \in Nat, n \in Has PROVE n + 1 \in Has
  <2>1. PICK g : Fits(g, n)  BY <1>2
  <2> DEFINE h == [s \in Upto(n + 1) |-> IF s = {} THEN 0 ELSE f[Pick(s)] + g[s \ {Pick(s)}]]
  <2>2. ASSUME NEW s \in Upto(n) PROVE s \in Upto(n + 1) /\ h[s] = g[s]
    <3>1. s \in Upto(n + 1)
      <4>1. Cardinality(s) \in Nat  BY <1>a
      <4> QED BY <4>1
    <3>2. h[s] = IF s = {} THEN 0 ELSE f[Pick(s)] + g[s \ {Pick(s)}]  BY <3>1
    <3> HIDE DEF h, Upto
    <3>3. g[s] = [r \in Upto(n) |-> IF r = {} THEN 0 ELSE f[Pick(r)] + g[r \ {Pick(r)}]][s]  BY <2>1
    <3> QED BY <3>1, <3>2, <3>3
  <2>3. ASSUME NEW s \in Upto(n + 1), s # {} PROVE s \ {Pick(s)} \in Upto(n)
    <3>1. Cardinality(s \ {Pick(s)}) = Cardinality(s) - 1 /\ s \ {Pick(s)} \in SUBSET S
          /\ Cardinality(s) \in Nat
      BY <1>0, <2>3
    <3> QED BY <3>1, <2>3
  <2>4. ASSUME NEW s \in Upto(n + 1)
        PROVE  h[s] = IF s = {} THEN 0 ELSE f[Pick(s)] + h[s \ {Pick(s)}]
    <3>1. h[s] = IF s = {} THEN 0 ELSE f[Pick(s)] + g[s \ {Pick(s)}]  OBVIOUS
    <3> HIDE DEF h, Upto
    <3> QED BY <3>1, <2>2, <2>3
  <2>5. h = [s \in Upto(n + 1) |-> h[s]]  OBVIOUS
  <2> HIDE DEF h, Upto
  <2>6. Fits(h, n + 1)  BY <2>4, <2>5
  <2> HIDE DEF Fits
  <2> QED BY <2>6
<1>3. Cardinality(S) \in Has
  <2>1. Cardinality(S) \in Nat  BY FS_CardinalityType
  <2> HIDE DEF Has
  <2> QED BY <1>1, <1>2, <2>1, NatAll
<1>4. Upto(Cardinality(S)) = SUBSET S
  <2>1. ASSUME NEW s \in SUBSET S PROVE Cardinality(s) <= Cardinality(S)  BY FS_Subset
  <2> QED BY <2>1
<1>5. PICK g : Fits(g, Cardinality(S))  BY <1>3
<1> HIDE DEF Upto
<1> QED BY <1>4, <1>5 DEF IsTotals

\* g has the totals of f over the subsets of S.
Totals(g, f, S) ==
  /\ Total(f) = g[S] /\ g[{}] = 0
  /\ \A s \in SUBSET S : s # {} => g[s] = f[Pick(s)] + g[s \ {Pick(s)}]

\* A total is read off such a table.
LEMMA TotalTable ==
  ASSUME NEW S, IsFiniteSet(S), NEW f \in [S -> Nat]
  PROVE  \E g : Totals(g, f, S)
<1> DEFINE g == CHOOSE h : IsTotals(h, f, S)
<1>1. IsTotals(g, f, S)  BY TotalsExist
<1>2. DOMAIN f = S  OBVIOUS
<1>3. Total(f) = g[S]
  BY <1>2 DEF FoldFunction, FoldFunctionOnSet, MapThenFoldSet, IsTotals, Pick, Total
<1> HIDE DEF g
<1>4. ASSUME NEW s \in SUBSET S PROVE g[s] = IF s = {} THEN 0 ELSE f[Pick(s)] + g[s \ {Pick(s)}]
  <2>1. g[s] = [r \in SUBSET S |-> IF r = {} THEN 0 ELSE f[Pick(r)] + g[r \ {Pick(r)}]][s]
    BY <1>1 DEF IsTotals
  <2> QED BY <2>1
<1>5. g[{}] = 0  BY <1>4
<1> QED BY <1>3, <1>4, <1>5 DEF Totals

\* Induction over the subsets of a finite set, an element at a time.
LEMMA SubsetsAll ==
  ASSUME NEW S, IsFiniteSet(S), NEW T, {} \in T,
         \A s \in SUBSET S : s # {} /\ s \ {Pick(s)} \in T => s \in T
  PROVE  S \in T
<1> DEFINE Upto == {n \in Nat : \A s \in SUBSET S : Cardinality(s) = n => s \in T}
<1>1. ASSUME NEW s \in SUBSET S
      PROVE  /\ Cardinality(s) \in Nat /\ (Cardinality(s) = 0 <=> s = {})
             /\ s # {} => /\ Pick(s) \in s /\ s \ {Pick(s)} \in SUBSET S
                          /\ Cardinality(s \ {Pick(s)}) = Cardinality(s) - 1
  <2>1. IsFiniteSet(s)  BY FS_Subset
  <2>2. Cardinality(s) \in Nat /\ (Cardinality(s) = 0 <=> s = {})  BY <2>1, FS_CardinalityType, FS_EmptySet
  <2>3. ASSUME s # {} PROVE Pick(s) \in s  BY <2>3 DEF Pick
  <2>4. ASSUME s # {} PROVE Cardinality(s \ {Pick(s)}) = Cardinality(s) - 1
    BY <2>1, <2>3, <2>4, FS_RemoveElement
  <2> QED BY <2>2, <2>3, <2>4
<1>2. 0 \in Upto  BY <1>1
<1>3. ASSUME NEW n \in Nat, n \in Upto PROVE n + 1 \in Upto
  <2> SUFFICES ASSUME NEW s \in SUBSET S, Cardinality(s) = n + 1 PROVE s \in T  OBVIOUS
  <2>1. s # {}  BY <1>1
  <2>2. s \ {Pick(s)} \in SUBSET S /\ Cardinality(s \ {Pick(s)}) = n  BY <1>1, <2>1
  <2> QED BY <1>3, <2>1, <2>2
<1>4. Cardinality(S) \in Nat  BY FS_CardinalityType
<1>5. Cardinality(S) \in Upto
  <2> HIDE DEF Upto
  <2> QED BY <1>2, <1>3, <1>4, NatAll
<1> QED BY <1>5

\* A sum of naturals is one.
LEMMA TotalType ==
  ASSUME NEW S, IsFiniteSet(S), NEW f \in [S -> Nat]
  PROVE  Total(f) \in Nat
<1>1. PICK g : Totals(g, f, S)
  BY TotalTable
<1> DEFINE T == {s \in SUBSET S : g[s] \in Nat}
<1>2. {} \in T  BY <1>1 DEF Totals
<1>3. ASSUME NEW s \in SUBSET S, s # {}, s \ {Pick(s)} \in T PROVE s \in T
  <2>1. Pick(s) \in s  BY <1>3 DEF Pick
  <2>2. f[Pick(s)] \in Nat  BY <2>1
  <2>3. g[s \ {Pick(s)}] \in Nat  BY <1>3
  <2> HIDE DEF T
  <2>4. f[Pick(s)] + g[s \ {Pick(s)}] \in Nat  BY <2>2, <2>3
  <2>5. g[s] \in Nat  BY <1>1, <1>3, <2>4 DEF Totals
  <2> QED BY <2>5 DEF T
<1>4. S \in T
  <2> HIDE DEF T
  <2> QED BY <1>2, <1>3, SubsetsAll
<1> QED BY <1>1, <1>4 DEF Totals

\* A sum of zeros is zero.
LEMMA TotalZero ==
  ASSUME NEW S, IsFiniteSet(S), NEW f \in [S -> Nat], \A x \in S : f[x] = 0
  PROVE  Total(f) = 0
<1>1. PICK g : Totals(g, f, S)
  BY TotalTable
<1> DEFINE T == {s \in SUBSET S : g[s] = 0}
<1>2. {} \in T  BY <1>1 DEF Totals
<1>3. ASSUME NEW s \in SUBSET S, s # {}, s \ {Pick(s)} \in T PROVE s \in T
  <2>1. Pick(s) \in s  BY <1>3 DEF Pick
  <2>2. f[Pick(s)] = 0 /\ g[s \ {Pick(s)}] = 0  BY <1>3, <2>1
  <2>3. g[s] = 0  BY <1>1, <1>3, <2>2 DEF Totals
  <2> QED BY <2>3
<1>4. S \in T
  <2> HIDE DEF T
  <2> QED BY <1>2, <1>3, SubsetsAll
<1> QED BY <1>1, <1>4 DEF Totals

\* One more in one place is one more in the sum.
LEMMA TotalOneMore ==
  ASSUME NEW S, IsFiniteSet(S), NEW f \in [S -> Nat], NEW t \in S,
         NEW h \in [S -> Nat], h = [f EXCEPT ![t] = @ + 1]
  PROVE  Total(h) = Total(f) + 1
<1>0. h[t] = f[t] + 1 /\ \A x \in S : x # t => h[x] = f[x]  OBVIOUS
<1>1. PICK g : Totals(g, f, S)
  BY TotalTable
<1>2. PICK k : Totals(k, h, S)
  BY TotalTable
<1> DEFINE T == {s \in SUBSET S : g[s] \in Nat /\ k[s] = IF t \in s THEN g[s] + 1 ELSE g[s]}
<1>3. {} \in T  BY <1>1, <1>2 DEF Totals
<1>4. ASSUME NEW s \in SUBSET S, s # {}, s \ {Pick(s)} \in T PROVE s \in T
  <2> DEFINE x == Pick(s)
             r == s \ {x}
  <2>1. x \in s /\ x \in S  BY <1>4 DEF Pick
  <2>2. f[x] \in Nat /\ h[x] = IF x = t THEN f[x] + 1 ELSE f[x]  BY <1>0, <2>1
  <2>3. g[s] = f[x] + g[r] /\ k[s] = h[x] + k[r]  BY <1>1, <1>2, <1>4 DEF Totals
  <2>4. g[r] \in Nat /\ k[r] = IF t \in r THEN g[r] + 1 ELSE g[r]  BY <1>4
  <2>5. t \in r <=> t \in s /\ t # x  OBVIOUS
  <2> HIDE DEF x, r
  <2>6. g[s] \in Nat  BY <2>2, <2>3, <2>4
  <2>7. k[s] = IF t \in s THEN g[s] + 1 ELSE g[s]
    <3>1. CASE t \in r  BY <2>2, <2>3, <2>4, <2>5, <3>1
    <3>2. CASE t \notin r /\ t = x  BY <2>1, <2>2, <2>3, <2>4, <2>5, <3>2
    <3>3. CASE t \notin r /\ t # x  BY <2>2, <2>3, <2>4, <2>5, <3>3
    <3> QED BY <3>1, <3>2, <3>3
  <2> QED BY <2>6, <2>7
<1>5. S \in T
  <2> HIDE DEF T
  <2> QED BY <1>3, <1>4, SubsetsAll
<1> QED BY <1>1, <1>2, <1>5 DEF Totals

\* What rises at each place rises by at least one a place.
LEMMA Climbs ==
  ASSUME NEW n \in Nat, NEW f, \A i \in 1 .. n : f[i] \in Int,
         \A i, j \in 1 .. n : i < j => f[i] < f[j]
  PROVE  \A i, j \in 1 .. n : i <= j => j - i <= f[j] - f[i]
<1> DEFINE T == {d \in Nat : \A i \in 1 .. n : i + d \in 1 .. n => f[i] + d <= f[i + d]}
<1>1. 0 \in T  OBVIOUS
<1>2. ASSUME NEW d \in Nat, d \in T PROVE d + 1 \in T
  <2> SUFFICES ASSUME NEW i \in 1 .. n, i + (d + 1) \in 1 .. n
               PROVE  f[i] + (d + 1) <= f[i + (d + 1)]
    OBVIOUS
  <2>1. i + d \in 1 .. n /\ i + d < i + (d + 1)  OBVIOUS
  <2>2. f[i] + d <= f[i + d]  BY <1>2, <2>1
  <2>3. f[i + d] < f[i + (d + 1)]  BY <2>1
  <2>4. f[i] \in Int /\ f[i + d] \in Int /\ f[i + (d + 1)] \in Int  BY <2>1
  <2> HIDE DEF T
  <2> QED BY <2>2, <2>3, <2>4
<1>3. Nat \subseteq T
  <2> HIDE DEF T
  <2> QED BY <1>1, <1>2, NatAll
<1>4. ASSUME NEW i \in 1 .. n, NEW j \in 1 .. n, i <= j PROVE j - i <= f[j] - f[i]
  <2> DEFINE d == j - i
  <2>1. d \in Nat /\ i + d = j  BY <1>4
  <2>2. f[i] + d <= f[i + d]  BY <1>3, <2>1
  <2> QED BY <2>1, <2>2
<1> QED BY <1>4
=============================================================================
