--------------------------- MODULE Stores_proofs ---------------------------
(***************************************************************************)
(* The parts of the agent host that store something keep their types and their invariants,  *)
(* each as a specification of its own; and so does the host, whose runs are runs of each     *)
(* of its parts.                                                             *)
(***************************************************************************)
EXTENDS MCHost, Host_proofs, Recursions_proofs, FiniteSetTheorems, FunctionTheorems,
  SequenceTheorems, TLAPS

-----------------------------------------------------------------------------
(***************************************************************************)
(* The JSON stores of the host (ListStore).                                *)
(***************************************************************************)
\* No two items of a list have one number.
Apart(s) == \A i, j \in 1 .. Len(s) : s[i].id = s[j].id => i = j

\* A list of items as the store may hold it.
IsList(s) == s \in Seq(Item) /\ Apart(s) /\ Ids(s) \subseteq 1 .. added

StoreInv ==
  /\ StoreTypeOK /\ IsList(memory) /\ IsList(file)
  /\ ~slipped /\ ~overfull =>
       /\ Ids(memory) = (1 .. added) \ removed
       /\ Ids(file) \subseteq Ids(memory)
       /\ ~unwritten => file = memory

-----------------------------------------------------------------------------
LEMMA StoreConstants == StoreCap \in Nat \ {0} /\ MaxItems \in Nat
BY StoreAssumption

LEMMA Bounded ==
  ASSUME NEW s
  PROVE  s \in BoundedSeq(Item, StoreCap) <=> s \in Seq(Item) /\ Len(s) <= StoreCap
<1>1. ASSUME s \in BoundedSeq(Item, StoreCap) PROVE s \in Seq(Item) /\ Len(s) <= StoreCap
  <2>1. PICK m \in 0 .. StoreCap : s \in [1 .. m -> Item]  BY <1>1 DEF BoundedSeq, SeqOf
  <2>2. m \in Nat  BY <2>1, StoreConstants
  <2>3. s \in Seq(Item) /\ Len(s) = m  BY <2>1, <2>2
  <2> QED BY <2>1, <2>3
<1>2. ASSUME s \in Seq(Item), Len(s) <= StoreCap PROVE s \in BoundedSeq(Item, StoreCap)
  <2>1. Len(s) \in 0 .. StoreCap /\ s \in [1 .. Len(s) -> Item]  BY <1>2, StoreConstants
  <2> QED BY <2>1 DEF BoundedSeq, SeqOf
<1> QED BY <1>1, <1>2

LEMMA ItemFacts ==
  ASSUME NEW s \in Seq(Item)
  PROVE  /\ Len(s) \in Nat /\ DOMAIN s = 1 .. Len(s)
         /\ \A i \in 1 .. Len(s) : s[i] \in Item /\ s[i].id \in 1 .. MaxItems
         /\ Ids(s) = {s[i].id : i \in 1 .. Len(s)} /\ Ids(s) \subseteq 1 .. MaxItems
<1>1. Len(s) \in Nat /\ DOMAIN s = 1 .. Len(s) /\ \A i \in 1 .. Len(s) : s[i] \in Item  OBVIOUS
<1>2. \A x \in Item : x.id \in 1 .. MaxItems  BY DEF Item
<1> QED BY <1>1, <1>2 DEF Ids

\* A list is as long as it has numbers.
LEMMA NumbersCount ==
  ASSUME NEW s \in Seq(Item), Apart(s)
  PROVE  IsFiniteSet(Ids(s)) /\ Cardinality(Ids(s)) = Len(s)
<1> DEFINE f == [i \in 1 .. Len(s) |-> s[i].id]
<1>1. Len(s) \in Nat /\ Ids(s) = {s[i].id : i \in 1 .. Len(s)}  BY ItemFacts
<1>2. f \in [1 .. Len(s) -> Ids(s)] /\ \A t \in Ids(s) : \E i \in 1 .. Len(s) : f[i] = t
  BY <1>1
<1>3. \A i, j \in 1 .. Len(s) : f[i] = f[j] => i = j  BY DEF Apart
<1> HIDE DEF f
<1>4. f \in Bijection(1 .. Len(s), Ids(s))  BY <1>2, <1>3, Fun_IsBij
<1>5. ExistsBijection(1 .. Len(s), Ids(s))  BY <1>4 DEF ExistsBijection
<1>6. IsFiniteSet(1 .. Len(s)) /\ Cardinality(1 .. Len(s)) = Len(s)  BY <1>1, FS_Interval
<1> QED BY <1>5, <1>6, FS_Bijection

\* The cap keeps the end of a list.
LEMMA CappedFacts ==
  ASSUME NEW s \in Seq(Item), Apart(s)
  PROVE  /\ Capped(s) \in Seq(Item) /\ Apart(Capped(s)) /\ Len(Capped(s)) <= StoreCap
         /\ Ids(Capped(s)) \subseteq Ids(s)
         /\ Len(s) <= StoreCap => Capped(s) = s
<1>0. Len(s) \in Nat /\ StoreCap \in Nat \ {0}  BY ItemFacts, StoreConstants
<1>1. CASE Len(s) <= StoreCap
  <2>1. Capped(s) = s  BY <1>0, <1>1 DEF Capped
  <2> QED BY <1>1, <2>1
<1>2. CASE Len(s) > StoreCap
  <2> DEFINE d == Len(s) - StoreCap
             r == SubSeq(s, d + 1, Len(s))
  <2>1. d \in Nat /\ d + StoreCap = Len(s) /\ r = Capped(s)  BY <1>0, <1>2 DEF Capped
  <2>2. r = [i \in 1 .. StoreCap |-> s[i + d]]  BY <1>0, <2>1
  <2>3. \A i \in 1 .. StoreCap : i + d \in 1 .. Len(s) /\ s[i + d] \in Item
    <3> HIDE DEF d
    <3> TAKE i \in 1 .. StoreCap
    <3>1. i + d \in 1 .. Len(s)  BY <1>0, <2>1
    <3> QED BY <3>1, ItemFacts
  <2> HIDE DEF r, d
  <2>4. r \in [1 .. StoreCap -> Item] /\ \A i \in 1 .. StoreCap : r[i] = s[i + d]  BY <2>2, <2>3
  <2>5. r \in Seq(Item) /\ Len(r) = StoreCap  BY <1>0, <2>4
  <2>6. Apart(r)
    <3> SUFFICES ASSUME NEW i \in 1 .. StoreCap, NEW j \in 1 .. StoreCap,
          r[i].id = r[j].id PROVE i = j
      BY <2>5 DEF Apart
    <3>1. i + d = j + d  BY <2>3, <2>4 DEF Apart
    <3> QED BY <1>0, <2>1, <3>1
  <2>7. Ids(r) \subseteq Ids(s)
    <3>1. Ids(r) = {r[i].id : i \in 1 .. StoreCap}  BY <2>5, ItemFacts
    <3>2. Ids(s) = {s[i].id : i \in 1 .. Len(s)}  BY ItemFacts
    <3> QED BY <2>3, <2>4, <3>1, <3>2
  <2> QED BY <1>0, <1>2, <2>1, <2>5, <2>6, <2>7
<1> QED BY <1>0, <1>1, <1>2

\* What is left of a list without the items of some numbers.
LEMMA WithoutFacts ==
  ASSUME NEW s \in Seq(Item), Apart(s), NEW G,
         NEW r, r = Sift(s, {x \in Item : x.id \notin G})
  PROVE  /\ r \in Seq(Item) /\ Apart(r) /\ Len(r) <= Len(s) /\ Ids(r) = Ids(s) \ G
<1> DEFINE S == {x \in Item : x.id \notin G}
<1>0. r = Sift(s, S) /\ \A x \in Item : x \in S <=> x.id \notin G  OBVIOUS
<1>a. s \in Seq(Item)  OBVIOUS
<1>b. r = Sift(s, S)  BY <1>0
<1> HIDE DEF S
<1>1. r \in Seq(Item \cap S) /\ Len(r) <= Len(s)  BY <1>0, SiftType
<1>2. /\ \A k \in 1 .. Len(r) : r[k] \in S /\ \E i \in 1 .. Len(s) : r[k] = s[i]
      /\ \A i \in 1 .. Len(s) : s[i] \in S => \E k \in 1 .. Len(r) : r[k] = s[i]
  BY ONLY <1>a, <1>b, SiftKeeps
<1>3. \A k, l \in 1 .. Len(r) : k < l =>
        \E i, j \in 1 .. Len(s) : i < j /\ r[k] = s[i] /\ r[l] = s[j]
  BY ONLY <1>a, <1>b, SiftOrder
<1>4. r \in Seq(Item)  BY <1>1
<1>5. ASSUME NEW k \in 1 .. Len(r), NEW l \in 1 .. Len(r), k < l PROVE r[k].id # r[l].id
  <2>1. PICK i \in 1 .. Len(s), j \in 1 .. Len(s) : i < j /\ r[k] = s[i] /\ r[l] = s[j]
    BY <1>3, <1>5
  <2> QED BY <2>1 DEF Apart
<1>6. Apart(r)
  <2> SUFFICES ASSUME NEW k \in 1 .. Len(r), NEW l \in 1 .. Len(r), r[k].id = r[l].id, k # l
               PROVE  FALSE
    BY DEF Apart
  <2>1. k < l \/ l < k  OBVIOUS
  <2> QED BY <1>5, <2>1
<1>7. Ids(r) = {r[k].id : k \in 1 .. Len(r)} /\ Ids(s) = {s[i].id : i \in 1 .. Len(s)}
  BY <1>4, ItemFacts
<1>8. ASSUME NEW n \in Ids(s), n \notin G PROVE n \in Ids(r)
  <2>1. PICK i \in 1 .. Len(s) : s[i].id = n  BY <1>7
  <2>2. s[i] \in S  BY <1>0, <1>8, <2>1, ItemFacts
  <2> QED BY <1>2, <1>7, <2>1, <2>2
<1>9. ASSUME NEW n \in Ids(r) PROVE n \in Ids(s) /\ n \notin G
  <2>1. PICK k \in 1 .. Len(r) : r[k].id = n  BY <1>7
  <2>2. r[k] \in S  BY <1>2
  <2>3. PICK i \in 1 .. Len(s) : r[k] = s[i]  BY <1>2
  <2>4. r[k].id \notin G  BY <1>0, <2>2, <2>3, ItemFacts
  <2> QED BY <1>7, <2>1, <2>3, <2>4
<1> QED BY <1>1, <1>4, <1>6, <1>8, <1>9

\* A list and another behind it that has none of its numbers.
LEMMA BehindFacts ==
  ASSUME NEW s \in Seq(Item), NEW b \in Seq(Item), Apart(s), Apart(b), Ids(s) \cap Ids(b) = {}
  PROVE  /\ s \o b \in Seq(Item) /\ Apart(s \o b) /\ Ids(s \o b) = Ids(s) \cup Ids(b)
<1> DEFINE r == s \o b
           n == Len(s)
<1>1. n \in Nat /\ Len(b) \in Nat  BY ItemFacts
<1>2. /\ r \in Seq(Item) /\ Len(r) = n + Len(b)
      /\ \A i \in 1 .. n : r[i] = s[i]
      /\ \A i \in n + 1 .. n + Len(b) : r[i] = b[i - n]
  BY <1>1
<1>3. /\ Ids(s) = {s[i].id : i \in 1 .. n} /\ Ids(b) = {b[i].id : i \in 1 .. Len(b)}
      /\ Ids(r) = {r[i].id : i \in 1 .. Len(r)}
  BY <1>2, ItemFacts
<1> HIDE DEF r, n
<1>4. ASSUME NEW i \in 1 .. Len(r)
      PROVE  \/ i \in 1 .. n /\ r[i] = s[i] /\ r[i].id \in Ids(s)
             \/ i - n \in 1 .. Len(b) /\ r[i] = b[i - n] /\ r[i].id \in Ids(b)
  <2>1. i \in 1 .. n \/ (i \in n + 1 .. n + Len(b) /\ i - n \in 1 .. Len(b))  BY <1>1, <1>2
  <2> QED BY <1>2, <1>3, <2>1
<1>5. Apart(r)
  <2> SUFFICES ASSUME NEW i \in 1 .. Len(r), NEW j \in 1 .. Len(r), r[i].id = r[j].id PROVE i = j
    BY DEF Apart
  <2>1. CASE i \in 1 .. n /\ r[i] = s[i] /\ r[i].id \in Ids(s)
    <3>1. j \in 1 .. n /\ r[j] = s[j]  BY <1>4, <2>1
    <3> QED BY <2>1, <3>1 DEF Apart, n
  <2>2. CASE i - n \in 1 .. Len(b) /\ r[i] = b[i - n] /\ r[i].id \in Ids(b)
    <3>1. j - n \in 1 .. Len(b) /\ r[j] = b[j - n]  BY <1>4, <2>2
    <3>2. i - n = j - n  BY <2>2, <3>1 DEF Apart
    <3> QED BY <1>1, <1>2, <3>2
  <2> QED BY <1>4, <2>1, <2>2
<1>6. Ids(r) \subseteq Ids(s) \cup Ids(b)  BY <1>3, <1>4
<1>7. Ids(s) \subseteq Ids(r)
  <2>1. \A i \in 1 .. n : i \in 1 .. Len(r)  BY <1>1, <1>2
  <2> QED BY <1>2, <1>3, <2>1
<1>8. Ids(b) \subseteq Ids(r)
  <2> SUFFICES ASSUME NEW i \in 1 .. Len(b) PROVE b[i].id \in Ids(r)  BY <1>3
  <2>1. i + n \in n + 1 .. n + Len(b) /\ i + n \in 1 .. Len(r) /\ (i + n) - n = i  BY <1>1, <1>2
  <2> QED BY <1>2, <1>3, <2>1
<1> QED BY <1>2, <1>5, <1>6, <1>7, <1>8 DEF r

LEMMA StoreTypes ==
  ASSUME StoreInv
  PROVE  /\ memory \in Seq(Item) /\ Len(memory) <= StoreCap /\ Len(memory) \in Nat /\ Apart(memory)
         /\ file \in Seq(Item) /\ Len(file) <= StoreCap /\ Apart(file)
         /\ Ids(memory) \subseteq 1 .. added /\ Ids(file) \subseteq 1 .. added
         /\ added \in Nat /\ added <= MaxItems /\ removed \subseteq 1 .. added
<1>1. memory \in BoundedSeq(Item, StoreCap) /\ file \in BoundedSeq(Item, StoreCap)
  BY DEF StoreInv, StoreTypeOK
<1>2. /\ memory \in Seq(Item) /\ Len(memory) <= StoreCap
      /\ file \in Seq(Item) /\ Len(file) <= StoreCap
  BY <1>1, Bounded
<1>3. added \in Nat /\ added <= MaxItems  BY StoreConstants DEF StoreInv, StoreTypeOK
<1> QED BY <1>2, <1>3, ItemFacts DEF StoreInv, StoreTypeOK, IsList

LEMMA StoreBegins == StoreInit => StoreInv
<1> SUFFICES ASSUME StoreInit PROVE StoreInv  OBVIOUS
<1>1. memory = <<>> /\ file = <<>> /\ added = 0 /\ removed = {}  BY DEF StoreInit
<1>2. <<>> \in Seq(Item) /\ Len(<<>>) = 0  OBVIOUS
<1>3. Ids(memory) = {} /\ Ids(file) = {} /\ Apart(memory) /\ Apart(file)
  BY <1>1, <1>2 DEF Ids, Apart
<1>4. <<>> \in BoundedSeq(Item, StoreCap)
  <2> DEFINE s == <<>>
  <2>1. s \in Seq(Item) /\ Len(s) <= StoreCap  BY <1>2, StoreConstants
  <2> HIDE DEF s
  <2>2. s \in BoundedSeq(Item, StoreCap)  BY ONLY <2>1, Bounded
  <2> QED BY <2>2 DEF s
<1>5. StoreTypeOK
  <2>1. added \in 0 .. MaxItems /\ removed \subseteq 1 .. added  BY <1>1, StoreConstants
  <2> QED BY <1>1, <1>4, <2>1 DEF StoreInit, StoreTypeOK
<1> QED BY <1>1, <1>2, <1>3, <1>5 DEF StoreInv, IsList

\* What a save leaves: what fits is all that memory or the file had but what was purged.
LEMMA SaveLeaves ==
  ASSUME StoreInv, NEW items \in Seq(Item), Apart(items), NEW purged, Save(items, purged)
  PROVE  /\ memory' \in Seq(Item) /\ Len(memory') <= StoreCap /\ Apart(memory')
         /\ Ids(memory') \subseteq Ids(items) \cup Ids(file)
         /\ file' = memory' /\ unwritten' = FALSE
         /\ \A X : /\ IsFiniteSet(X) /\ Cardinality(X) <= StoreCap
                   /\ Ids(items) \cup Ids(file) \subseteq X
                   => Ids(memory') = (Ids(items) \cup Ids(file)) \ purged
<1> DEFINE G == Ids(items)
           back == Sift(file, {x \in Item : x.id \notin G})
           all == items \o back
<1>1. file \in Seq(Item) /\ Apart(file) /\ StoreCap \in Nat  BY StoreTypes, StoreConstants
<1>2. /\ memory' = Sift(Merged(items), {x \in Item : x.id \notin purged})
      /\ file' = memory' /\ unwritten' = FALSE
      /\ Merged(items) = Capped(all)
  BY DEF Save, Merged
<1>3. back \in Seq(Item) /\ Apart(back) /\ Ids(back) = Ids(file) \ G
  <2> HIDE DEF G
  <2> QED BY <1>1, WithoutFacts
<1> HIDE DEF back
<1>4. all \in Seq(Item) /\ Apart(all) /\ Ids(all) = Ids(items) \cup Ids(file)
  <2>1. Ids(items) \cap Ids(back) = {}  BY <1>3
  <2>2. all \in Seq(Item) /\ Apart(all) /\ Ids(all) = Ids(items) \cup Ids(back)
    BY <1>3, <2>1, BehindFacts
  <2> QED BY <1>3, <2>2
<1> HIDE DEF all
<1> DEFINE merged == Merged(items)
<1>5. /\ merged \in Seq(Item) /\ Apart(merged) /\ Len(merged) <= StoreCap
      /\ Ids(merged) \subseteq Ids(all)
      /\ Len(all) <= StoreCap => merged = all
  BY <1>2, <1>4, CappedFacts
<1>6. memory' = Sift(merged, {x \in Item : x.id \notin purged})  BY <1>2
<1> HIDE DEF merged
<1>7. /\ memory' \in Seq(Item) /\ Apart(memory') /\ Len(memory') <= Len(merged)
      /\ Ids(memory') = Ids(merged) \ purged
  BY <1>5, <1>6, WithoutFacts
<1>8. Len(memory') <= StoreCap
  BY <1>1, <1>5, <1>7, ItemFacts
<1>9. ASSUME NEW X, IsFiniteSet(X), Cardinality(X) <= StoreCap,
        Ids(items) \cup Ids(file) \subseteq X
      PROVE  Ids(memory') = (Ids(items) \cup Ids(file)) \ purged
  <2>1. IsFiniteSet(Ids(all)) /\ Cardinality(Ids(all)) = Len(all)  BY <1>4, NumbersCount
  <2>2. Cardinality(Ids(all)) <= Cardinality(X)  BY <1>4, <1>9, FS_Subset
  <2>3. Cardinality(X) \in Nat /\ Len(all) \in Nat  BY <1>4, <1>9, FS_CardinalityType, ItemFacts
  <2>4. Len(all) <= StoreCap  BY <1>1, <1>9, <2>1, <2>2, <2>3
  <2> QED BY <1>4, <1>5, <1>7, <2>4
<1> QED BY <1>2, <1>4, <1>5, <1>7, <1>8, <1>9

\* Whether it could be saved or not, memory and file are lists.
LEMMA ListsStay ==
  ASSUME StoreInv, NEW items \in Seq(Item), Apart(items), Len(items) <= StoreCap, NEW purged,
         Save(items, purged) \/ SaveFails(items),
         Ids(items) \subseteq 1 .. added', added \in Nat, added' \in Nat, added <= added'
  PROVE  /\ memory' \in BoundedSeq(Item, StoreCap) /\ file' \in BoundedSeq(Item, StoreCap)
         /\ IsList(memory)' /\ IsList(file)' /\ unwritten' \in BOOLEAN
         /\ Ids(memory') \subseteq Ids(items) \cup Ids(file)
         /\ ~unwritten' => file' = memory'
<1>1. /\ file \in Seq(Item) /\ Apart(file) /\ Len(file) <= StoreCap
           /\ Ids(file) \subseteq 1 .. added'
  <2>1. \A n \in 1 .. added : n \in 1 .. added'  OBVIOUS
  <2> QED BY <2>1, StoreTypes
<1>2. CASE Save(items, purged)
  <2>1. /\ memory' \in Seq(Item) /\ Len(memory') <= StoreCap /\ Apart(memory')
        /\ Ids(memory') \subseteq Ids(items) \cup Ids(file)
        /\ file' = memory' /\ unwritten' = FALSE
    BY <1>2, SaveLeaves
  <2>2. memory' \in BoundedSeq(Item, StoreCap)  BY <2>1, Bounded
  <2>3. Ids(memory') \subseteq 1 .. added'  BY <1>1, <2>1
  <2> QED BY <2>1, <2>2, <2>3 DEF IsList, Apart, Ids
<1>3. CASE SaveFails(items)
  <2>1. memory' = items /\ file' = file /\ unwritten' = TRUE  BY <1>3 DEF SaveFails
  <2>2. memory' \in BoundedSeq(Item, StoreCap) /\ file' \in BoundedSeq(Item, StoreCap)
    BY <1>1, <2>1, Bounded
  <2> QED BY <1>1, <2>1, <2>2 DEF IsList, Apart, Ids
<1> QED BY <1>2, <1>3

LEMMA ItemIsAdded ==
  ASSUME StoreInv, AddItem
  PROVE  StoreInv'
<1> DEFINE new == [id |-> added + 1, open |-> TRUE]
           more == Append(memory, new)
           items == Capped(more)
<1>1. /\ added < MaxItems /\ added' = added + 1
      /\ overfull' = (overfull \/ Len(memory) >= StoreCap)
      /\ removed' = removed /\ slipped' = slipped
      /\ Save(items, {}) \/ SaveFails(items)
  BY DEF AddItem
<1>2. /\ memory \in Seq(Item) /\ Len(memory) \in Nat /\ Len(memory) <= StoreCap /\ Apart(memory)
      /\ Ids(memory) \subseteq 1 .. added /\ Ids(file) \subseteq 1 .. added
      /\ added \in Nat /\ StoreCap \in Nat \ {0} /\ MaxItems \in Nat /\ added <= MaxItems
      /\ removed \subseteq 1 .. added
  BY StoreTypes, StoreConstants
<1>3. new \in Item /\ new.id = added + 1  BY <1>1, <1>2 DEF Item
<1> HIDE DEF new
<1>4. /\ more \in Seq(Item) /\ Len(more) = Len(memory) + 1 /\ more[Len(memory) + 1] = new
      /\ \A i \in 1 .. Len(memory) : more[i] = memory[i]
  BY <1>2, <1>3
<1> HIDE DEF more
<1>5. Ids(memory) = {memory[i].id : i \in 1 .. Len(memory)}
        /\ Ids(more) = {more[i].id : i \in 1 .. Len(more)}
  BY <1>2, <1>4, ItemFacts
<1>6. ASSUME NEW i \in 1 .. Len(more)
      PROVE  \/ i \in 1 .. Len(memory) /\ more[i] = memory[i] /\ more[i].id \in 1 .. added
             \/ i = Len(memory) + 1 /\ more[i].id = added + 1
  <2>1. i \in 1 .. Len(memory) \/ i = Len(memory) + 1  BY <1>2, <1>4
  <2> QED BY <1>2, <1>3, <1>4, <1>5, <2>1
<1>7. Apart(more)
  <2> SUFFICES ASSUME NEW i \in 1 .. Len(more), NEW j \in 1 .. Len(more), more[i].id = more[j].id
               PROVE  i = j
    BY DEF Apart
  <2>1. added + 1 \notin 1 .. added  BY <1>2
  <2> QED BY <1>2, <1>6, <2>1 DEF Apart
<1>8. Ids(more) = Ids(memory) \cup {added + 1}
  <2>1. Ids(more) \subseteq Ids(memory) \cup {added + 1}  BY <1>5, <1>6
  <2>2. Len(memory) + 1 \in 1 .. Len(more) /\ \A i \in 1 .. Len(memory) : i \in 1 .. Len(more)
    BY <1>2, <1>4
  <2> QED BY <1>3, <1>4, <1>5, <2>1, <2>2
<1>9. /\ items \in Seq(Item) /\ Apart(items) /\ Len(items) <= StoreCap
      /\ Ids(items) \subseteq Ids(more)
      /\ Len(more) <= StoreCap => items = more
  BY <1>4, <1>7, CappedFacts
<1> HIDE DEF items
<1>10. Ids(items) \subseteq 1 .. added'  BY <1>1, <1>2, <1>8, <1>9
<1>11. /\ memory' \in BoundedSeq(Item, StoreCap) /\ file' \in BoundedSeq(Item, StoreCap)
       /\ IsList(memory)' /\ IsList(file)' /\ unwritten' \in BOOLEAN
       /\ ~unwritten' => file' = memory'
  BY <1>1, <1>2, <1>9, <1>10, ListsStay
<1>12. StoreTypeOK'
  <2>1. added' \in 0 .. MaxItems /\ removed' \subseteq 1 .. added'  BY <1>1, <1>2
  <2> QED BY <1>1, <1>11, <2>1 DEF StoreInv, StoreTypeOK
<1>13. ASSUME ~slipped', ~overfull'
       PROVE  Ids(memory') = (1 .. added') \ removed' /\ Ids(file') \subseteq Ids(memory')
  <2>1. /\ Ids(memory) = (1 .. added) \ removed /\ Ids(file) \subseteq Ids(memory)
        /\ Len(memory) + 1 <= StoreCap
    <3>1. ~(Len(memory) >= StoreCap) /\ ~overfull /\ ~slipped  BY <1>1, <1>13
    <3>2. Len(memory) + 1 <= StoreCap  BY <1>2, <3>1
    <3> QED BY <3>1, <3>2 DEF StoreInv
  <2>2. items = more /\ Ids(items) = (1 .. added') \ removed'
    BY <1>1, <1>2, <1>4, <1>8, <1>9, <2>1
  <2>3. Ids(file) \subseteq Ids(items)  BY <1>8, <2>1, <2>2
  <2>4. CASE Save(items, {})
    <3>1. IsFiniteSet(Ids(items)) /\ Cardinality(Ids(items)) <= StoreCap
      BY <1>4, <1>7, <2>1, <2>2, NumbersCount
    <3>2. Ids(items) \cup Ids(file) \subseteq Ids(items)  BY <2>3
    <3>3. Ids(memory') = (Ids(items) \cup Ids(file)) \ {} /\ file' = memory'
      BY <1>9, <2>4, <3>1, <3>2, SaveLeaves
    <3> QED BY <2>2, <2>3, <3>3
  <2>5. CASE SaveFails(items)
    <3>1. memory' = items /\ file' = file  BY <2>5 DEF SaveFails
    <3> QED BY <2>2, <2>3, <3>1
  <2> QED BY <1>1, <2>4, <2>5
<1>14. Ids(memory)' = Ids(memory') /\ Ids(file)' = Ids(file')  BY DEF Ids
<1> QED BY <1>11, <1>12, <1>13, <1>14 DEF StoreInv

LEMMA ItemIsClosed ==
  ASSUME StoreInv, NEW k \in DOMAIN memory, CloseItem(k)
  PROVE  StoreInv'
<1> DEFINE item == [memory[k] EXCEPT !.open = FALSE]
           items == [memory EXCEPT ![k] = item]
<1>1. /\ Save(items, {}) \/ SaveFails(items)
      /\ added' = added /\ removed' = removed /\ slipped' = slipped /\ overfull' = overfull
  BY DEF CloseItem
<1>2. /\ memory \in Seq(Item) /\ Len(memory) \in Nat /\ Len(memory) <= StoreCap /\ Apart(memory)
      /\ Ids(memory) \subseteq 1 .. added /\ Ids(file) \subseteq 1 .. added
      /\ added \in Nat /\ k \in 1 .. Len(memory) /\ memory[k] \in Item
  BY StoreTypes, ItemFacts
<1>3. item \in Item /\ item.id = memory[k].id  BY <1>2 DEF Item
<1> HIDE DEF item
<1>4. /\ items \in Seq(Item) /\ Len(items) = Len(memory)
      /\ \A i \in 1 .. Len(memory) : items[i] = IF i = k THEN item ELSE memory[i]
  BY <1>2, <1>3, ExceptSeq
<1> HIDE DEF items
<1>5. \A i \in 1 .. Len(memory) : items[i].id = memory[i].id  BY <1>3, <1>4
<1>6. Apart(items) /\ Ids(items) = Ids(memory)
  <2>1. Ids(memory) = {memory[i].id : i \in 1 .. Len(memory)}
        /\ Ids(items) = {items[i].id : i \in 1 .. Len(items)}
    BY <1>2, <1>4, ItemFacts
  <2> QED BY <1>2, <1>4, <1>5, <2>1 DEF Apart
<1>7. /\ memory' \in BoundedSeq(Item, StoreCap) /\ file' \in BoundedSeq(Item, StoreCap)
      /\ IsList(memory)' /\ IsList(file)' /\ unwritten' \in BOOLEAN
      /\ ~unwritten' => file' = memory'
  BY <1>1, <1>2, <1>4, <1>6, ListsStay
<1>8. StoreTypeOK'  BY <1>1, <1>7 DEF StoreInv, StoreTypeOK
<1>9. ASSUME ~slipped', ~overfull'
      PROVE  Ids(memory') = (1 .. added') \ removed' /\ Ids(file') \subseteq Ids(memory')
  <2>1. Ids(memory) = (1 .. added) \ removed /\ Ids(file) \subseteq Ids(memory)
    BY <1>1, <1>9 DEF StoreInv
  <2>2. CASE Save(items, {})
    <3>1. IsFiniteSet(Ids(items)) /\ Cardinality(Ids(items)) <= StoreCap
      BY <1>2, <1>4, <1>6, NumbersCount
    <3>2. Ids(items) \cup Ids(file) \subseteq Ids(items)  BY <1>6, <2>1
    <3>3. Ids(memory') = (Ids(items) \cup Ids(file)) \ {} /\ file' = memory'
      BY <1>4, <1>6, <2>2, <3>1, <3>2, SaveLeaves
    <3> QED BY <1>1, <1>6, <2>1, <3>3
  <2>3. CASE SaveFails(items)
    <3>1. memory' = items /\ file' = file  BY <2>3 DEF SaveFails
    <3> QED BY <1>1, <1>6, <2>1, <3>1
  <2> QED BY <1>1, <2>2, <2>3
<1>10. Ids(memory)' = Ids(memory') /\ Ids(file)' = Ids(file')  BY DEF Ids
<1> QED BY <1>7, <1>8, <1>9, <1>10 DEF StoreInv

LEMMA ItemsAreRemoved ==
  ASSUME StoreInv, NEW gone, gone \subseteq Ids(memory), RemoveItems(gone)
  PROVE  StoreInv'
<1> DEFINE items == Sift(memory, {x \in Item : x.id \notin gone})
<1>1. /\ Save(items, gone) \/ SaveFails(items)
      /\ slipped' = (slipped \/ unwritten') /\ removed' = removed \cup gone
      /\ added' = added /\ overfull' = overfull
  BY DEF RemoveItems
<1>2. /\ memory \in Seq(Item) /\ Len(memory) \in Nat /\ Len(memory) <= StoreCap /\ Apart(memory)
      /\ Ids(memory) \subseteq 1 .. added /\ Ids(file) \subseteq 1 .. added
      /\ added \in Nat /\ StoreCap \in Nat \ {0} /\ removed \subseteq 1 .. added
  BY StoreTypes, StoreConstants
<1>3. /\ items \in Seq(Item) /\ Apart(items) /\ Len(items) <= Len(memory)
      /\ Ids(items) = Ids(memory) \ gone
  BY <1>2, WithoutFacts
<1> HIDE DEF items
<1>4. Len(items) <= StoreCap /\ Ids(items) \subseteq 1 .. added'  BY <1>1, <1>2, <1>3, ItemFacts
<1>5. /\ memory' \in BoundedSeq(Item, StoreCap) /\ file' \in BoundedSeq(Item, StoreCap)
      /\ IsList(memory)' /\ IsList(file)' /\ unwritten' \in BOOLEAN
      /\ ~unwritten' => file' = memory'
  BY <1>1, <1>2, <1>3, <1>4, ListsStay
<1>6. StoreTypeOK'
  <2>1. removed' \subseteq 1 .. added' /\ slipped' \in BOOLEAN  BY <1>1, <1>2, <1>5
  <2> QED BY <1>1, <1>5, <2>1 DEF StoreInv, StoreTypeOK
<1>7. ASSUME ~slipped', ~overfull'
      PROVE  Ids(memory') = (1 .. added') \ removed' /\ Ids(file') \subseteq Ids(memory')
  <2>1. /\ Ids(memory) = (1 .. added) \ removed /\ Ids(file) \subseteq Ids(memory) /\ ~unwritten'
    BY <1>1, <1>7 DEF StoreInv
  <2>2. Save(items, gone)  BY <1>1, <2>1 DEF SaveFails
  <2>3. IsFiniteSet(Ids(memory)) /\ Cardinality(Ids(memory)) <= StoreCap
    BY <1>2, NumbersCount
  <2>4. Ids(items) \cup Ids(file) \subseteq Ids(memory)  BY <1>3, <2>1
  <2>5. Ids(memory') = (Ids(items) \cup Ids(file)) \ gone /\ file' = memory'
    BY <1>3, <2>2, <2>3, <2>4, SaveLeaves
  <2>6. (Ids(items) \cup Ids(file)) \ gone = Ids(memory) \ gone  BY <1>3, <2>1
  <2> QED BY <1>1, <2>1, <2>5, <2>6
<1>8. Ids(memory)' = Ids(memory') /\ Ids(file)' = Ids(file')  BY DEF Ids
<1> QED BY <1>5, <1>6, <1>7, <1>8 DEF StoreInv

LEMMA StoreIsLoaded ==
  ASSUME StoreInv, LoadStore
  PROVE  StoreInv'
<1>1. /\ file \in Seq(Item) /\ Apart(file) /\ Len(file) <= StoreCap
           /\ Ids(file) \subseteq 1 .. added
  BY StoreTypes
<1>2. /\ memory' = file /\ slipped' = (slipped \/ unwritten) /\ file' = file /\ added' = added
      /\ removed' = removed /\ unwritten' = unwritten /\ overfull' = overfull
  BY <1>1, CappedFacts DEF LoadStore
<1>3. IsList(memory)' /\ IsList(file)'  BY <1>1, <1>2 DEF IsList, Apart, Ids
<1>4. StoreTypeOK'  BY <1>2 DEF StoreInv, StoreTypeOK
<1>5. Ids(memory)' = Ids(file) /\ Ids(file)' = Ids(file)  BY <1>2 DEF Ids
<1>6. ~slipped' /\ ~overfull' => /\ Ids(file) = (1 .. added) \ removed /\ file' = memory'
  BY <1>2 DEF StoreInv
<1> QED BY <1>2, <1>3, <1>4, <1>5, <1>6 DEF StoreInv

LEMMA StoreStep == StoreInv /\ [StoreNext]_storeVars => StoreInv'
<1> SUFFICES ASSUME StoreInv, [StoreNext]_storeVars PROVE StoreInv'  OBVIOUS
<1>1. CASE UNCHANGED storeVars
  <2>1. /\ memory' = memory /\ file' = file /\ added' = added /\ removed' = removed
        /\ unwritten' = unwritten /\ slipped' = slipped /\ overfull' = overfull
    BY <1>1 DEF storeVars
  <2>2. StoreTypeOK'  BY <2>1 DEF StoreInv, StoreTypeOK
  <2>3. IsList(memory)' /\ IsList(file)'  BY <2>1 DEF StoreInv, IsList, Apart, Ids
  <2>4. Ids(memory)' = Ids(memory) /\ Ids(file)' = Ids(file)  BY <2>1 DEF Ids
  <2> QED BY <2>1, <2>2, <2>3, <2>4 DEF StoreInv
<1>2. ASSUME NEW id \in 1 .. MaxItems, RemoveItem(id) \/ TrimBefore(id) PROVE StoreInv'
  <2>1. PICK gone \in SUBSET Ids(memory) : RemoveItems(gone)  BY <1>2 DEF RemoveItem, TrimBefore
  <2> QED BY <2>1, ItemsAreRemoved
<1>3. CASE StoreNext
  BY <1>2, <1>3, ItemIsAdded, ItemIsClosed, StoreIsLoaded DEF StoreNext
<1> QED BY <1>1, <1>3

\* What the process holds of a list, the file, and the loads and saves under way keep their types
\* (_JsonListStore of proactive.py: watches, alerts, tickets, tasks).
THEOREM StoreTypesHold == StoreSpec => []StoreTypeOK
<1>1. StoreInv => StoreTypeOK  BY DEF StoreInv
<1> QED BY <1>1, StoreBegins, StoreStep, PTL DEF StoreSpec

\* A list store holds what was added and not removed, through the merge with its file, failed saves
\* and restarts, until it has been full, or a removal or a save was lost with the host.
THEOREM StoreKeepsItems == StoreSpec => []StoreHolds
<1>1. StoreInv => StoreHolds  BY DEF StoreInv, StoreHolds
<1> QED BY <1>1, StoreBegins, StoreStep, PTL DEF StoreSpec

-----------------------------------------------------------------------------
(***************************************************************************)
(* What the agents remember of a shopper (MemoryFacts).                    *)
(***************************************************************************)
HasWritten(w) == recall[w].at \in {"upserting", "clearing"}

\* Who writes has the lock and a copy of what the file has.
HasLock(w) == HasWritten(w) => memLock = w /\ recall[w].copy = Kept

\* What is being learned is of an exchange no purge has followed, or one no pass could see.
UpToDate(r, purges) ==
  /\ r.at \in {"turn", "upsert", "upserting"} => r.early \/ purges <= r.exchange
  /\ r.at = "model" => r.early \/ r.generation <= r.exchange

FactsUpToDate(content) ==
  \A k \in FactKeys :
    content.facts[k] # NoFact /\ content.facts[k].exchange < content.purges =>
      content.facts[k].early

MemoryInv ==
  /\ MemoryTypeOK
  /\ \A w \in Workers : HasLock(w)
  /\ ~tornOnce => /\ memFile = learned /\ FactsUpToDate(learned)
                  /\ \A w \in Workers : UpToDate(recall[w], learned.purges)

-----------------------------------------------------------------------------
LEMMA MemoryConstants ==
  /\ 0 \in 0 .. MaxPurges /\ NothingKept \in Content /\ NothingKept.purges = 0
  /\ \A k \in FactKeys : NothingKept.facts[k] = NoFact
  /\ AnyKey \in FactKeys /\ AnyValue \in FactValues
  /\ Torn \notin Content
<1>1. 0 \in 0 .. MaxPurges  BY MemoryAssumption
<1>2. /\ NothingKept \in Content /\ NothingKept.purges = 0
      /\ \A k \in FactKeys : NothingKept.facts[k] = NoFact
  BY <1>1 DEF NothingKept, Content
<1>3. AnyKey \in FactKeys /\ AnyValue \in FactValues  BY MemoryAssumption DEF AnyKey, AnyValue
<1>4. Torn \notin Content
  <2> SUFFICES ASSUME Torn \in Content PROVE FALSE  OBVIOUS
  <2>1. DOMAIN Torn = {"torn"}  BY DEF Torn
  <2>2. DOMAIN Torn = {"facts", "purges"}  BY DEF Content
  <2> QED BY <2>1, <2>2
<1> QED BY <1>1, <1>2, <1>3, <1>4

LEMMA MemoryBegins == MemoryInit => MemoryInv
<1> SUFFICES ASSUME MemoryInit PROVE MemoryInv  OBVIOUS
<1>1. \A w \in Workers : recall[w] = AtRest /\ AtRest.at = "rest"  BY DEF MemoryInit, AtRest
<1>2. MemoryTypeOK  BY MemoryConstants DEF MemoryInit, MemoryTypeOK
<1>3. \A w \in Workers : HasLock(w) /\ UpToDate(recall[w], learned.purges)
  BY <1>1 DEF HasLock, HasWritten, UpToDate
<1>4. memFile = learned /\ FactsUpToDate(learned)
  BY MemoryConstants DEF MemoryInit, FactsUpToDate
<1> QED BY <1>2, <1>3, <1>4 DEF MemoryInv

LEMMA MemoryFactTypes ==
  ASSUME MemoryInv
  PROVE  /\ Kept \in Content /\ learned \in Content /\ memLock \in Workers \cup {Free}
         /\ ~tornOnce => Kept = learned /\ memFile = learned
         /\ \A c \in Content :
              c.purges \in 0 .. MaxPurges /\ c.facts \in [FactKeys -> Fact \cup {NoFact}]
         /\ \A w \in Workers : recall[w] \in Busy \/ recall[w] = AtRest
<1>1. memFile \in Content \cup {Torn} /\ learned \in Content  BY DEF MemoryInv, MemoryTypeOK
<1>2. Kept \in Content  BY <1>1, MemoryConstants DEF Kept
<1>3. ~tornOnce => Kept = learned /\ memFile = learned  BY <1>1, MemoryConstants DEF MemoryInv, Kept
<1>4. \A c \in Content : c.purges \in 0 .. MaxPurges /\ c.facts \in [FactKeys -> Fact \cup {NoFact}]
  BY DEF Content
<1> QED BY <1>1, <1>2, <1>3, <1>4 DEF MemoryInv, MemoryTypeOK

\* A worker goes on and the file stays as it is.
LEMMA WorkerGoesOn ==
  ASSUME MemoryInv, NEW w \in Workers, NEW r \in Busy \cup {AtRest},
         recall' = [recall EXCEPT ![w] = r],
         memFile' = memFile, learned' = learned, tornOnce' = tornOnce,
         memLock' \in Workers \cup {Free}, \A o \in Workers : o # w /\ memLock = o => memLock' = o,
         r.at \in {"upserting", "clearing"} => memLock' = w /\ r.copy = Kept,
         ~tornOnce => UpToDate(r, learned.purges)
  PROVE  MemoryInv'
<1>1. /\ recall'[w] = r
      /\ \A o \in Workers : o # w => recall'[o] = recall[o]
      /\ recall' \in [Workers -> Busy \cup {AtRest}]
  BY DEF MemoryInv, MemoryTypeOK
<1>2. MemoryTypeOK'  BY <1>1 DEF MemoryInv, MemoryTypeOK
<1>3. Kept' = Kept  BY DEF Kept
<1>4. ASSUME NEW o \in Workers PROVE HasLock(o)'
  <2>1. CASE o = w  BY <1>1, <1>3, <2>1 DEF HasLock, HasWritten
  <2>2. CASE o # w
    <3>1. HasLock(o) /\ recall'[o] = recall[o]  BY <1>1, <2>2 DEF MemoryInv
    <3> QED BY <1>3, <2>2, <3>1 DEF HasLock, HasWritten
  <2> QED BY <2>1, <2>2
<1>5. ASSUME ~tornOnce'
      PROVE  /\ memFile' = learned' /\ FactsUpToDate(learned)'
             /\ \A o \in Workers : UpToDate(recall[o], learned.purges)'
  <2>1. memFile' = learned' /\ FactsUpToDate(learned)'  BY <1>5 DEF MemoryInv, FactsUpToDate
  <2>2. ASSUME NEW o \in Workers PROVE UpToDate(recall'[o], learned'.purges)
    <3>1. CASE o = w  BY <1>1, <1>5, <3>1
    <3>2. CASE o # w
      <4>1. UpToDate(recall[o], learned.purges)  BY <1>5 DEF MemoryInv
      <4> QED BY <1>1, <3>2, <4>1
    <3> QED BY <3>1, <3>2
  <2>3. \A o \in Workers : UpToDate(recall[o], learned.purges)'  BY <2>2 DEF UpToDate
  <2> QED BY <2>1, <2>3
<1> QED BY <1>2, <1>4, <1>5 DEF MemoryInv

LEMMA TurnBegins ==
  ASSUME MemoryInv, NEW w \in Workers, BeginTurn(w)
  PROVE  MemoryInv'
<1> DEFINE r == [at |-> "turn", exchange |-> learned.purges, early |-> FALSE, generation |-> 0,
                 key |-> AnyKey, value |-> AnyValue, copy |-> NothingKept]
<1>1. learned.purges \in 0 .. MaxPurges  BY MemoryFactTypes
<1>2. r \in Busy  BY <1>1, MemoryConstants DEF Busy
<1>3. UpToDate(r, learned.purges) /\ r.at = "turn"  BY <1>1 DEF UpToDate
<1>4. /\ recall' = [recall EXCEPT ![w] = r]
      /\ memFile' = memFile /\ learned' = learned /\ tornOnce' = tornOnce /\ memLock' = memLock
  BY DEF BeginTurn
<1> HIDE DEF r
<1> QED BY <1>2, <1>3, <1>4, WorkerGoesOn, MemoryFactTypes

LEMMA ForgetAsked ==
  ASSUME MemoryInv, NEW w \in Workers, AskForget(w)
  PROVE  MemoryInv'
<1> DEFINE r == [at |-> "clear", exchange |-> 0, early |-> FALSE, generation |-> 0,
                 key |-> AnyKey, value |-> AnyValue, copy |-> NothingKept]
<1>2. r \in Busy  BY MemoryConstants DEF Busy
<1>3. UpToDate(r, learned.purges) /\ r.at = "clear"  BY DEF UpToDate
<1>4. /\ recall' = [recall EXCEPT ![w] = r]
      /\ memFile' = memFile /\ learned' = learned /\ tornOnce' = tornOnce /\ memLock' = memLock
  BY DEF AskForget
<1> HIDE DEF r
<1> QED BY <1>2, <1>3, <1>4, WorkerGoesOn, MemoryFactTypes

LEMMA BusyNotAtRest ==
  ASSUME MemoryInv, NEW w \in Workers, recall[w].at # "rest"
  PROVE  recall[w] \in Busy
BY MemoryFactTypes DEF AtRest

LEMMA ToolSaves ==
  ASSUME MemoryInv, NEW w \in Workers, SaveTool(w)
  PROVE  MemoryInv'
<1>1. PICK k \in FactKeys, v \in FactValues :
        recall' = [recall EXCEPT ![w].at = "upsert", ![w].key = k, ![w].value = v]
  BY DEF SaveTool
<1> DEFINE r == [recall[w] EXCEPT !.at = "upsert", !.key = k, !.value = v]
<1>2. recall[w].at = "turn" /\ recall[w] \in Busy  BY BusyNotAtRest DEF SaveTool, IsAt
<1>3. /\ r \in Busy /\ r.at = "upsert"
      /\ r.early = recall[w].early /\ r.exchange = recall[w].exchange
  BY <1>2 DEF Busy
<1>4. ~tornOnce => UpToDate(r, learned.purges)
  <2>1. ~tornOnce => UpToDate(recall[w], learned.purges)  BY DEF MemoryInv
  <2> HIDE DEF r
  <2> QED BY <1>2, <1>3, <2>1 DEF UpToDate
<1>5. /\ recall' = [recall EXCEPT ![w] = r]
      /\ memFile' = memFile /\ learned' = learned /\ tornOnce' = tornOnce /\ memLock' = memLock
  BY <1>1 DEF SaveTool
<1> HIDE DEF r
<1> QED BY <1>3, <1>4, <1>5, WorkerGoesOn, MemoryFactTypes

\* What the pass compares is the generation of its start: an exchange of an earlier one is told.
LEMMA GenerationIsRead ==
  ASSUME MemoryInv, NEW w \in Workers, ReadGeneration(w)
  PROVE  MemoryInv'
<1> DEFINE r == [recall[w] EXCEPT !.at = "model", !.generation = Kept.purges]
<1>1. recall[w].at = "turn" /\ recall[w] \in Busy  BY BusyNotAtRest DEF ReadGeneration, IsAt
<1>2. Kept.purges \in 0 .. MaxPurges /\ (~tornOnce => Kept = learned)  BY MemoryFactTypes
<1>3. /\ r \in Busy /\ r.at = "model" /\ r.generation = Kept.purges
      /\ r.early = recall[w].early /\ r.exchange = recall[w].exchange
  BY <1>1, <1>2 DEF Busy
<1>4. ~tornOnce => UpToDate(r, learned.purges)
  <2>1. ~tornOnce => UpToDate(recall[w], learned.purges)  BY DEF MemoryInv
  <2> HIDE DEF r
  <2> QED BY <1>1, <1>2, <1>3, <2>1 DEF UpToDate
<1>5. /\ recall' = [recall EXCEPT ![w] = r]
      /\ memFile' = memFile /\ learned' = learned /\ tornOnce' = tornOnce /\ memLock' = memLock
  BY DEF ReadGeneration
<1> HIDE DEF r
<1> QED BY <1>3, <1>4, <1>5, WorkerGoesOn, MemoryFactTypes

LEMMA GenerationIsCompared ==
  ASSUME MemoryInv, NEW w \in Workers, CheckGeneration(w)
  PROVE  MemoryInv'
<1>1. PICK k \in FactKeys, v \in FactValues :
        recall' = [recall EXCEPT ![w].at = "upsert", ![w].key = k, ![w].value = v]
  BY DEF CheckGeneration
<1> DEFINE r == [recall[w] EXCEPT !.at = "upsert", !.key = k, !.value = v]
<1>2. /\ recall[w].at = "model" /\ recall[w] \in Busy /\ Kept.purges = recall[w].generation
      /\ ~tornOnce => Kept = learned
  BY BusyNotAtRest, MemoryFactTypes DEF CheckGeneration, IsAt
<1>3. /\ r \in Busy /\ r.at = "upsert"
      /\ r.early = recall[w].early /\ r.exchange = recall[w].exchange
  BY <1>2 DEF Busy
<1>4. ~tornOnce => UpToDate(r, learned.purges)
  <2>1. ~tornOnce => UpToDate(recall[w], learned.purges)  BY DEF MemoryInv
  <2> HIDE DEF r
  <2> QED BY <1>2, <1>3, <2>1 DEF UpToDate
<1>5. /\ recall' = [recall EXCEPT ![w] = r]
      /\ memFile' = memFile /\ learned' = learned /\ tornOnce' = tornOnce /\ memLock' = memLock
  BY <1>1 DEF CheckGeneration
<1> HIDE DEF r
<1> QED BY <1>3, <1>4, <1>5, WorkerGoesOn, MemoryFactTypes

LEMMA LockIsTaken ==
  ASSUME MemoryInv, NEW w \in Workers, LocksAndReads(w)
  PROVE  MemoryInv'
<1> DEFINE to == IF recall[w].at = "upsert" THEN "upserting" ELSE "clearing"
           r == [recall[w] EXCEPT !.at = to, !.copy = Kept]
<1>1. recall[w].at \in {"upsert", "clear"} /\ recall[w] \in Busy  BY BusyNotAtRest DEF LocksAndReads
<1>2. Kept \in Content  BY MemoryFactTypes
<1>3. /\ r \in Busy /\ r.at = to /\ r.copy = Kept
      /\ r.early = recall[w].early /\ r.exchange = recall[w].exchange
  BY <1>1, <1>2 DEF Busy
<1>4. ~tornOnce => UpToDate(r, learned.purges)
  <2>1. ~tornOnce => UpToDate(recall[w], learned.purges)  BY DEF MemoryInv
  <2> HIDE DEF r
  <2> QED BY <1>1, <1>3, <2>1 DEF UpToDate
<1>5. /\ recall' = [recall EXCEPT ![w] = r] /\ memLock' = w /\ memLock = Free /\ Free \notin Workers
      /\ memFile' = memFile /\ learned' = learned /\ tornOnce' = tornOnce
  BY MemoryAssumption DEF LocksAndReads
<1> HIDE DEF r
<1> QED BY <1>3, <1>4, <1>5, WorkerGoesOn

LEMMA WorkerGivesUp ==
  ASSUME MemoryInv, NEW w \in Workers, GivesUp(w)
  PROVE  MemoryInv'
<1>1. UpToDate(AtRest, learned.purges) /\ AtRest.at = "rest"  BY DEF UpToDate, AtRest
<1>2. /\ recall' = [recall EXCEPT ![w] = AtRest]
      /\ memFile' = memFile /\ learned' = learned /\ tornOnce' = tornOnce
      /\ memLock' = IF memLock = w THEN Free ELSE memLock
  BY DEF GivesUp
<1> QED BY <1>1, <1>2, WorkerGoesOn, MemoryFactTypes

\* Nobody else writes: the lock is one.
LEMMA OneWrites ==
  ASSUME MemoryInv, NEW w \in Workers, HasWritten(w)
  PROVE  /\ memLock = w /\ recall[w].copy = Kept /\ recall[w] \in Busy
         /\ \A o \in Workers : o # w => ~HasWritten(o)
<1>1. \A o \in Workers : HasLock(o)  BY DEF MemoryInv
<1>2. recall[w].at # "rest"  BY DEF HasWritten
<1> QED BY <1>1, <1>2, BusyNotAtRest DEF HasLock

LEMMA WriteIsTorn ==
  ASSUME MemoryInv, NEW w \in Workers, ReplacesTorn(w)
  PROVE  MemoryInv'
<1>1. HasWritten(w)  BY DEF ReplacesTorn, HasWritten
<1>2. /\ recall' = [recall EXCEPT ![w] = AtRest] /\ AtRest.at = "rest" /\ tornOnce' = TRUE
      /\ memFile' = Torn /\ memLock' = Free /\ learned' = learned
  BY <1>1, OneWrites DEF ReplacesTorn, AtRest
<1>3. \A o \in Workers : ~HasWritten(o)'
  BY <1>1, <1>2, OneWrites DEF HasWritten, MemoryInv, MemoryTypeOK
<1>4. MemoryTypeOK'  BY <1>2 DEF MemoryInv, MemoryTypeOK
<1> QED BY <1>2, <1>3, <1>4 DEF MemoryInv, HasLock

\* The fact that is stored, and what is stored already.
LEMMA UpsertedFacts ==
  ASSUME NEW content \in Content, NEW w \in Workers, recall[w] \in Busy
  PROVE  /\ Upserted(content, w) \in Content
         /\ Upserted(content, w).purges = content.purges
         /\ FactsUpToDate(content) /\ (recall[w].early \/ content.purges <= recall[w].exchange)
              => FactsUpToDate(Upserted(content, w))
<1> DEFINE fact == [value |-> recall[w].value, exchange |-> recall[w].exchange,
                    early |-> recall[w].early]
           k == recall[w].key
           after == Upserted(content, w)
<1>1. fact \in Fact /\ k \in FactKeys  BY DEF Fact, Busy
<1>2. fact.exchange = recall[w].exchange /\ fact.early = recall[w].early  OBVIOUS
<1>3. recall[w].exchange \in Int /\ content.purges \in Int
      /\ content.purges \in 0 .. MaxPurges /\ content.facts \in [FactKeys -> Fact \cup {NoFact}]
  BY DEF Busy, Content
<1>4. /\ after.purges = content.purges
      /\ after.facts = [content.facts EXCEPT ![k] = fact]
      /\ after \in Content
  BY <1>1, <1>3 DEF Upserted, Content
<1> HIDE DEF fact, k, after
<1>5. ASSUME FactsUpToDate(content), recall[w].early \/ content.purges <= recall[w].exchange,
             NEW j \in FactKeys, after.facts[j] # NoFact, after.facts[j].exchange < after.purges
      PROVE  after.facts[j].early
  <2>1. CASE j = k  BY <1>1, <1>2, <1>3, <1>4, <1>5, <2>1
  <2>2. CASE j # k  BY <1>3, <1>4, <1>5, <2>2 DEF FactsUpToDate
  <2> QED BY <2>1, <2>2
<1>6. FactsUpToDate(content) /\ (recall[w].early \/ content.purges <= recall[w].exchange)
        => FactsUpToDate(after)
  BY <1>5 DEF FactsUpToDate
<1> QED BY <1>4, <1>6 DEF after

LEMMA FactIsStored ==
  ASSUME MemoryInv, NEW w \in Workers, Replaces(w), IsAt(w, "upserting")
  PROVE  MemoryInv'
<1>1. HasWritten(w)  BY DEF Replaces, HasWritten
<1>2. recall[w].copy = Kept /\ recall[w] \in Busy /\ memLock = w /\ recall[w].at = "upserting"
  BY <1>1, OneWrites DEF IsAt
<1>3. /\ recall' = [recall EXCEPT ![w] = AtRest] /\ AtRest.at = "rest" /\ tornOnce' = tornOnce
      /\ memFile' = Upserted(Kept, w) /\ learned' = Upserted(learned, w) /\ memLock' = Free
  BY <1>2 DEF Replaces, AtRest
<1>4. recall' \in [Workers -> Busy \cup {AtRest}] /\ recall'[w] = AtRest
      /\ \A o \in Workers : o # w => recall'[o] = recall[o]
  BY <1>3 DEF MemoryInv, MemoryTypeOK
<1>5. \A o \in Workers : ~HasWritten(o)'  BY <1>1, <1>3, <1>4, OneWrites DEF HasWritten
<1>6. Kept \in Content /\ learned \in Content /\ (~tornOnce => Kept = learned)  BY MemoryFactTypes
<1>7. /\ Upserted(Kept, w) \in Content /\ Upserted(learned, w) \in Content
      /\ Upserted(learned, w).purges = learned.purges
  BY <1>2, <1>6, UpsertedFacts
<1>8. MemoryTypeOK'  BY <1>3, <1>4, <1>7 DEF MemoryInv, MemoryTypeOK
<1>9. ASSUME ~tornOnce'
      PROVE  /\ memFile' = learned' /\ FactsUpToDate(learned')
             /\ \A o \in Workers : UpToDate(recall'[o], learned'.purges)
  <2>1. /\ ~tornOnce /\ FactsUpToDate(learned)
        /\ \A o \in Workers : UpToDate(recall[o], learned.purges)
    BY <1>3, <1>9 DEF MemoryInv
  <2>2. recall[w].early \/ learned.purges <= recall[w].exchange  BY <1>2, <2>1 DEF UpToDate
  <2>3. FactsUpToDate(learned')  BY <1>2, <1>3, <1>6, <2>1, <2>2, UpsertedFacts
  <2>4. ASSUME NEW o \in Workers PROVE UpToDate(recall'[o], learned'.purges)
    <3>1. CASE o = w  BY <1>3, <1>4, <3>1 DEF UpToDate
    <3>2. CASE o # w  BY <1>3, <1>4, <1>7, <2>1, <3>2
    <3> QED BY <3>1, <3>2
  <2> QED BY <1>3, <1>6, <2>1, <2>3, <2>4
<1>10. ~tornOnce' => /\ memFile' = learned' /\ FactsUpToDate(learned)'
                     /\ \A o \in Workers : UpToDate(recall[o], learned.purges)'
  BY <1>9 DEF FactsUpToDate, UpToDate
<1> QED BY <1>5, <1>8, <1>10 DEF MemoryInv, HasLock

LEMMA ShopperIsForgotten ==
  ASSUME MemoryInv, NEW w \in Workers, Replaces(w), ~IsAt(w, "upserting")
  PROVE  MemoryInv'
<1>1. HasWritten(w)  BY DEF Replaces, HasWritten
<1>2. recall[w].copy = Kept /\ recall[w] \in Busy /\ memLock = w  BY <1>1, OneWrites
<1>3. /\ recall' = Overtaken(w) /\ AtRest.at = "rest" /\ tornOnce' = tornOnce /\ memLock' = Free
      /\ memFile' = Cleared(Kept) /\ learned' = Cleared(learned)
      /\ learned.purges < MaxPurges /\ Kept.purges < MaxPurges
  BY <1>2 DEF Replaces, AtRest
<1>4. Kept \in Content /\ learned \in Content /\ (~tornOnce => Kept = learned)  BY MemoryFactTypes
<1>5. ASSUME NEW content \in Content, content.purges < MaxPurges
      PROVE  /\ Cleared(content) \in Content /\ Cleared(content).purges = content.purges + 1
             /\ FactsUpToDate(Cleared(content))
  <2>1. content.purges \in 0 .. MaxPurges  BY DEF Content
  <2>2. content.purges + 1 \in 0 .. MaxPurges  BY <1>5, <2>1, MemoryAssumption
  <2> QED BY <2>2 DEF Cleared, Content, FactsUpToDate
<1>6. /\ Cleared(Kept) \in Content /\ Cleared(learned) \in Content
      /\ Cleared(learned).purges = learned.purges + 1 /\ FactsUpToDate(Cleared(learned))
      /\ learned.purges \in 0 .. MaxPurges
  BY <1>3, <1>4, <1>5, MemoryFactTypes
<1>7. ASSUME NEW o \in Workers
      PROVE  /\ recall'[o] \in Busy \cup {AtRest}
             /\ ~HasWritten(o)'
             /\ ~tornOnce => UpToDate(recall'[o], learned.purges + 1)
  <2>1. CASE o = w
    <3>1. recall'[o] = AtRest  BY <1>3, <2>1 DEF Overtaken
    <3> QED BY <1>3, <3>1 DEF HasWritten, UpToDate
  <2>2. CASE o # w /\ recall[o].at \in {"turn", "upsert"}
    <3>1. recall[o] \in Busy  BY <2>2, BusyNotAtRest
    <3>2. recall'[o] = [recall[o] EXCEPT !.early = TRUE]  BY <1>3, <2>2 DEF Overtaken
    <3>3. recall'[o] \in Busy /\ recall'[o].early = TRUE /\ recall'[o].at = recall[o].at
      BY <3>1, <3>2 DEF Busy
    <3> QED BY <2>2, <3>3 DEF HasWritten, UpToDate
  <2>3. CASE o # w /\ recall[o].at \notin {"turn", "upsert"}
    <3>1. recall'[o] = recall[o]  BY <1>3, <2>3 DEF Overtaken
    <3>2. ~HasWritten(o)  BY <1>1, <2>3, OneWrites
    <3>3. ~tornOnce => UpToDate(recall[o], learned.purges)  BY DEF MemoryInv
    <3> QED BY <2>3, <3>1, <3>2, <3>3 DEF HasWritten, UpToDate, MemoryInv, MemoryTypeOK
  <2> QED BY <2>1, <2>2, <2>3
<1>8. MemoryTypeOK'
  <2>1. recall' = [o \in Workers |-> recall'[o]]  BY <1>3 DEF Overtaken
  <2>2. recall' \in [Workers -> Busy \cup {AtRest}]  BY <1>7, <2>1
  <2> QED BY <1>3, <1>6, <2>2 DEF MemoryInv, MemoryTypeOK
<1>9. ~tornOnce' => /\ memFile' = learned' /\ FactsUpToDate(learned')
                    /\ \A o \in Workers : UpToDate(recall'[o], learned'.purges)
  BY <1>3, <1>4, <1>6, <1>7
<1>10. ~tornOnce' => /\ memFile' = learned' /\ FactsUpToDate(learned)'
                     /\ \A o \in Workers : UpToDate(recall[o], learned.purges)'
  BY <1>9 DEF FactsUpToDate, UpToDate
<1> QED BY <1>7, <1>8, <1>10 DEF MemoryInv, HasLock

LEMMA MemoryStep == MemoryInv /\ [MemoryNext]_memoryVars => MemoryInv'
<1> SUFFICES ASSUME MemoryInv, [MemoryNext]_memoryVars PROVE MemoryInv'  OBVIOUS
<1>1. CASE UNCHANGED memoryVars
  BY <1>1
  DEF memoryVars, MemoryInv, MemoryTypeOK, HasLock, HasWritten, Kept, FactsUpToDate, UpToDate
<1>2. CASE MemoryNext
  BY <1>2, TurnBegins, ToolSaves, GenerationIsRead, GenerationIsCompared, ForgetAsked, LockIsTaken,
     FactIsStored, ShopperIsForgotten, WriteIsTorn, WorkerGivesUp DEF MemoryNext
<1> QED BY <1>1, <1>2

LEMMA MemoryMeansSound == MemoryInv => MemorySound
<1> SUFFICES ASSUME MemoryInv PROVE MemorySound  OBVIOUS
<1>1. FactsKept  BY DEF MemoryInv, FactsKept
<1>2. ForgetHolds  BY DEF MemoryInv, ForgetHolds, FactsUpToDate
<1> QED BY <1>1, <1>2 DEF MemorySound

\* The facts held, the files they are read from and written to, and the turns keep their types
\* (memory_store.py).
THEOREM MemoryTypes == MemorySpec => []MemoryTypeOK
<1>1. MemoryInv => MemoryTypeOK  BY DEF MemoryInv
<1> QED BY <1>1, MemoryBegins, MemoryStep, PTL DEF MemorySpec

\* The file of memory_store.py is what the operations that ended would have made of it one after
\* the other, and holds no fact of an exchange forgotten since but one forgotten too early to be
\* noticed, unless a full disk cut a write short: for any number of processes and facts.
THEOREM MemoryHolds == MemorySpec => []MemorySound
BY MemoryBegins, MemoryStep, MemoryMeansSound, PTL DEF MemorySpec

-----------------------------------------------------------------------------
(***************************************************************************)
(* What the operators are told (OpsFeed).                                  *)
(***************************************************************************)
Ticket == [matter : Matters, severity : Severities \cup {"none"}, quiet : 0 .. MaxQuiet]

\* A matter has one ticket.
TicketsApart ==
  \A i, j \in DOMAIN ticketList : ticketList[i].matter = ticketList[j].matter => i = j

\* A ticket has the worst of the severities that were heard, and what was heard has a ticket.
WorstOf(i) ==
  LET told == heard[ticketList[i].matter]
  IN  IF told = {} THEN ticketList[i].severity = "none"
      ELSE /\ ticketList[i].severity \in told
           /\ \A s \in told : Rank(s) <= Rank(ticketList[i].severity)
TicketsAtTheirWorst ==
  /\ \A i \in DOMAIN ticketList : WorstOf(i)
  /\ \A m \in Matters : (\A i \in DOMAIN ticketList : ticketList[i].matter # m) => heard[m] = {}

\* What an alert named was counted with it.
NamedIsCounted ==
  \A seen \in alertSeen :
    /\ seen \in [print : {seen.print}, ago : 0 .. RepeatHours - 1]
    /\ seen.print.kind = "ticket_sla" =>
         \A i \in seen.print.named :
           i \in DOMAIN ticketList /\ counted[ticketList[i].matter] <= seen.ago

FeedInv ==
  /\ FeedTypeOK /\ ticketList \in Seq(Ticket) /\ TicketsApart /\ TicketsAtTheirWorst
  /\ NamedIsCounted /\ OverdueIsTold /\ ~toldTwice

-----------------------------------------------------------------------------
LEMMA RankFacts == \A s : Rank(s) \in Nat /\ Rank("none") = 0
BY DEF Rank, SEVERITY_RANK

LEMMA FeedBegins == FeedInit => FeedInv
<1> SUFFICES ASSUME FeedInit PROVE FeedInv  OBVIOUS
<1>1. /\ ticketList = <<>> /\ alertSeen = {} /\ scanned = FALSE /\ toldTwice = FALSE
      /\ \A m \in Matters : heard[m] = {}
  BY DEF FeedInit
<1>2. RepeatHours \in Nat  BY FeedAssumption
<1>3. ticketList \in Seq(Ticket) /\ DOMAIN ticketList = {}  BY <1>1
<1>4. FeedTypeOK
  <2>1. /\ \A i \in DOMAIN ticketList :
             ticketList[i] \in [matter : Matters, severity : Severities \cup {"none"}, quiet : 0 .. MaxQuiet]
        /\ \A seen \in alertSeen : seen.ago \in 0 .. RepeatHours - 1
    BY <1>1, <1>3
  <2>2. /\ listening \in [FeedTurns -> Matters \cup {NoMatter}]
        /\ gated \in [FeedRounds -> Situations \cup {Idle}]
        /\ shopState \in Situations \cup {Calm}
    BY DEF FeedInit
  <2>3. heard \in [Matters -> SUBSET Severities] /\ counted \in [Matters -> 0 .. RepeatHours]
    BY <1>2 DEF FeedInit
  <2> QED BY <1>1, <2>1, <2>2, <2>3 DEF FeedTypeOK
<1> QED BY <1>1, <1>3, <1>4
  DEF FeedInv, TicketsApart, TicketsAtTheirWorst, NamedIsCounted, OverdueIsTold

\* The ticket of a matter.
LEMMA TicketOfFacts ==
  ASSUME FeedInv, NEW m \in Matters
  PROVE  \/ TicketOf(m) = {} /\ \A i \in DOMAIN ticketList : ticketList[i].matter # m
         \/ \E i \in DOMAIN ticketList :
              TicketOf(m) = {i} /\ ticketList[i].matter = m
<1>1. TicketOf(m) = {i \in DOMAIN ticketList : ticketList[i].matter = m}  BY DEF TicketOf
<1>2. CASE \E i \in DOMAIN ticketList : ticketList[i].matter = m
  <2>1. PICK i \in DOMAIN ticketList : ticketList[i].matter = m  BY <1>2
  <2>2. \A j \in DOMAIN ticketList : ticketList[j].matter = m => j = i
    BY <2>1 DEF FeedInv, TicketsApart
  <2>3. TicketOf(m) = {i}  BY <1>1, <2>1, <2>2
  <2> QED BY <2>1, <2>3
<1>3. CASE ~\E i \in DOMAIN ticketList : ticketList[i].matter = m  BY <1>1, <1>3
<1> QED BY <1>2, <1>3

\* What a message makes of the tickets: one of its matter is new, or takes it in.
TakesIn(m, severity, i) ==
  /\ i \in 1 .. Len(ticketList)
  /\ ticketList[i].matter = m
  /\ Len(ticketList') = Len(ticketList)
  /\ ticketList'[i].matter = m /\ ticketList'[i].quiet = 0
  /\ ticketList'[i].severity =
       IF Rank(severity) > Rank(ticketList[i].severity) \/ ticketList[i].severity = "none"
       THEN severity ELSE ticketList[i].severity
  /\ \A j \in 1 .. Len(ticketList) : j # i => ticketList'[j] = ticketList[j]
IsNew(m, severity, i) ==
  /\ i = Len(ticketList) + 1
  /\ \A j \in 1 .. Len(ticketList) : ticketList[j].matter # m
  /\ Len(ticketList') = i
  /\ ticketList'[i].matter = m /\ ticketList'[i].severity = severity /\ ticketList'[i].quiet = 0
  /\ \A j \in 1 .. Len(ticketList) : ticketList'[j] = ticketList[j]

LEMMA OpenTicketFacts ==
  ASSUME FeedInv, NEW m \in Matters, NEW severity \in Severities \cup {"none"},
    OpenTicket(m, severity)
  PROVE  /\ ticketList' \in Seq(Ticket)
         /\ \E i \in Nat : TakesIn(m, severity, i) \/ IsNew(m, severity, i)
         /\ heard' = [heard EXCEPT ![m] = @ \cup ({severity} \ {"none"})]
<1>0. ticketList \in Seq(Ticket) /\ DOMAIN ticketList = 1 .. Len(ticketList)
        /\ Len(ticketList) \in Nat
  BY DEF FeedInv
<1>1. heard' = [heard EXCEPT ![m] = @ \cup ({severity} \ {"none"})]  BY DEF OpenTicket
<1>2. CASE TicketOf(m) = {} /\ \A i \in DOMAIN ticketList : ticketList[i].matter # m
  <2> DEFINE new == [matter |-> m, severity |-> severity, quiet |-> 0]
  <2>1. ticketList' = Append(ticketList, new)  BY <1>2 DEF OpenTicket
  <2>2. new \in Ticket /\ new.matter = m /\ new.severity = severity /\ new.quiet = 0
    BY FeedAssumption DEF Ticket
  <2> HIDE DEF new
  <2>3. ticketList' \in Seq(Ticket)  BY <1>0, <2>1, <2>2
  <2>4. IsNew(m, severity, Len(ticketList) + 1)  BY <1>0, <1>2, <2>1, <2>2 DEF IsNew
  <2> QED BY <1>0, <1>1, <2>3, <2>4
<1>3. CASE \E i \in DOMAIN ticketList : TicketOf(m) = {i} /\ ticketList[i].matter = m
  <2>1. PICK i \in DOMAIN ticketList : TicketOf(m) = {i} /\ ticketList[i].matter = m  BY <1>3
  <2>2. i \in 1 .. Len(ticketList) /\ i \in Nat  BY <1>0
  <2>3. i <= i  BY <2>2
  <2>4. (CHOOSE j \in TicketOf(m) : \A other \in TicketOf(m) : j <= other) = i
    BY <2>1, <2>3
  <2> DEFINE worse == IF Rank(severity) > Rank(ticketList[i].severity)
        \/ ticketList[i].severity = "none"
                      THEN severity ELSE ticketList[i].severity
             ticket == [[ticketList[i] EXCEPT !.severity = worse] EXCEPT !.quiet = 0]
  <2>5. ticketList' = [ticketList EXCEPT
          ![i].severity = IF Rank(severity) > Rank(@)
            \/ @ = "none" THEN severity ELSE @, ![i].quiet = 0]
    BY <2>1, <2>4 DEF OpenTicket
  <2>6. ticketList[i] \in Ticket  BY <1>0, <2>2
  <2>7. ticket \in Ticket /\ ticket.matter = m /\ ticket.severity = worse /\ ticket.quiet = 0
    <3>1. /\ ticketList[i].severity \in Severities \cup {"none"} /\ 0 \in 0 .. MaxQuiet
      BY <2>6, FeedAssumption DEF Ticket
    <3>2. worse \in Severities \cup {"none"}  BY <3>1
    <3> HIDE DEF worse
    <3> QED BY <2>1, <2>6, <3>1, <3>2 DEF Ticket
  <2>8. ticketList' = [ticketList EXCEPT ![i] = ticket]  BY <2>5
  <2> HIDE DEF ticket
  <2>9. ticketList' \in Seq(Ticket)  BY <1>0, <2>2, <2>7, <2>8
  <2>10. TakesIn(m, severity, i)  BY <1>0, <2>1, <2>2, <2>7, <2>8 DEF TakesIn
  <2> QED BY <1>1, <2>2, <2>9, <2>10
<1> QED BY <1>2, <1>3, TicketOfFacts

-----------------------------------------------------------------------------
\* A message of a complaint.
LEMMA OpenTicketKeeps ==
  ASSUME FeedInv, NEW m \in Matters, NEW severity \in Severities \cup {"none"},
    OpenTicket(m, severity),
         alertSeen' = alertSeen, scanned' = scanned, counted' = counted, toldTwice' = toldTwice,
         listening' \in [FeedTurns -> Matters \cup {NoMatter}], shopState' = shopState,
           gated' = gated
  PROVE  FeedInv'
<1>0. /\ ticketList \in Seq(Ticket) /\ DOMAIN ticketList = 1 .. Len(ticketList)
           /\ Len(ticketList) \in Nat
      /\ heard \in [Matters -> SUBSET Severities] /\ "none" \notin Severities
      /\ \A j \in DOMAIN ticketList : ticketList[j].matter \in Matters
  BY FeedAssumption DEF FeedInv, FeedTypeOK, Ticket
<1>1. /\ ticketList' \in Seq(Ticket)
      /\ heard' = [heard EXCEPT ![m] = @ \cup ({severity} \ {"none"})]
  BY OpenTicketFacts
<1>2. PICK i \in Nat : TakesIn(m, severity, i) \/ IsNew(m, severity, i)  BY OpenTicketFacts
<1>3. DOMAIN ticketList' = 1 .. Len(ticketList') /\ Len(ticketList') \in Nat  BY <1>1
\* The ticket of the matter is the i-th, the others stay.
<1>4. /\ i \in DOMAIN ticketList' /\ ticketList'[i].matter = m /\ ticketList'[i].quiet = 0
      /\ \A j \in DOMAIN ticketList : j # i => ticketList'[j] = ticketList[j]
      /\ \A j \in DOMAIN ticketList' : j # i => j \in DOMAIN ticketList
      /\ \A j \in DOMAIN ticketList : j \in DOMAIN ticketList'
      /\ i \in DOMAIN ticketList => ticketList[i].matter = m
      /\ \A j \in DOMAIN ticketList : j # i => ticketList[j].matter # m
  <2>1. CASE TakesIn(m, severity, i)
    BY <1>0, <1>3, <2>1 DEF TakesIn, FeedInv, TicketsApart
  <2>2. CASE IsNew(m, severity, i)  BY <1>0, <1>3, <2>2 DEF IsNew
  <2> QED BY <1>2, <2>1, <2>2
<1>5. heard' \in [Matters -> SUBSET Severities]  BY <1>0, <1>1
<1>6. heard'[m] = heard[m] \cup ({severity} \ {"none"}) /\ \A n \in Matters : n # m =>
        heard'[n] = heard[n]
  BY <1>0, <1>1
<1>7. FeedTypeOK'
  <2>1. \A j \in DOMAIN ticketList' : ticketList'[j] \in Ticket  BY <1>1
  <2> QED BY <1>5, <2>1 DEF FeedInv, FeedTypeOK, Ticket
<1>8. TicketsApart'
  <2> SUFFICES ASSUME NEW j \in DOMAIN ticketList', NEW k \in DOMAIN ticketList',
                      ticketList'[j].matter = ticketList'[k].matter
               PROVE  j = k
    BY DEF TicketsApart
  <2> QED BY <1>4 DEF FeedInv, TicketsApart
<1>9. WorstOf(i)'
  <2> DEFINE was == heard[m]
             is == ticketList'[i].severity
  <2>1. was \subseteq Severities  BY <1>0
  <2>2. heard'[ticketList'[i].matter] = was \cup ({severity} \ {"none"})  BY <1>4, <1>6
  <2>3. CASE IsNew(m, severity, i)
    <3>1. was = {} /\ is = severity  BY <1>0, <2>3 DEF IsNew, FeedInv, TicketsAtTheirWorst
    <3>2. Rank(severity) <= Rank(severity)  BY RankFacts
    <3> QED BY <2>2, <3>1, <3>2 DEF WorstOf
  <2>4. CASE TakesIn(m, severity, i)
    <3> DEFINE old == ticketList[i].severity
    <3>1. /\ is = IF Rank(severity) > Rank(old) \/ old = "none" THEN severity ELSE old
          /\ IF was = {} THEN old = "none"
             ELSE old \in was /\ \A s \in was : Rank(s) <= Rank(old)
      BY <1>0, <2>4 DEF TakesIn, FeedInv, TicketsAtTheirWorst, WorstOf
    <3>2. Rank(severity) \in Nat /\ Rank(old) \in Nat /\ Rank("none") = 0 /\ \A s \in was :
            Rank(s) \in Nat
      BY RankFacts
    <3> HIDE DEF old, is, was
    <3>3. CASE was = {}
      <4>1. is = severity  BY <3>1, <3>3
      <4> QED BY <2>2, <3>2, <3>3, <4>1 DEF WorstOf, is
    <3>4. CASE was # {} /\ Rank(severity) > Rank(old)
      <4>1. is = severity /\ severity # "none"  BY <3>1, <3>2, <3>4
      <4>2. \A s \in was : Rank(s) <= Rank(severity)  BY <3>1, <3>2, <3>4
      <4> QED BY <2>2, <3>2, <4>1, <4>2 DEF WorstOf, is
    <3>5. CASE was # {} /\ ~(Rank(severity) > Rank(old))
      <4>1. is = old /\ old \in was  BY <1>0, <2>1, <3>1, <3>5
      <4>2. \A s \in was : Rank(s) <= Rank(old)  BY <3>1, <3>5
      <4>3. Rank(severity) <= Rank(old)  BY <3>2, <3>5
      <4> QED BY <2>2, <4>1, <4>2, <4>3 DEF WorstOf, is
    <3> QED BY <3>3, <3>4, <3>5
  <2> QED BY <1>2, <2>3, <2>4
<1>10. TicketsAtTheirWorst'
  <2>1. \A j \in DOMAIN ticketList' : WorstOf(j)'
    <3> TAKE j \in DOMAIN ticketList'
    <3>1. CASE j # i
      <4>1. /\ j \in DOMAIN ticketList /\ ticketList'[j] = ticketList[j] /\ ticketList[j].matter # m
            /\ heard'[ticketList[j].matter] = heard[ticketList[j].matter]
        BY <1>0, <1>4, <1>6, <3>1
      <4> QED BY <4>1 DEF FeedInv, TicketsAtTheirWorst, WorstOf
    <3> QED BY <1>9, <3>1
  <2>2. \A n \in Matters : (\A j \in DOMAIN ticketList' : ticketList'[j].matter # n) =>
          heard'[n] = {}
    <3> SUFFICES ASSUME NEW n \in Matters, \A j \in DOMAIN ticketList' : ticketList'[j].matter # n
                 PROVE  heard'[n] = {}
      OBVIOUS
    <3>1. n # m  BY <1>4
    <3>2. \A j \in DOMAIN ticketList : ticketList[j].matter # n  BY <1>4, <3>1
    <3> QED BY <1>6, <3>1, <3>2 DEF FeedInv, TicketsAtTheirWorst
  <2> QED BY <2>1, <2>2 DEF TicketsAtTheirWorst
<1>11. \A j \in DOMAIN ticketList : ticketList'[j].matter = ticketList[j].matter  BY <1>4
<1>12. NamedIsCounted'  BY <1>4, <1>11 DEF FeedInv, NamedIsCounted
<1>13. OverdueIsTold'
  <2> SUFFICES ASSUME scanned', NEW j \in DOMAIN ticketList', ticketList'[j].quiet > SlaHours
               PROVE  counted'[ticketList'[j].matter] < RepeatHours
    BY DEF OverdueIsTold, Overdue
  <2>1. j # i  BY <1>4, FeedAssumption
  <2>2. j \in DOMAIN ticketList /\ ticketList[j].quiet > SlaHours /\ ticketList'[j] = ticketList[j]
    BY <1>4, <2>1
  <2> QED BY <2>2 DEF FeedInv, OverdueIsTold, Overdue
<1> QED BY <1>1, <1>7, <1>8, <1>10, <1>12, <1>13 DEF FeedInv

-----------------------------------------------------------------------------
\* An alert that can name all names all that is overdue.
LEMMA AllAreNamed ==
  ASSUME FeedInv, Cardinality(Overdue) <= MaxNamed, NEW i \in Overdue
  PROVE  Cardinality({j \in Overdue : j < i}) < MaxNamed
<1>1. Len(ticketList) \in Nat /\ DOMAIN ticketList = 1 .. Len(ticketList)  BY DEF FeedInv
<1>2. Overdue \subseteq 1 .. Len(ticketList)  BY <1>1 DEF Overdue
<1>3. IsFiniteSet(Overdue)
  <2>1. IsFiniteSet(1 .. Len(ticketList))  BY <1>1, FS_Interval
  <2> QED BY <1>2, <2>1, FS_Subset
<1> DEFINE before == {j \in Overdue : j < i}
<1>4. before \subseteq Overdue /\ i \notin before  BY <1>2
<1>5. IsFiniteSet(before) /\ Cardinality(before) \in Nat /\ Cardinality(Overdue) \in Nat
  BY <1>3, <1>4, FS_Subset, FS_CardinalityType
<1>6. before # Overdue  BY <1>4
<1> HIDE DEF before
<1>7. Cardinality(before) < Cardinality(Overdue)
  <2>1. Cardinality(before) <= Cardinality(Overdue) /\ Cardinality(before) # Cardinality(Overdue)
    BY <1>3, <1>4, <1>6, FS_Subset
  <2> QED BY <1>5, <2>1
<1>8. Cardinality(before) < MaxNamed  BY <1>5, <1>7, FeedAssumption
<1> QED BY <1>8 DEF before

\* A round has ended.
LEMMA PublishKeeps ==
  ASSUME FeedInv, NEW found, Publish(found),
         ticketList' = ticketList, listening' = listening, shopState' = shopState, heard' = heard,
         gated' \in [FeedRounds -> Situations \cup {Idle}]
  PROVE  FeedInv'
<1> DEFINE prints == {ShopPrint(s) : s \in found} \cup (IF Overdue = {} THEN {} ELSE {SlaPrint})
           told == {print \in prints : Fresh(print)}
           tells == Overdue # {} /\ SlaPrint \in told
<1>1. /\ alertSeen' = {seen \in alertSeen : seen.print \notin told}
                        \cup {[print |-> print, ago |-> 0] : print \in told}
      /\ toldTwice' = (toldTwice \/ \E seen \in alertSeen : seen.print \in told)
      /\ counted' = IF tells
                    THEN [m \in Matters |-> IF TicketOf(m) \cap Overdue # {} THEN 0 ELSE counted[m]]
                    ELSE counted
      /\ scanned' = (scanned \/ Cardinality(Overdue) <= MaxNamed)
  BY DEF Publish
<1>2. /\ counted \in [Matters -> 0 .. RepeatHours] /\ RepeatHours \in Nat /\ RepeatHours > 0
      /\ \A i \in DOMAIN ticketList : ticketList[i].matter \in Matters
  BY FeedAssumption DEF FeedInv, FeedTypeOK, Ticket
<1>3. \A seen \in alertSeen : seen.print \notin told  BY DEF Fresh
<1>4. toldTwice' = FALSE  BY <1>1, <1>3 DEF FeedInv
<1>5. \A seen \in alertSeen' :
        \/ seen \in alertSeen
        \/ \E print \in told : seen = [print |-> print, ago |-> 0]
  BY <1>1
<1>6. \A print \in prints : print.kind = "ticket_sla" => Overdue # {} /\ print = SlaPrint
  BY DEF ShopPrint
<1>7. SlaPrint.kind = "ticket_sla"
        /\ SlaPrint.named = {i \in Overdue : Cardinality({j \in Overdue : j < i}) < MaxNamed}
  BY DEF SlaPrint
<1>8. \A i \in DOMAIN ticketList :
        /\ counted'[ticketList[i].matter] <= counted[ticketList[i].matter]
        /\ tells /\ i \in Overdue => counted'[ticketList[i].matter] = 0
  <2> TAKE i \in DOMAIN ticketList
  <2>1. i \in TicketOf(ticketList[i].matter)  BY DEF TicketOf
  <2>2. counted[ticketList[i].matter] \in 0 .. RepeatHours  BY <1>2
  <2> HIDE DEF tells
  <2>3. CASE tells
    <3>1. counted'[ticketList[i].matter] =
            IF TicketOf(ticketList[i].matter) \cap Overdue # {} THEN 0
              ELSE counted[ticketList[i].matter]
      BY <1>1, <1>2, <2>3
    <3> QED BY <2>1, <2>2, <3>1
  <2>4. CASE ~tells  BY <1>1, <2>2, <2>4
  <2> QED BY <2>3, <2>4
<1>9. counted' \in [Matters -> 0 .. RepeatHours]
  <2> HIDE DEF tells
  <2>1. 0 \in 0 .. RepeatHours  BY <1>2
  <2> QED BY <1>1, <1>2, <2>1
<1>10. \A seen \in alertSeen' : seen.ago \in 0 .. RepeatHours - 1
  BY <1>2, <1>5 DEF FeedInv, FeedTypeOK
<1>11. FeedTypeOK'  BY <1>1, <1>4, <1>9, <1>10 DEF FeedInv, FeedTypeOK
<1>12. NamedIsCounted'
  <2> SUFFICES ASSUME NEW seen \in alertSeen'
               PROVE  /\ seen \in [print : {seen.print}, ago : 0 .. RepeatHours - 1]
                      /\ seen.print.kind = "ticket_sla" =>
                           \A i \in seen.print.named :
                             i \in DOMAIN ticketList /\ counted'[ticketList[i].matter] <= seen.ago
    BY DEF NamedIsCounted
  <2>1. CASE seen \in alertSeen
    <3>1. /\ seen \in [print : {seen.print}, ago : 0 .. RepeatHours - 1]
          /\ seen.print.kind = "ticket_sla" =>
               \A i \in seen.print.named :
                 i \in DOMAIN ticketList /\ counted[ticketList[i].matter] <= seen.ago
      BY <2>1 DEF FeedInv, NamedIsCounted
    <3>2. seen.ago \in Nat  BY <2>1 DEF FeedInv, FeedTypeOK
    <3>3. \A i \in DOMAIN ticketList :
            counted[ticketList[i].matter] \in Nat /\ counted'[ticketList[i].matter] \in Nat
      BY <1>2, <1>9
    <3> QED BY <1>8, <3>1, <3>2, <3>3
  <2>2. CASE \E print \in told : seen = [print |-> print, ago |-> 0]
    <3>1. PICK print \in told : seen = [print |-> print, ago |-> 0]  BY <2>2
    <3>2. seen.print = print /\ seen.ago = 0 /\ 0 \in 0 .. RepeatHours - 1  BY <1>2, <3>1
    <3>3. ASSUME print.kind = "ticket_sla", NEW i \in print.named
          PROVE  i \in DOMAIN ticketList /\ counted'[ticketList[i].matter] <= 0
      <4>1. Overdue # {} /\ print = SlaPrint /\ tells  BY <1>6, <3>1, <3>3
      <4>2. i \in Overdue  BY <1>7, <3>3, <4>1
      <4>3. i \in DOMAIN ticketList  BY <4>2 DEF Overdue
      <4> QED BY <1>8, <4>1, <4>2, <4>3
    <3> QED BY <3>1, <3>2, <3>3
  <2> QED BY <1>5, <2>1, <2>2
<1>13. OverdueIsTold'
  <2> SUFFICES ASSUME scanned', NEW i \in Overdue PROVE counted'[ticketList[i].matter] < RepeatHours
    BY DEF OverdueIsTold, Overdue
  <2>1. i \in DOMAIN ticketList /\ Overdue # {}  BY DEF Overdue
  <2>2. /\ counted[ticketList[i].matter] \in Nat /\ counted'[ticketList[i].matter] \in Nat
        /\ counted'[ticketList[i].matter] <= counted[ticketList[i].matter]
    BY <1>2, <1>8, <1>9, <2>1
  <2>3. CASE scanned
    <3>1. counted[ticketList[i].matter] < RepeatHours  BY <2>3 DEF FeedInv, OverdueIsTold
    <3> QED BY <1>2, <2>2, <3>1
  <2>4. CASE tells  BY <1>2, <1>8, <2>1, <2>4
  <2>5. CASE ~tells /\ Cardinality(Overdue) <= MaxNamed
    <3>1. SlaPrint \in prints  BY <2>1
    <3>2. ~Fresh(SlaPrint)  BY <2>1, <2>5, <3>1
    <3>3. PICK seen \in alertSeen : seen.print = SlaPrint  BY <3>2 DEF Fresh
    <3>4. i \in seen.print.named  BY <1>7, <2>5, <3>3, AllAreNamed
    <3>5. counted[ticketList[i].matter] <= seen.ago /\ seen.ago \in 0 .. RepeatHours - 1
      BY <1>7, <3>3, <3>4 DEF FeedInv, NamedIsCounted, FeedTypeOK
    <3> QED BY <1>2, <2>2, <3>5
  <2> QED BY <1>1, <2>3, <2>4, <2>5
<1>14. TicketsApart' /\ TicketsAtTheirWorst'
  BY DEF FeedInv, TicketsApart, TicketsAtTheirWorst, WorstOf
<1> QED BY <1>4, <1>11, <1>12, <1>13, <1>14 DEF FeedInv

\* An hour passes.
LEMMA HourPassesKeeps ==
  ASSUME FeedInv, HourPasses
  PROVE  FeedInv'
<1>1. /\ ticketList' = [i \in DOMAIN ticketList |-> [ticketList[i] EXCEPT
           !.quiet = IF @ < MaxQuiet THEN @ + 1 ELSE @]]
      /\ alertSeen' = {[seen EXCEPT !.ago = @ + 1] : seen \in {s \in alertSeen : s.ago < RepeatHours - 1}}
      /\ counted' = [m \in Matters |-> IF counted[m] < RepeatHours THEN counted[m] + 1 ELSE counted[m]]
      /\ scanned' = FALSE /\ toldTwice' = toldTwice
      /\ listening' = listening /\ shopState' = shopState /\ gated' = gated /\ heard' = heard
  BY DEF HourPasses
<1>2. /\ ticketList \in Seq(Ticket) /\ DOMAIN ticketList = 1 .. Len(ticketList)
           /\ Len(ticketList) \in Nat
      /\ counted \in [Matters -> 0 .. RepeatHours] /\ RepeatHours \in Nat /\ MaxQuiet \in Nat
  BY FeedAssumption DEF FeedInv, FeedTypeOK
<1>3. \A i \in DOMAIN ticketList :
        /\ ticketList'[i] \in Ticket
        /\ ticketList'[i].matter = ticketList[i].matter
             /\ ticketList'[i].severity = ticketList[i].severity
  <2> TAKE i \in DOMAIN ticketList
  <2> DEFINE more == IF ticketList[i].quiet < MaxQuiet THEN ticketList[i].quiet + 1
        ELSE ticketList[i].quiet
             ticket == [ticketList[i] EXCEPT !.quiet = more]
  <2>1. ticketList[i] \in Ticket  BY <1>2
  <2>2. ticketList'[i] = ticket  BY <1>1
  <2>3. ticketList[i].quiet \in 0 .. MaxQuiet  BY <2>1 DEF Ticket
  <2>4. more \in 0 .. MaxQuiet  BY <1>2, <2>3
  <2> HIDE DEF more
  <2>5. /\ ticket \in Ticket /\ ticket.matter = ticketList[i].matter
        /\ ticket.severity = ticketList[i].severity
    BY <2>1, <2>4 DEF Ticket
  <2> QED BY <2>2, <2>5
<1>4. ticketList' \in Seq(Ticket) /\ DOMAIN ticketList' = DOMAIN ticketList  BY <1>1, <1>2, <1>3
<1>5. counted' \in [Matters -> 0 .. RepeatHours]  BY <1>1, <1>2
<1>6. \A seen \in alertSeen' : \E was \in alertSeen :
        /\ seen \in [print : {was.print}, ago : 0 .. RepeatHours - 1]
        /\ seen.print = was.print /\ seen.ago = was.ago + 1 /\ was.ago \in 0 .. RepeatHours - 1
  <2> TAKE seen \in alertSeen'
  <2>1. PICK was \in alertSeen :
          was.ago < RepeatHours - 1 /\ seen = [was EXCEPT !.ago = was.ago + 1]
    BY <1>1
  <2>2. was \in [print : {was.print}, ago : 0 .. RepeatHours - 1]  BY DEF FeedInv, NamedIsCounted
  <2>3. was.ago \in 0 .. RepeatHours - 1  BY <2>2
  <2>4. was.ago + 1 \in 0 .. RepeatHours - 1  BY <1>2, <2>1, <2>3
  <2>5. seen \in [print : {was.print}, ago : 0 .. RepeatHours - 1]  BY <2>1, <2>2, <2>4
  <2> QED BY <2>1, <2>2, <2>3, <2>5
<1>7. FeedTypeOK'
  <2>1. \A seen \in alertSeen' : seen.ago \in 0 .. RepeatHours - 1  BY <1>6
  <2> QED BY <1>1, <1>3, <1>4, <1>5, <2>1 DEF FeedInv, FeedTypeOK, Ticket
<1>8. TicketsApart'  BY <1>3, <1>4 DEF FeedInv, TicketsApart
<1>9. TicketsAtTheirWorst'
  <2>1. \A i \in DOMAIN ticketList' : WorstOf(i)'
    <3> TAKE i \in DOMAIN ticketList'
    <3>1. i \in DOMAIN ticketList /\ WorstOf(i)  BY <1>4 DEF FeedInv, TicketsAtTheirWorst
    <3>2. /\ ticketList'[i].matter = ticketList[i].matter
          /\ ticketList'[i].severity = ticketList[i].severity
          /\ heard' = heard
      BY <1>1, <1>3, <3>1
    <3> QED BY <3>1, <3>2 DEF WorstOf
  <2>2. ASSUME NEW m \in Matters, \A i \in DOMAIN ticketList' : ticketList'[i].matter # m
        PROVE  heard'[m] = {}
    <3>1. \A i \in DOMAIN ticketList : ticketList[i].matter # m  BY <1>3, <1>4, <2>2
    <3> QED BY <1>1, <3>1 DEF FeedInv, TicketsAtTheirWorst
  <2> QED BY <2>1, <2>2 DEF TicketsAtTheirWorst
<1>10. NamedIsCounted'
  <2> SUFFICES ASSUME NEW seen \in alertSeen'
               PROVE  /\ seen \in [print : {seen.print}, ago : 0 .. RepeatHours - 1]
                      /\ seen.print.kind = "ticket_sla" =>
                           \A i \in seen.print.named :
                             i \in DOMAIN ticketList' /\ counted'[ticketList'[i].matter] <= seen.ago
    BY DEF NamedIsCounted
  <2>1. PICK was \in alertSeen :
          /\ seen \in [print : {was.print}, ago : 0 .. RepeatHours - 1]
          /\ seen.print = was.print /\ seen.ago = was.ago + 1 /\ was.ago \in 0 .. RepeatHours - 1
    BY <1>6
  <2>2. ASSUME seen.print.kind = "ticket_sla", NEW i \in seen.print.named
        PROVE  i \in DOMAIN ticketList' /\ counted'[ticketList'[i].matter] <= seen.ago
    <3>1. i \in DOMAIN ticketList /\ counted[ticketList[i].matter] <= was.ago
      BY <2>1, <2>2 DEF FeedInv, NamedIsCounted
    <3>a. ticketList[i] \in Ticket  BY <1>2, <3>1
    <3>2. ticketList[i].matter \in Matters /\ counted[ticketList[i].matter] \in 0 .. RepeatHours
      BY <1>2, <3>a DEF Ticket
    <3>3. counted'[ticketList[i].matter] <= counted[ticketList[i].matter] + 1
          /\ counted'[ticketList[i].matter] \in 0 .. RepeatHours
      BY <1>1, <1>5, <3>2
    <3> QED BY <1>3, <1>4, <2>1, <3>1, <3>2, <3>3
  <2> QED BY <2>1, <2>2
<1> QED BY <1>1, <1>4, <1>7, <1>8, <1>9, <1>10 DEF FeedInv, OverdueIsTold

LEMMA FeedStep == FeedInv /\ [FeedNext]_feedVars => FeedInv'
<1> SUFFICES ASSUME FeedInv, [FeedNext]_feedVars PROVE FeedInv'  OBVIOUS
<1>0. /\ listening \in [FeedTurns -> Matters \cup {NoMatter}]
      /\ gated \in [FeedRounds -> Situations \cup {Idle}] /\ shopState \in Situations \cup {Calm}
  BY DEF FeedInv, FeedTypeOK
<1>1. ASSUME NEW m \in Matters, Complain(m) PROVE FeedInv'
  <2>1. "none" \in Severities \cup {"none"}  OBVIOUS
  <2> QED BY <1>0, <1>1, <2>1, OpenTicketKeeps DEF Complain
\* Who waits for an answer, and what the shop is like, is in no other invariant.
<1>2. ASSUME listening' \in [FeedTurns -> Matters \cup {NoMatter}],
             gated' \in [FeedRounds -> Situations \cup {Idle}],
               shopState' \in Situations \cup {Calm},
             ticketList' = ticketList, heard' = heard, scanned' = scanned, counted' = counted,
             toldTwice' = toldTwice, alertSeen' \subseteq alertSeen
      PROVE  FeedInv'
  BY <1>2
  DEF FeedInv, FeedTypeOK, TicketsApart, TicketsAtTheirWorst, WorstOf, NamedIsCounted,
      OverdueIsTold,
    Overdue
<1>3. ASSUME NEW t \in FeedTurns, JevAnswers(t) PROVE FeedInv'
  <2>1. /\ listening[t] # NoMatter /\ listening[t] \in Matters
        /\ listening' \in [FeedTurns -> Matters \cup {NoMatter}]
        /\ shopState' = shopState /\ gated' = gated /\ alertSeen' = alertSeen /\ scanned' = scanned
        /\ counted' = counted /\ toldTwice' = toldTwice
    BY <1>0, <1>3 DEF JevAnswers
  <2>2. CASE \E severity \in Severities \cup {"none"} : OpenTicket(listening[t], severity)
    BY <2>1, <2>2, OpenTicketKeeps
  <2>3. CASE ticketList' = ticketList /\ heard' = heard  BY <1>0, <1>2, <2>1, <2>3
  <2> QED BY <1>3, <2>2, <2>3 DEF JevAnswers
<1>4. ASSUME NEW t \in FeedTurns, NEW m \in Matters, AskJev(t, m) PROVE FeedInv'
  BY <1>0, <1>2, <1>4 DEF AskJev
<1>5. ASSUME NEW r \in FeedRounds, ScanReads(r) PROVE FeedInv'
  <2>1. CASE shopState = Calm
    BY <1>0, <1>5, <2>1, PublishKeeps DEF ScanReads
  <2>2. CASE shopState # Calm
    <3>1. gated' \in [FeedRounds -> Situations \cup {Idle}]  BY <1>0, <1>5, <2>2 DEF ScanReads
    <3> QED BY <1>0, <1>2, <1>5, <2>2, <3>1 DEF ScanReads
  <2> QED BY <2>1, <2>2
<1>6. ASSUME NEW r \in FeedRounds, GateAnswers(r) PROVE FeedInv'
  <2>1. gated' \in [FeedRounds -> Situations \cup {Idle}]  BY <1>0, <1>6 DEF GateAnswers
  <2> QED BY <1>6, <2>1, PublishKeeps DEF GateAnswers
<1>7. CASE ShopChanges  BY <1>0, <1>2, <1>7 DEF ShopChanges
<1>8. CASE FeedRestart  BY <1>0, <1>2, <1>8 DEF FeedRestart
<1>9. CASE UNCHANGED feedVars  BY <1>0, <1>2, <1>9 DEF feedVars
<1> QED BY <1>1, <1>3, <1>4, <1>5, <1>6, <1>7, <1>8, <1>9, HourPassesKeeps DEF FeedNext

LEMMA FeedHeld == FeedInv => FeedSound
<1> SUFFICES ASSUME FeedInv PROVE FeedSound  OBVIOUS
<1>1. \A m \in Matters : Cardinality(TicketOf(m)) <= 1
  <2> TAKE m \in Matters
  <2>1. TicketOf(m) = {} \/ \E i \in DOMAIN ticketList : TicketOf(m) = {i}  BY TicketOfFacts
  <2>2. Cardinality({}) = 0 /\ \A i \in DOMAIN ticketList : Cardinality({i}) = 1
    BY FS_EmptySet, FS_Singleton
  <2> QED BY <2>1, <2>2
<1> QED BY <1>1 DEF FeedInv, FeedSound, OneTicketAtItsWorst, TicketsAtTheirWorst, WorstOf

(* Tickets, alerts and who waits for Jev or the gate keep their types.                       *)
THEOREM FeedTypes == FeedSpec => []FeedTypeOK
<1>1. FeedInv => FeedTypeOK  BY DEF FeedInv
<1> QED BY <1>1, FeedBegins, FeedStep, PTL DEF FeedSpec

(* Complaints and overdue tickets reach the operators (TicketStore.open, _publish_once):      *)
(* a matter has one ticket, at its worst severity; what is overdue has been told, and          *)
(* nothing twice in a repeat time.                                                            *)
THEOREM OperatorsAreTold == FeedSpec => []FeedSound
BY FeedBegins, FeedStep, FeedHeld, PTL DEF FeedSpec

-----------------------------------------------------------------------------
(***************************************************************************)
(* The changes of the stock that operators approve (StockActions).         *)
(***************************************************************************)
\* What is served is in the ledger; a restock is compared first.
ServedAreKnown ==
  \A a \in Approvals : serving[a] # NoOne =>
    /\ actions[ServedBy(a)] # NoAction
    /\ serving[a].at = "check" => actions[ServedBy(a)].kind = "restock"

\* An approval that need not be blind writes over the stock the agent saw.
SeenIsStock ==
  \A a \in Approvals : Past(a, "write") /\ ~serving[a].blind =>
    \A l \in Pieces : Restocks(ServedBy(a), l) => onHand[l] = actions[ServedBy(a)].before

\* Unless it is unfinished a change has one approval.
ServedOnce ==
  \A a, b \in Approvals :
    serving[a] # NoOne /\ serving[b] # NoOne /\ ServedBy(a) = ServedBy(b)
      /\ ServedBy(a) \notin unfinished
      => a = b

\* It is carried out when its approval is past the write, and then the ledger learns of it.
DoneWhenPast ==
  \A a \in Approvals : serving[a] # NoOne =>
    /\ serving[a].at = "mark" => carriedOut[ServedBy(a)] > 0
    /\ serving[a].at # "mark" /\ ServedBy(a) \notin unfinished => carriedOut[ServedBy(a)] = 0
DoneIsApplied ==
  \A i \in ActionIds :
    i \notin unfinished /\ carriedOut[i] > 0 /\ actions[i] # NoAction =>
      \/ actions[i].status = "applied"
      \/ \E a \in Approvals : Past(a, "mark") /\ ServedBy(a) = i

\* The file may lack what is new and what was discarded.
FileIsBehind ==
  \A i \in ActionIds : actionsSaved[i] # NoAction =>
    /\ actions[i] # NoAction
    /\ \/ actionsSaved[i] = actions[i]
       \/ actionsSaved[i].status = "staged" /\ actions[i].status # "applied"

ActionsInv ==
  /\ StockActionsTypeOK /\ ServedAreKnown /\ SeenIsStock /\ ServedOnce /\ DoneWhenPast
  /\ DoneIsApplied /\ FileIsBehind /\ StockAccounted /\ CarriedOutOnce

-----------------------------------------------------------------------------
LEMMA ActionFields ==
  ASSUME NEW x \in StagedAction, NEW s \in {"staged", "applied", "discarded"}
  PROVE  /\ x.kind \in {"restock", "campaign"} /\ x.status \in {"staged", "applied", "discarded"}
         /\ [x EXCEPT !.status = s] \in StagedAction
         /\ [x EXCEPT !.status = s].status = s /\ [x EXCEPT !.status = s].kind = x.kind
         /\ x.kind = "restock" =>
              /\ x.listing \in Pieces /\ x.before \in 0 .. MaxOnHand /\ x.after \in 0 .. MaxOnHand
              /\ [x EXCEPT !.status = s].listing = x.listing
              /\ [x EXCEPT !.status = s].before = x.before
              /\ [x EXCEPT !.status = s].after = x.after
BY DEF StagedAction

\* What an approval has.
LEMMA ServingFacts ==
  ASSUME StockActionsTypeOK, NEW a \in Approvals
  PROVE  /\ serving[a] = NoOne \/ serving[a] \in Approval
         /\ serving[a] # NoOne =>
              /\ serving[a].at \in {"check", "write", "mark"} /\ ServedBy(a) \in ActionIds
              /\ serving[a].blind \in BOOLEAN
BY DEF StockActionsTypeOK, Approval, ServedBy

\* Noting that units moved changes nothing but what is blind.
LEMMA NotedFacts ==
  ASSUME StockActionsTypeOK, NEW l \in Pieces, NEW n
  PROVE  /\ Noted(l, n) \in [Approvals -> Approval \cup {NoOne}]
         /\ \A a \in Approvals :
              /\ Noted(l, n)[a] = NoOne <=> serving[a] = NoOne
              /\ serving[a] # NoOne =>
                   /\ Noted(l, n)[a].at = serving[a].at /\ Noted(l, n)[a].id = serving[a].id
                   /\ serving[a].blind => Noted(l, n)[a].blind
                   /\ serving[a].at = "write" /\ Restocks(ServedBy(a), l) /\ n # onHand[l] =>
                        Noted(l, n)[a].blind
<1>1. ASSUME NEW a \in Approvals
      PROVE  /\ Noted(l, n)[a] \in Approval \cup {NoOne}
             /\ Noted(l, n)[a] = NoOne <=> serving[a] = NoOne
             /\ serving[a] # NoOne =>
                  /\ Noted(l, n)[a].at = serving[a].at /\ Noted(l, n)[a].id = serving[a].id
                  /\ serving[a].blind => Noted(l, n)[a].blind
                  /\ serving[a].at = "write" /\ Restocks(ServedBy(a), l) /\ n # onHand[l] =>
                       Noted(l, n)[a].blind
  <2> DEFINE blinded == [serving[a] EXCEPT !.blind = TRUE]
             struck == serving[a].at = "write" /\ Restocks(ServedBy(a), l) /\ n # onHand[l]
  <2>1. Noted(l, n)[a] = IF serving[a] # NoOne /\ struck THEN blinded ELSE serving[a]  BY DEF Noted
  <2>2. CASE serving[a] = NoOne  BY <2>1, <2>2
  <2>3. CASE serving[a] # NoOne
    <3>1. serving[a] \in Approval  BY <2>3, ServingFacts
    <3>2. /\ blinded \in Approval /\ blinded.at = serving[a].at /\ blinded.id = serving[a].id
          /\ blinded.blind
      BY <3>1 DEF Approval
    <3>3. blinded # NoOne  BY <3>1, <3>2 DEF Approval, NoOne
    <3> QED BY <2>1, <2>3, <3>1, <3>2, <3>3
  <2> QED BY <2>2, <2>3
<1>2. Noted(l, n) = [a \in Approvals |-> Noted(l, n)[a]]  BY DEF Noted
<1> QED BY <1>1, <1>2

LEMMA ActionsBegin == StockActionsInit => ActionsInv
<1> SUFFICES ASSUME StockActionsInit PROVE ActionsInv  OBVIOUS
<1>1. /\ onHand = [l \in Pieces |-> 1] /\ inHouse = onHand /\ unfinished = {}
      /\ \A i \in ActionIds :
           actions[i] = NoAction /\ actionsSaved[i] = NoAction /\ carriedOut[i] = 0
      /\ \A a \in Approvals : serving[a] = NoOne
  BY DEF StockActionsInit
<1>2. StockActionsTypeOK
  BY StockActionsAssumption DEF StockActionsInit, StockActionsTypeOK, Stock, NoOne
<1> QED BY <1>1, <1>2
  DEF ActionsInv, ServedAreKnown, SeenIsStock, Past, NoOne, ServedOnce, DoneWhenPast, DoneIsApplied,
      FileIsBehind, StockAccounted, CarriedOutOnce

-----------------------------------------------------------------------------
\* Units of a listing are sold or returned.
LEMMA OrdersMoveKeeps ==
  ASSUME ActionsInv, NEW l \in Pieces, OrdersMove(l)
  PROVE  ActionsInv'
<1>0. StockActionsTypeOK /\ onHand = inHouse  BY DEF ActionsInv, StockAccounted
<1>1. PICK units \in {-1, 1} :
        /\ onHand[l] + units \in 0 .. MaxOnHand /\ inHouse[l] + units \in Stock
        /\ onHand' = [onHand EXCEPT ![l] = @ + units]
        /\ inHouse' = [inHouse EXCEPT ![l] = @ + units]
        /\ serving' = Noted(l, onHand[l] + units)
  BY DEF OrdersMove
<1>2. /\ actions' = actions /\ actionsSaved' = actionsSaved /\ carriedOut' = carriedOut
      /\ unfinished' = unfinished
  BY DEF OrdersMove
<1>3. /\ onHand[l] \in Nat /\ onHand[l] + units # onHand[l]
      /\ \A m \in Pieces : m # l => onHand'[m] = onHand[m]
  BY <1>0, <1>1 DEF StockActionsTypeOK
<1>4. /\ serving' \in [Approvals -> Approval \cup {NoOne}]
      /\ \A a \in Approvals :
           /\ serving'[a] = NoOne <=> serving[a] = NoOne
           /\ serving[a] # NoOne =>
                /\ serving'[a].at = serving[a].at /\ serving'[a].id = serving[a].id
                /\ serving[a].blind => serving'[a].blind
                /\ serving[a].at = "write" /\ Restocks(ServedBy(a), l) => serving'[a].blind
  BY <1>0, <1>1, <1>3, NotedFacts
<1>5. StockActionsTypeOK'  BY <1>0, <1>1, <1>2, <1>4 DEF StockActionsTypeOK
<1>6. StockAccounted'  BY <1>0, <1>1 DEF StockAccounted
<1>7. ServedAreKnown'  BY <1>2, <1>4 DEF ActionsInv, ServedAreKnown, ServedBy
<1>8. SeenIsStock'
  <2> SUFFICES ASSUME NEW a \in Approvals, Past(a, "write")', ~serving'[a].blind,
                      NEW m \in Pieces, Restocks(ServedBy(a), m)'
               PROVE  onHand'[m] = actions'[ServedBy(a)'].before
    BY DEF SeenIsStock
  <2>1. /\ Past(a, "write") /\ serving[a] # NoOne /\ serving'[a].id = serving[a].id
        /\ ~serving[a].blind /\ ~Restocks(ServedBy(a), l)
    <3>1. serving'[a] # NoOne /\ serving'[a].at = "write"  BY DEF Past
    <3>2. serving[a] # NoOne /\ serving[a].at = "write"  BY <1>4, <3>1
    <3> QED BY <1>0, <1>4, <3>2, ServingFacts DEF Past
  <2>2. Restocks(ServedBy(a), m)  BY <1>2, <2>1 DEF Restocks, ServedBy
  <2>3. onHand[m] = actions[ServedBy(a)].before  BY <2>1, <2>2 DEF ActionsInv, SeenIsStock
  <2>4. m # l  BY <2>1, <2>2
  <2> QED BY <1>2, <1>3, <2>1, <2>3, <2>4 DEF ServedBy
<1>9. ServedOnce'  BY <1>2, <1>4 DEF ActionsInv, ServedOnce, ServedBy
<1>10. DoneWhenPast'  BY <1>2, <1>4 DEF ActionsInv, DoneWhenPast, ServedBy
<1>11. DoneIsApplied'  BY <1>2, <1>4 DEF ActionsInv, DoneIsApplied, Past, ServedBy, NoOne
<1>12. FileIsBehind' /\ CarriedOutOnce'  BY <1>2 DEF ActionsInv, FileIsBehind, CarriedOutOnce
<1> QED BY <1>5, <1>6, <1>7, <1>8, <1>9, <1>10, <1>11, <1>12 DEF ActionsInv

\* A change is staged under a number nothing is known of.
LEMMA StageActionKeeps ==
  ASSUME ActionsInv, NEW action \in StagedAction, action.status = "staged", StageAction(action)
  PROVE  ActionsInv'
<1>0. StockActionsTypeOK  BY DEF ActionsInv
<1>1. PICK i \in ActionIds :
        /\ actions[i] = NoAction
        /\ actions' = [actions EXCEPT ![i] = action]
        /\ carriedOut' = [carriedOut EXCEPT ![i] = 0]
        /\ unfinished' = unfinished \ {i}
  BY DEF StageAction
<1>2. onHand' = onHand /\ inHouse' = inHouse /\ actionsSaved' = actionsSaved /\ serving' = serving
  BY DEF StageAction
<1>3. /\ actions'[i] = action /\ carriedOut'[i] = 0 /\ i \notin unfinished'
      /\ \A j \in ActionIds : j # i =>
           /\ actions'[j] = actions[j] /\ carriedOut'[j] = carriedOut[j]
           /\ j \in unfinished' <=> j \in unfinished
  BY <1>0, <1>1 DEF StockActionsTypeOK
<1>4. \A a \in Approvals : serving[a] # NoOne => ServedBy(a) \in ActionIds /\ ServedBy(a) # i
  BY <1>0, <1>1, ServingFacts DEF ActionsInv, ServedAreKnown
<1>5. StockActionsTypeOK'  BY <1>0, <1>1, <1>2 DEF StockActionsTypeOK
<1>6. ServedAreKnown'  BY <1>2, <1>3, <1>4 DEF ActionsInv, ServedAreKnown, ServedBy
<1>7. SeenIsStock'  BY <1>2, <1>3, <1>4 DEF ActionsInv, SeenIsStock, Past, Restocks, ServedBy
<1>8. ServedOnce'  BY <1>2, <1>3, <1>4 DEF ActionsInv, ServedOnce, ServedBy
<1>9. DoneWhenPast'  BY <1>2, <1>3, <1>4 DEF ActionsInv, DoneWhenPast, ServedBy
<1>10. DoneIsApplied'
  <2> SUFFICES ASSUME NEW j \in ActionIds, j \notin unfinished', carriedOut'[j] > 0,
        actions'[j] # NoAction
               PROVE  \/ actions'[j].status = "applied"
                      \/ \E a \in Approvals : Past(a, "mark")' /\ ServedBy(a)' = j
    BY DEF DoneIsApplied
  <2>1. j # i  BY <1>3
  <2> QED BY <1>2, <1>3, <2>1 DEF ActionsInv, DoneIsApplied, Past, ServedBy
<1>11. FileIsBehind'  BY <1>1, <1>2, <1>3 DEF ActionsInv, FileIsBehind
<1>12. CarriedOutOnce'  BY <1>3 DEF ActionsInv, CarriedOutOnce
<1> QED BY <1>2, <1>5, <1>6, <1>7, <1>8, <1>9, <1>10, <1>11, <1>12 DEF ActionsInv, StockAccounted

LEMMA StageRestockKeeps ==
  ASSUME ActionsInv, NEW l \in Pieces, StageRestock(l)
  PROVE  ActionsInv'
<1>1. PICK units \in Arrivals :
        /\ onHand[l] + units <= MaxOnHand
        /\ StageAction([kind |-> "restock", listing |-> l, before |-> onHand[l],
                        after |-> onHand[l] + units, status |-> "staged"])
  BY DEF StageRestock
<1>2. onHand[l] \in 0 .. MaxOnHand /\ units \in Nat
  BY StockActionsAssumption DEF ActionsInv, StockActionsTypeOK
<1>3. onHand[l] + units \in 0 .. MaxOnHand  BY <1>1, <1>2, StockActionsAssumption
<1> DEFINE action == [kind |-> "restock", listing |-> l, before |-> onHand[l],
                      after |-> onHand[l] + units, status |-> "staged"]
<1>4. action \in StagedAction /\ action.status = "staged"  BY <1>2, <1>3 DEF StagedAction
<1>5. StageAction(action)  BY <1>1
<1> HIDE DEF action
<1> QED BY <1>4, <1>5, StageActionKeeps

LEMMA StageCampaignKeeps ==
  ASSUME ActionsInv, StageCampaign
  PROVE  ActionsInv'
<1> DEFINE action == [kind |-> "campaign", status |-> "staged"]
<1>1. action \in StagedAction /\ action.status = "staged"  BY DEF StagedAction
<1>2. StageAction(action)  BY DEF StageCampaign
<1> HIDE DEF action
<1> QED BY <1>1, <1>2, StageActionKeeps

LEMMA SaveActionsKeeps ==
  ASSUME ActionsInv, SaveActions
  PROVE  ActionsInv'
<1>1. /\ actionsSaved' = actions /\ actions' = actions /\ onHand' = onHand /\ inHouse' = inHouse
      /\ serving' = serving /\ carriedOut' = carriedOut /\ unfinished' = unfinished
  BY DEF SaveActions
<1> QED BY <1>1
  DEF ActionsInv, StockActionsTypeOK, ServedAreKnown, SeenIsStock, Past, Restocks, ServedBy,
      ServedOnce,
      DoneWhenPast, DoneIsApplied, FileIsBehind, StockAccounted, CarriedOutOnce

\* The status of a staged change becomes another.
LEMMA ResolvedFacts ==
  ASSUME StockActionsTypeOK, NEW i \in ActionIds, StagedNow(i), NEW s \in {"applied", "discarded"},
         actions' = [actions EXCEPT ![i].status = s]
  PROVE  /\ actions' \in [ActionIds -> StagedAction \cup {NoAction}]
         /\ \A j \in ActionIds : j # i => actions'[j] = actions[j]
         /\ actions'[i].status = s /\ actions'[i].kind = actions[i].kind
         /\ actions[i].kind = "restock" =>
              /\ actions'[i].listing = actions[i].listing /\ actions'[i].before = actions[i].before
         /\ actions[i] # NoAction /\ actions'[i] # NoAction
<1>1. actions[i] \in StagedAction /\ actions[i] # NoAction  BY DEF StagedNow, StockActionsTypeOK
<1>2. actions'[i] = [actions[i] EXCEPT !.status = s]  BY DEF StockActionsTypeOK
<1>3. [actions[i] EXCEPT !.status = s] \in StagedAction  BY <1>1, ActionFields
<1>4. /\ [actions[i] EXCEPT !.status = s].status = s
      /\ [actions[i] EXCEPT !.status = s].kind = actions[i].kind
      /\ actions[i].kind = "restock" =>
           /\ [actions[i] EXCEPT !.status = s].listing = actions[i].listing
           /\ [actions[i] EXCEPT !.status = s].before = actions[i].before
  BY <1>1, ActionFields
<1>5. /\ actions' \in [ActionIds -> StagedAction \cup {NoAction}]
      /\ \A j \in ActionIds : j # i => actions'[j] = actions[j]
  BY <1>3 DEF StockActionsTypeOK
<1> QED BY <1>1, <1>2, <1>3, <1>4, <1>5, NoActionAssumption

LEMMA DiscardKeeps ==
  ASSUME ActionsInv, NEW i \in ActionIds, DiscardAction(i)
  PROVE  ActionsInv'
<1>0. StockActionsTypeOK  BY DEF ActionsInv
<1>1. /\ StagedNow(i) /\ actions' = [actions EXCEPT ![i].status = "discarded"]
      /\ actionsSaved' = actionsSaved \/ actionsSaved' = actions'
      /\ onHand' = onHand /\ inHouse' = inHouse /\ serving' = serving
      /\ carriedOut' = carriedOut /\ unfinished' = unfinished
  BY DEF DiscardAction
<1>2. /\ actions' \in [ActionIds -> StagedAction \cup {NoAction}]
      /\ \A j \in ActionIds : j # i => actions'[j] = actions[j]
      /\ actions'[i].status = "discarded" /\ actions'[i].kind = actions[i].kind
      /\ actions[i].kind = "restock" =>
           /\ actions'[i].listing = actions[i].listing /\ actions'[i].before = actions[i].before
      /\ actions[i] # NoAction /\ actions'[i] # NoAction
  BY <1>0, <1>1, ResolvedFacts
<1>3. \A a \in Approvals : serving[a] # NoOne => ServedBy(a) \in ActionIds  BY <1>0, ServingFacts
<1>4. StockActionsTypeOK'  BY <1>0, <1>1, <1>2 DEF StockActionsTypeOK
<1>5. ServedAreKnown'  BY <1>1, <1>2, <1>3 DEF ActionsInv, ServedAreKnown, ServedBy
<1>6. SeenIsStock'  BY <1>1, <1>2, <1>3 DEF ActionsInv, SeenIsStock, Past, Restocks, ServedBy
<1>7. ServedOnce' /\ DoneWhenPast'  BY <1>1 DEF ActionsInv, ServedOnce, DoneWhenPast, ServedBy
<1>8. DoneIsApplied'
  <2> SUFFICES ASSUME NEW j \in ActionIds, j \notin unfinished', carriedOut'[j] > 0,
        actions'[j] # NoAction
               PROVE  \/ actions'[j].status = "applied"
                      \/ \E a \in Approvals : Past(a, "mark")' /\ ServedBy(a)' = j
    BY DEF DoneIsApplied
  <2>1. \/ actions[j].status = "applied"
        \/ \E a \in Approvals : Past(a, "mark") /\ ServedBy(a) = j
    BY <1>1, <1>2 DEF ActionsInv, DoneIsApplied
  <2>2. j = i => actions[j].status = "staged"  BY <1>1 DEF StagedNow
  <2> QED BY <1>1, <1>2, <2>1, <2>2 DEF Past, ServedBy
<1>9. FileIsBehind'
  <2>1. CASE actionsSaved' = actions'  BY <2>1 DEF FileIsBehind
  <2>2. CASE actionsSaved' = actionsSaved
    <3>1. actionsSaved[i] # NoAction => actionsSaved[i].status = "staged"
      BY <1>1 DEF ActionsInv, FileIsBehind, StagedNow
    <3> QED BY <1>2, <2>2, <3>1 DEF ActionsInv, FileIsBehind
  <2> QED BY <1>1, <2>1, <2>2
<1>10. CarriedOutOnce'
  BY <1>1, <1>2 DEF ActionsInv, CarriedOutOnce
<1> QED BY <1>1, <1>4, <1>5, <1>6, <1>7, <1>8, <1>9, <1>10 DEF ActionsInv, StockAccounted

LEMMA BeginApprovalKeeps ==
  ASSUME ActionsInv, NEW a \in Approvals, NEW i \in ActionIds, BeginApproval(a, i)
  PROVE  ActionsInv'
<1>0. StockActionsTypeOK  BY DEF ActionsInv
<1>1. PICK step \in {"check", "write"} :
        /\ step = IF actions[i].kind = "restock" THEN "check" ELSE "write"
        /\ serving' = [serving EXCEPT ![a] = [at |-> step, id |-> i, blind |-> FALSE]]
  BY DEF BeginApproval
<1>2. /\ serving[a] = NoOne /\ StagedNow(i)
      /\ unfinished' = IF \E other \in Approvals : serving[other] # NoOne /\ ServedBy(other) = i
                       THEN unfinished \cup {i} ELSE unfinished
      /\ onHand' = onHand /\ inHouse' = inHouse /\ actions' = actions
      /\ actionsSaved' = actionsSaved /\ carriedOut' = carriedOut
  BY DEF BeginApproval
<1>3. /\ serving'[a].at = step /\ serving'[a].id = i /\ serving'[a] # NoOne
      /\ serving' \in [Approvals -> Approval \cup {NoOne}]
      /\ \A b \in Approvals : b # a => serving'[b] = serving[b]
  <2>1. [at |-> step, id |-> i, blind |-> FALSE] \in Approval  BY DEF Approval
  <2> QED BY <1>0, <1>1, <2>1 DEF StockActionsTypeOK, NoOne
<1>4. /\ actions[i] # NoAction /\ actions[i].status = "staged"
      /\ step = "check" => actions[i].kind = "restock"
      /\ step = "write" => actions[i].kind # "restock"
  BY <1>1, <1>2 DEF StagedNow
<1>5. StockActionsTypeOK'  BY <1>0, <1>2, <1>3 DEF StockActionsTypeOK
<1>6. ServedAreKnown'  BY <1>2, <1>3, <1>4 DEF ActionsInv, ServedAreKnown, ServedBy
<1>7. SeenIsStock'
  BY <1>2, <1>3, <1>4 DEF ActionsInv, SeenIsStock, Past, Restocks, ServedBy
<1>8. ServedOnce'
  BY <1>2, <1>3 DEF ActionsInv, ServedOnce, ServedBy
<1>9. i \notin unfinished' => carriedOut[i] = 0
  <2>1. SUFFICES ASSUME i \notin unfinished', carriedOut[i] # 0 PROVE FALSE  OBVIOUS
  <2>2. carriedOut[i] > 0 /\ i \notin unfinished
    BY <1>0, <1>2, <2>1 DEF StockActionsTypeOK
  <2>3. \E b \in Approvals : Past(b, "mark") /\ ServedBy(b) = i
    BY <1>4, <2>2 DEF ActionsInv, DoneIsApplied
  <2> QED BY <1>2, <2>1, <2>3 DEF Past
<1>10. DoneWhenPast'
  BY <1>1, <1>2, <1>3, <1>9 DEF ActionsInv, DoneWhenPast, ServedBy
<1>11. DoneIsApplied'
  <2> SUFFICES ASSUME NEW j \in ActionIds, j \notin unfinished', carriedOut'[j] > 0,
        actions'[j] # NoAction
               PROVE  \/ actions'[j].status = "applied"
                      \/ \E b \in Approvals : Past(b, "mark")' /\ ServedBy(b)' = j
    BY DEF DoneIsApplied
  <2>1. j \notin unfinished  BY <1>2
  <2>2. CASE actions[j].status = "applied"  BY <1>2, <2>2
  <2>3. CASE \E b \in Approvals : Past(b, "mark") /\ ServedBy(b) = j
    <3>1. PICK b \in Approvals : Past(b, "mark") /\ ServedBy(b) = j  BY <2>3
    <3>2. b # a  BY <1>2, <3>1 DEF Past
    <3> QED BY <1>3, <3>1, <3>2 DEF Past, ServedBy
  <2> QED BY <1>2, <2>1, <2>2, <2>3 DEF ActionsInv, DoneIsApplied
<1>12. FileIsBehind'  BY <1>2 DEF ActionsInv, FileIsBehind
<1>13. CarriedOutOnce'  BY <1>2 DEF ActionsInv, CarriedOutOnce
<1> QED BY <1>2, <1>5, <1>6, <1>7, <1>8, <1>10, <1>11, <1>12, <1>13 DEF ActionsInv, StockAccounted

\* An approval ends: it has changed nothing, or its change is unfinished.
LEMMA LeavesKeeps ==
  ASSUME ActionsInv, NEW a \in Approvals, serving[a] # NoOne,
         serving' = [serving EXCEPT ![a] = NoOne],
         \/ serving[a].at # "mark" /\ unfinished' = unfinished
         \/ unfinished' = unfinished \cup {ServedBy(a)},
         onHand' = onHand, inHouse' = inHouse, actions' = actions, actionsSaved' = actionsSaved,
         carriedOut' = carriedOut
  PROVE  ActionsInv'
<1>0. StockActionsTypeOK  BY DEF ActionsInv
<1>1. /\ serving' \in [Approvals -> Approval \cup {NoOne}] /\ serving'[a] = NoOne
      /\ \A b \in Approvals : b # a => serving'[b] = serving[b]
      /\ \A b \in Approvals : serving'[b] # NoOne => serving'[b] = serving[b] /\ b # a
  BY <1>0 DEF StockActionsTypeOK
<1>2. /\ ServedBy(a) \in ActionIds /\ unfinished \subseteq unfinished'
      /\ \A i \in ActionIds : i \notin unfinished' => i \notin unfinished
  BY <1>0, ServingFacts
<1>3. StockActionsTypeOK'  BY <1>0, <1>1, <1>2 DEF StockActionsTypeOK
<1>4. ServedAreKnown'  BY <1>1 DEF ActionsInv, ServedAreKnown, ServedBy
<1>5. SeenIsStock'  BY <1>1 DEF ActionsInv, SeenIsStock, Past, Restocks, ServedBy
<1>6. ServedOnce'  BY <1>1, <1>2 DEF ActionsInv, ServedOnce, ServedBy
<1>7. DoneWhenPast'  BY <1>1, <1>2 DEF ActionsInv, DoneWhenPast, ServedBy
<1>8. DoneIsApplied'
  <2> SUFFICES ASSUME NEW j \in ActionIds, j \notin unfinished', carriedOut'[j] > 0,
        actions'[j] # NoAction
               PROVE  \/ actions'[j].status = "applied"
                      \/ \E b \in Approvals : Past(b, "mark")' /\ ServedBy(b)' = j
    BY DEF DoneIsApplied
  <2>1. j \notin unfinished  BY <1>2
  <2>2. CASE actions[j].status = "applied"  BY <2>2
  <2>3. CASE \E b \in Approvals : Past(b, "mark") /\ ServedBy(b) = j
    <3>1. PICK b \in Approvals : Past(b, "mark") /\ ServedBy(b) = j  BY <2>3
    <3>2. b # a  BY <3>1 DEF Past
    <3> QED BY <1>1, <3>1, <3>2 DEF Past, ServedBy
  <2> QED BY <2>1, <2>2, <2>3 DEF ActionsInv, DoneIsApplied
<1>9. FileIsBehind' /\ StockAccounted'  BY DEF ActionsInv, FileIsBehind, StockAccounted
<1>10. CarriedOutOnce'  BY <1>2 DEF ActionsInv, CarriedOutOnce
<1> QED BY <1>3, <1>4, <1>5, <1>6, <1>7, <1>8, <1>9, <1>10 DEF ActionsInv

LEMMA CompareStockKeeps ==
  ASSUME ActionsInv, NEW a \in Approvals, CompareStock(a)
  PROVE  ActionsInv'
<1>0. StockActionsTypeOK  BY DEF ActionsInv
<1>1. /\ serving[a] # NoOne /\ serving[a].at = "check"
      /\ onHand' = onHand /\ inHouse' = inHouse /\ actions' = actions
           /\ actionsSaved' = actionsSaved
      /\ carriedOut' = carriedOut /\ unfinished' = unfinished
  BY DEF CompareStock, Past
<1>2. CASE serving' = [serving EXCEPT ![a] = NoOne]  BY <1>1, <1>2, LeavesKeeps
<1>3. ASSUME NEW call \in Approval, call.at = "write", call.id = serving[a].id,
             serving' = [serving EXCEPT ![a] = call],
             ~call.blind => onHand[actions[ServedBy(a)].listing] = actions[ServedBy(a)].before
      PROVE  ActionsInv'
  <2>1. ServedBy(a) \in ActionIds /\ serving[a].id = ServedBy(a)
    BY <1>0, <1>1, ServingFacts
    DEF ServedBy
  <2>2. /\ serving'[a].at = "write" /\ serving'[a].id = serving[a].id
             /\ serving'[a].blind = call.blind
        /\ serving'[a] # NoOne
        /\ serving' \in [Approvals -> Approval \cup {NoOne}]
        /\ \A b \in Approvals : b # a => serving'[b] = serving[b]
    BY <1>0, <1>3 DEF StockActionsTypeOK, NoOne
  <2>3. StockActionsTypeOK'  BY <1>0, <1>1, <2>2 DEF StockActionsTypeOK
  <2>4. ServedAreKnown'  BY <1>1, <2>2 DEF ActionsInv, ServedAreKnown, ServedBy
  <2>5. SeenIsStock'  BY <1>1, <1>3, <2>2 DEF ActionsInv, SeenIsStock, Past, Restocks, ServedBy
  <2>6. ServedOnce'  BY <1>1, <2>2 DEF ActionsInv, ServedOnce, ServedBy
  <2>7. DoneWhenPast'  BY <1>1, <2>2 DEF ActionsInv, DoneWhenPast, ServedBy
  <2>8. DoneIsApplied'  BY <1>1, <2>2 DEF ActionsInv, DoneIsApplied, Past, ServedBy
  <2>9. FileIsBehind' /\ StockAccounted' /\ CarriedOutOnce'
    BY <1>1 DEF ActionsInv, FileIsBehind, StockAccounted, CarriedOutOnce
  <2> QED BY <2>3, <2>4, <2>5, <2>6, <2>7, <2>8, <2>9 DEF ActionsInv
<1>4. serving[a] \in Approval  BY <1>0, <1>1, ServingFacts
<1>5. CASE /\ onHand[actions[ServedBy(a)].listing] = actions[ServedBy(a)].before
           /\ serving' = [serving EXCEPT ![a].at = "write"]
  <2> DEFINE call == [serving[a] EXCEPT !.at = "write"]
  <2>1. call \in Approval /\ call.at = "write" /\ call.id = serving[a].id  BY <1>4 DEF Approval
  <2>2. serving' = [serving EXCEPT ![a] = call]  BY <1>0, <1>5 DEF StockActionsTypeOK
  <2> HIDE DEF call
  <2> QED BY <1>3, <1>5, <2>1, <2>2
<1>6. CASE serving' = [serving EXCEPT ![a].at = "write", ![a].blind = TRUE]
  <2> DEFINE call == [[serving[a] EXCEPT !.at = "write"] EXCEPT !.blind = TRUE]
  <2>1. call \in Approval /\ call.at = "write" /\ call.id = serving[a].id /\ call.blind
    BY <1>4 DEF Approval
  <2>2. serving' = [serving EXCEPT ![a] = call]  BY <1>0, <1>6 DEF StockActionsTypeOK
  <2> HIDE DEF call
  <2> QED BY <1>3, <2>1, <2>2
<1> QED BY <1>2, <1>5, <1>6 DEF CompareStock

\* The change has been carried out: its approval goes on to mark it, or leaves it unfinished.
LEMMA CarriedOutKeeps ==
  ASSUME ActionsInv, NEW a \in Approvals, Past(a, "write"),
         NEW calls \in [Approvals -> Approval \cup {NoOne}],
         \A b \in Approvals :
           /\ calls[b] = NoOne <=> serving[b] = NoOne
           /\ serving[b] # NoOne => calls[b].at = serving[b].at /\ calls[b].id = serving[b].id,
         AfterCall(a, calls),
         carriedOut' = [carriedOut EXCEPT ![ServedBy(a)] = IF @ < 2 THEN @ + 1 ELSE @],
         actions' = actions, actionsSaved' = actionsSaved
  PROVE  /\ serving' \in [Approvals -> Approval \cup {NoOne}] /\ unfinished' \subseteq ActionIds
         /\ carriedOut' \in [ActionIds -> 0 .. 2]
         /\ serving'[a] = NoOne \/ serving'[a].at = "mark"
         /\ \A b \in Approvals : b # a => serving'[b] = calls[b]
         /\ (ServedAreKnown /\ ServedOnce /\ DoneWhenPast /\ DoneIsApplied /\ FileIsBehind /\ CarriedOutOnce)'
<1>0. StockActionsTypeOK  BY DEF ActionsInv
<1> DEFINE i == ServedBy(a)
<1>1. serving[a] # NoOne /\ serving[a].at = "write" /\ i \in ActionIds /\ serving[a].id = i
  BY <1>0, ServingFacts DEF Past, ServedBy
<1>2. calls[a] \in Approval /\ calls[a].id = i  BY <1>1
<1>3. /\ [calls[a] EXCEPT !.at = "mark"] \in Approval
      /\ [calls[a] EXCEPT !.at = "mark"].at = "mark" /\ [calls[a] EXCEPT !.at = "mark"].id = i
  BY <1>2 DEF Approval
<1>4. /\ serving' \in [Approvals -> Approval \cup {NoOne}]
      /\ \A b \in Approvals : b # a => serving'[b] = calls[b]
      /\ \/ serving'[a] # NoOne /\ serving'[a].at = "mark" /\ serving'[a].id = i
              /\ unfinished' = unfinished
         \/ serving'[a] = NoOne /\ unfinished' = unfinished \cup {i}
  <2>1. NoOne.at = "idle"  BY DEF NoOne
  <2>2. CASE serving' = [calls EXCEPT ![a].at = "mark"] /\ unfinished' = unfinished
    <3>1. serving'[a] = [calls[a] EXCEPT !.at = "mark"] /\ \A b \in Approvals : b # a =>
            serving'[b] = calls[b]
      BY <2>2
    <3>2. serving' \in [Approvals -> Approval \cup {NoOne}]
      <4>1. serving' = [calls EXCEPT ![a] = [calls[a] EXCEPT !.at = "mark"]]  BY <2>2
      <4> QED BY <1>3, <4>1
    <3> QED BY <1>3, <2>1, <2>2, <3>1, <3>2
  <2>3. CASE serving' = [calls EXCEPT ![a] = NoOne] /\ unfinished' = unfinished \cup {ServedBy(a)}
    BY <2>3
  <2> QED BY <2>2, <2>3 DEF AfterCall
<1>5. /\ unfinished' \subseteq ActionIds
      /\ \A j \in ActionIds : j \notin unfinished' => j \notin unfinished
  BY <1>0, <1>1, <1>4 DEF StockActionsTypeOK
<1>6. /\ carriedOut' \in [ActionIds -> 0 .. 2] /\ carriedOut'[i] > 0
      /\ \A j \in ActionIds : j # i => carriedOut'[j] = carriedOut[j]
      /\ carriedOut[i] = 0 => carriedOut'[i] = 1
  BY <1>0, <1>1 DEF StockActionsTypeOK
<1>7. i \notin unfinished =>
        carriedOut[i] = 0 /\ \A b \in Approvals : serving[b] # NoOne /\ serving[b].id = i => b = a
  BY <1>1 DEF ActionsInv, DoneWhenPast, ServedOnce, ServedBy
<1>8. \A b \in Approvals : serving'[b] # NoOne =>
        /\ serving[b] # NoOne /\ serving'[b].id = serving[b].id /\ serving[b].id \in ActionIds
        /\ b # a => serving'[b].at = serving[b].at
  BY <1>0, <1>1, <1>4, ServingFacts DEF ServedBy
<1>9. \A b \in Approvals : b # a /\ serving[b] # NoOne =>
        serving'[b] # NoOne /\ serving'[b].at = serving[b].at /\ serving'[b].id = serving[b].id
  BY <1>4
<1> HIDE DEF i
<1>10. ServedAreKnown'  BY <1>4, <1>8 DEF ActionsInv, ServedAreKnown, ServedBy
<1>11. ServedOnce'  BY <1>5, <1>8 DEF ActionsInv, ServedOnce, ServedBy
<1>12. DoneWhenPast'
  <2> SUFFICES ASSUME NEW b \in Approvals, serving'[b] # NoOne
               PROVE  /\ serving'[b].at = "mark" => carriedOut'[serving'[b].id] > 0
                      /\ serving'[b].at # "mark" /\ serving'[b].id \notin unfinished' =>
                           carriedOut'[serving'[b].id] = 0
    BY DEF DoneWhenPast, ServedBy
  <2>1. CASE b = a  BY <1>4, <1>6, <2>1
  <2>2. CASE b # a
    <3>1. /\ serving[b].at = "mark" => carriedOut[serving[b].id] > 0
          /\ serving[b].at # "mark" /\ serving[b].id \notin unfinished =>
               carriedOut[serving[b].id] = 0
      BY <1>8 DEF ActionsInv, DoneWhenPast, ServedBy
    <3>2. serving[b].id = i => i \in unfinished  BY <1>7, <1>8, <2>2
    <3> QED BY <1>5, <1>6, <1>8, <2>2, <3>1, <3>2
  <2> QED BY <2>1, <2>2
<1>13. DoneIsApplied'
  <2> SUFFICES ASSUME NEW j \in ActionIds, j \notin unfinished', carriedOut'[j] > 0,
        actions'[j] # NoAction
               PROVE  \/ actions'[j].status = "applied"
                      \/ \E b \in Approvals :
                           serving'[b] # NoOne /\ serving'[b].at = "mark" /\ serving'[b].id = j
    BY DEF DoneIsApplied, Past, ServedBy
  <2>1. CASE j = i  BY <1>4, <2>1
  <2>2. CASE j # i
    <3>1. \/ actions[j].status = "applied"
          \/ \E b \in Approvals : serving[b] # NoOne /\ serving[b].at = "mark" /\ serving[b].id = j
      BY <1>5, <1>6, <2>2 DEF ActionsInv, DoneIsApplied, Past, ServedBy
    <3> QED BY <1>1, <1>9, <3>1
  <2> QED BY <2>1, <2>2
<1>14. CarriedOutOnce'
  <2> SUFFICES ASSUME NEW j \in ActionIds
               PROVE  /\ carriedOut'[j] > 1 => j \in unfinished'
                      /\ actions'[j] # NoAction /\ actions'[j].status = "applied" =>
                           carriedOut'[j] > 0
    BY DEF CarriedOutOnce
  <2>1. CASE j = i  BY <1>4, <1>6, <1>7, <2>1
  <2>2. CASE j # i
    <3>1. carriedOut[j] > 1 => j \in unfinished  BY DEF ActionsInv, CarriedOutOnce
    <3> QED BY <1>5, <1>6, <2>2, <3>1 DEF ActionsInv, CarriedOutOnce
  <2> QED BY <2>1, <2>2
<1>15. FileIsBehind'  BY DEF ActionsInv, FileIsBehind
<1> QED BY <1>4, <1>5, <1>6, <1>10, <1>11, <1>12, <1>13, <1>14, <1>15

LEMMA WriteStockKeeps ==
  ASSUME ActionsInv, NEW a \in Approvals, WriteStock(a)
  PROVE  ActionsInv'
<1>0. StockActionsTypeOK /\ onHand = inHouse  BY DEF ActionsInv, StockAccounted
<1> DEFINE i == ServedBy(a)
           l == actions[i].listing
           n == actions[i].after
<1>1. /\ Past(a, "write") /\ actions[i].kind = "restock"
      /\ onHand' = [onHand EXCEPT ![l] = n]
      /\ inHouse' = [inHouse EXCEPT ![l] = IF Blind(a) THEN onHand'[l] ELSE @ + (n - actions[i].before)]
      /\ carriedOut' = [carriedOut EXCEPT ![i] = IF @ < 2 THEN @ + 1 ELSE @]
      /\ AfterCall(a, Noted(l, n)) /\ actions' = actions /\ actionsSaved' = actionsSaved
  BY DEF WriteStock
<1>2. /\ serving[a] # NoOne /\ serving[a].at = "write" /\ i \in ActionIds
      /\ actions[i] # NoAction /\ actions[i] \in StagedAction
  BY <1>0, <1>1, ServingFacts DEF Past, ActionsInv, ServedAreKnown, StockActionsTypeOK
<1>3. l \in Pieces /\ n \in 0 .. MaxOnHand /\ actions[i].before \in 0 .. MaxOnHand /\ Restocks(i, l)
  BY <1>1, <1>2, ActionFields DEF Restocks
<1> DEFINE calls == Noted(l, n)
<1>4. /\ calls \in [Approvals -> Approval \cup {NoOne}]
      /\ \A b \in Approvals :
           /\ calls[b] = NoOne <=> serving[b] = NoOne
           /\ serving[b] # NoOne =>
                /\ calls[b].at = serving[b].at /\ calls[b].id = serving[b].id
                /\ serving[b].blind => calls[b].blind
                /\ serving[b].at = "write" /\ Restocks(ServedBy(b), l) /\ n # onHand[l] =>
                     calls[b].blind
  BY <1>0, <1>3, NotedFacts
<1>5. AfterCall(a, calls)  BY <1>1
<1> HIDE DEF calls
<1>6. /\ serving' \in [Approvals -> Approval \cup {NoOne}] /\ unfinished' \subseteq ActionIds
      /\ carriedOut' \in [ActionIds -> 0 .. 2]
      /\ serving'[a] = NoOne \/ serving'[a].at = "mark"
      /\ \A b \in Approvals : b # a => serving'[b] = calls[b]
      /\ (ServedAreKnown /\ ServedOnce /\ DoneWhenPast /\ DoneIsApplied /\ FileIsBehind /\ CarriedOutOnce)'
  BY <1>1, <1>4, <1>5, CarriedOutKeeps
<1>7. ~serving[a].blind => onHand[l] = actions[i].before
  BY <1>1, <1>3 DEF ActionsInv, SeenIsStock
<1>8. onHand'[l] = n /\ inHouse'[l] = n /\ \A m \in Pieces : m # l => onHand'[m] = onHand[m]
  <2>1. onHand'[l] = n  BY <1>0, <1>1, <1>3 DEF StockActionsTypeOK
  <2>2. inHouse'[l] = IF Blind(a) THEN n ELSE inHouse[l] + (n - actions[i].before)
    BY <1>0, <1>1, <1>3, <2>1 DEF StockActionsTypeOK
  <2>3. ~Blind(a) => inHouse[l] = actions[i].before  BY <1>0, <1>7 DEF Blind
  <2>4. inHouse'[l] = n
    <3>1. CASE Blind(a)  BY <2>2, <3>1
    <3>2. CASE ~Blind(a)
      <4>1. inHouse'[l] = actions[i].before + (n - actions[i].before)  BY <2>2, <2>3, <3>2
      <4> HIDE DEF n, l, i
      <4> QED BY <1>3, <4>1
    <3> QED BY <3>1, <3>2
  <2> QED BY <1>0, <1>1, <1>3, <2>1, <2>4 DEF StockActionsTypeOK
<1>9. onHand' \in [Pieces -> 0 .. MaxOnHand] /\ inHouse' = onHand'
  <2>1. onHand' \in [Pieces -> 0 .. MaxOnHand]  BY <1>0, <1>1, <1>3 DEF StockActionsTypeOK
  <2>2. inHouse' = [inHouse EXCEPT ![l] = n]  BY <1>0, <1>1, <1>3, <1>8 DEF StockActionsTypeOK
  <2> QED BY <1>0, <1>1, <2>1, <2>2
<1>10. 0 .. MaxOnHand \subseteq Stock  BY StockActionsAssumption DEF Stock
<1>11. StockActionsTypeOK'
  BY <1>0, <1>1, <1>6, <1>9, <1>10 DEF StockActionsTypeOK
<1>12. SeenIsStock'
  <2> SUFFICES ASSUME NEW b \in Approvals, Past(b, "write")', ~serving'[b].blind,
                      NEW m \in Pieces, Restocks(ServedBy(b), m)'
               PROVE  onHand'[m] = actions'[ServedBy(b)'].before
    BY DEF SeenIsStock
  <2>1. serving'[b] # NoOne /\ serving'[b].at = "write"  BY DEF Past
  <2>2. b # a /\ serving'[b] = calls[b]  BY <1>6, <2>1
  <2>3. /\ serving[b] # NoOne /\ serving[b].at = "write" /\ serving'[b].id = serving[b].id
        /\ ~(Restocks(ServedBy(b), l) /\ n # onHand[l])
    BY <1>4, <2>1, <2>2
  <2>4. ~serving[b].blind  BY <1>4, <2>2, <2>3
  <2>5. Restocks(ServedBy(b), m)  BY <1>1, <2>3 DEF Restocks, ServedBy
  <2>6. onHand[m] = actions[ServedBy(b)].before
    BY <2>3, <2>4, <2>5 DEF ActionsInv, SeenIsStock, Past
  <2>7. m = l => n = onHand[l]  BY <2>3, <2>5
  <2>8. onHand'[m] = onHand[m]  BY <1>8, <2>7
  <2> QED BY <1>1, <2>3, <2>6, <2>8 DEF ServedBy
<1> QED BY <1>6, <1>9, <1>11, <1>12 DEF ActionsInv, StockAccounted

LEMMA CreateCampaignKeeps ==
  ASSUME ActionsInv, NEW a \in Approvals, CreateCampaign(a)
  PROVE  ActionsInv'
<1>0. StockActionsTypeOK  BY DEF ActionsInv
<1>1. /\ Past(a, "write") /\ AfterCall(a, serving)
      /\ carriedOut' = [carriedOut EXCEPT ![ServedBy(a)] = IF @ < 2 THEN @ + 1 ELSE @]
      /\ onHand' = onHand /\ inHouse' = inHouse /\ actions' = actions
           /\ actionsSaved' = actionsSaved
  BY DEF CreateCampaign
<1>2. serving \in [Approvals -> Approval \cup {NoOne}]  BY <1>0 DEF StockActionsTypeOK
<1>3. /\ serving' \in [Approvals -> Approval \cup {NoOne}] /\ unfinished' \subseteq ActionIds
      /\ carriedOut' \in [ActionIds -> 0 .. 2]
      /\ serving'[a] = NoOne \/ serving'[a].at = "mark"
      /\ \A b \in Approvals : b # a => serving'[b] = serving[b]
      /\ (ServedAreKnown /\ ServedOnce /\ DoneWhenPast /\ DoneIsApplied /\ FileIsBehind /\ CarriedOutOnce)'
  BY <1>1, <1>2, CarriedOutKeeps
<1>4. StockActionsTypeOK'  BY <1>0, <1>1, <1>3 DEF StockActionsTypeOK
<1>5. SeenIsStock'  BY <1>1, <1>3 DEF ActionsInv, SeenIsStock, Past, Restocks, ServedBy
<1> QED BY <1>1, <1>3, <1>4, <1>5 DEF ActionsInv, StockAccounted

\* The ledger learns that a change was carried out.
LEMMA MarkActionKeeps ==
  ASSUME ActionsInv, NEW a \in Approvals, MarkAction(a)
  PROVE  ActionsInv'
<1>0. StockActionsTypeOK  BY DEF ActionsInv
<1> DEFINE i == ServedBy(a)
<1>1. /\ serving[a] # NoOne /\ serving[a].at = "mark" /\ i \in ActionIds /\ serving[a].id = i
      /\ serving' = [serving EXCEPT ![a] = NoOne]
      /\ onHand' = onHand /\ inHouse' = inHouse /\ carriedOut' = carriedOut
  BY <1>0, ServingFacts DEF MarkAction, Past, ServedBy
<1>2. CASE ~StagedNow(i)
  BY <1>1, <1>2, LeavesKeeps DEF MarkAction
<1>3. CASE StagedNow(i)
  <2>1. /\ actions' = [actions EXCEPT ![i].status = "applied"] /\ actionsSaved' = actions'
        /\ unfinished' = unfinished
    BY <1>3 DEF MarkAction
  <2> HIDE DEF i
  <2>2. /\ actions' \in [ActionIds -> StagedAction \cup {NoAction}]
        /\ \A j \in ActionIds : j # i => actions'[j] = actions[j]
        /\ actions'[i].status = "applied" /\ actions'[i].kind = actions[i].kind
        /\ actions[i].kind = "restock" =>
             /\ actions'[i].listing = actions[i].listing /\ actions'[i].before = actions[i].before
        /\ actions[i] # NoAction /\ actions'[i] # NoAction
    BY <1>0, <1>1, <1>3, <2>1, ResolvedFacts
  <2>3. /\ serving' \in [Approvals -> Approval \cup {NoOne}] /\ serving'[a] = NoOne
        /\ \A b \in Approvals : b # a => serving'[b] = serving[b]
        /\ \A b \in Approvals : serving'[b] # NoOne => serving'[b] = serving[b] /\ b # a
        /\ \A b \in Approvals : serving[b] # NoOne => serving[b].id \in ActionIds
    BY <1>0, <1>1, ServingFacts DEF StockActionsTypeOK, ServedBy
  <2>4. StockActionsTypeOK'  BY <1>0, <1>1, <2>1, <2>2, <2>3 DEF StockActionsTypeOK
  <2>5. ServedAreKnown'  BY <2>2, <2>3 DEF ActionsInv, ServedAreKnown, ServedBy
  <2>6. SeenIsStock'  BY <1>1, <2>2, <2>3 DEF ActionsInv, SeenIsStock, Past, Restocks, ServedBy
  <2>7. ServedOnce'  BY <2>1, <2>3 DEF ActionsInv, ServedOnce, ServedBy
  <2>8. DoneWhenPast'  BY <1>1, <2>1, <2>3 DEF ActionsInv, DoneWhenPast, ServedBy
  <2>9. DoneIsApplied'
    <3> SUFFICES ASSUME NEW j \in ActionIds, j \notin unfinished', carriedOut'[j] > 0,
          actions'[j] # NoAction
                 PROVE  \/ actions'[j].status = "applied"
                        \/ \E b \in Approvals :
                             serving'[b] # NoOne /\ serving'[b].at = "mark" /\ serving'[b].id = j
      BY DEF DoneIsApplied, Past, ServedBy
    <3>1. CASE j = i  BY <2>2, <3>1
    <3>2. CASE j # i
      <4>1. \/ actions[j].status = "applied"
            \/ \E b \in Approvals :
                 serving[b] # NoOne /\ serving[b].at = "mark" /\ serving[b].id = j
        BY <1>1, <2>1, <2>2, <3>2 DEF ActionsInv, DoneIsApplied, Past, ServedBy
      <4> QED BY <1>1, <2>2, <2>3, <3>2, <4>1
    <3> QED BY <3>1, <3>2
  <2>10. FileIsBehind'  BY <2>1 DEF FileIsBehind
  <2>11. CarriedOutOnce'
    <3>1. carriedOut[i] > 0  BY <1>1 DEF ActionsInv, DoneWhenPast, ServedBy
    <3> QED BY <1>1, <2>1, <2>2, <3>1 DEF ActionsInv, CarriedOutOnce
  <2> QED BY <1>1, <2>4, <2>5, <2>6, <2>7, <2>8, <2>9, <2>10, <2>11 DEF ActionsInv, StockAccounted
<1> QED BY <1>2, <1>3

\* The host stops and reads its ledger again.
LEMMA LedgerRestartKeeps ==
  ASSUME ActionsInv, LedgerRestart
  PROVE  ActionsInv'
<1>0. StockActionsTypeOK  BY DEF ActionsInv
<1>1. /\ actionsSaved' = actionsSaved \/ actionsSaved' = [i \in ActionIds |-> NoAction]
      /\ actions' = actionsSaved' /\ serving' = [a \in Approvals |-> NoOne]
      /\ unfinished' = unfinished \cup {ServedBy(a) : a \in {b \in Approvals : serving[b] # NoOne}}
      /\ onHand' = onHand /\ inHouse' = inHouse /\ carriedOut' = carriedOut
  BY DEF LedgerRestart
<1>2. /\ \A a \in Approvals : serving'[a] = NoOne
      /\ \A a \in Approvals : serving[a] # NoOne => ServedBy(a) \in unfinished'
      /\ unfinished' \subseteq ActionIds /\ unfinished \subseteq unfinished'
  BY <1>0, <1>1, ServingFacts DEF StockActionsTypeOK
<1>3. StockActionsTypeOK'
  <2>1. actions' \in [ActionIds -> StagedAction \cup {NoAction}]
    BY <1>0, <1>1
    DEF StockActionsTypeOK
  <2> QED BY <1>0, <1>1, <1>2, <2>1 DEF StockActionsTypeOK
<1>4. ServedAreKnown' /\ SeenIsStock' /\ ServedOnce' /\ DoneWhenPast'
  BY <1>2 DEF ServedAreKnown, SeenIsStock, Past, ServedOnce, DoneWhenPast
<1>5. \A i \in ActionIds : actions'[i] # NoAction /\ actions'[i].status = "applied" =>
        actions[i] # NoAction /\ actions[i].status = "applied"
  BY <1>1 DEF ActionsInv, FileIsBehind
<1>6. DoneIsApplied'
  <2> SUFFICES ASSUME NEW i \in ActionIds, i \notin unfinished', carriedOut'[i] > 0,
        actions'[i] # NoAction
               PROVE  actions'[i].status = "applied"
    BY DEF DoneIsApplied
  <2>1. /\ actionsSaved[i] # NoAction /\ actions'[i] = actionsSaved[i] /\ actions[i] # NoAction
        /\ actionsSaved[i] = actions[i] \/ actions[i].status # "applied"
    BY <1>1 DEF ActionsInv, FileIsBehind
  <2>2. i \notin unfinished /\ \A a \in Approvals : serving[a] # NoOne => ServedBy(a) # i  BY <1>2
  <2>3. actions[i].status = "applied"
    BY <1>1, <2>1, <2>2 DEF ActionsInv, DoneIsApplied, Past
  <2> QED BY <2>1, <2>3
<1>7. FileIsBehind'  BY <1>1 DEF FileIsBehind
<1>8. CarriedOutOnce'  BY <1>1, <1>2, <1>5 DEF ActionsInv, CarriedOutOnce
<1> QED BY <1>1, <1>3, <1>4, <1>6, <1>7, <1>8 DEF ActionsInv, StockAccounted

LEMMA ActionsStep == ActionsInv /\ [StockActionsNext]_stockActionVars => ActionsInv'
<1> SUFFICES ASSUME ActionsInv, [StockActionsNext]_stockActionVars PROVE ActionsInv'  OBVIOUS
<1>1. CASE UNCHANGED stockActionVars
  BY <1>1
  DEF stockActionVars, ActionsInv, StockActionsTypeOK, ServedAreKnown, SeenIsStock, Past, Restocks,
    ServedBy, ServedOnce, DoneWhenPast, DoneIsApplied, FileIsBehind, StockAccounted, CarriedOutOnce
<1>2. ASSUME NEW a \in Approvals, WriteFails(a) PROVE ActionsInv'
  BY <1>2, LeavesKeeps DEF WriteFails, Past
<1> QED
  BY <1>1, <1>2, OrdersMoveKeeps, StageRestockKeeps, StageCampaignKeeps, SaveActionsKeeps,
     LedgerRestartKeeps, DiscardKeeps, BeginApprovalKeeps, CompareStockKeeps, WriteStockKeeps,
     CreateCampaignKeeps, MarkActionKeeps
  DEF StockActionsNext

(* The ledger, the stock and the approvals of the merchant agent keep their types.          *)
THEOREM StockActionsTypes == StockActionsSpec => []StockActionsTypeOK
<1>1. ActionsInv => StockActionsTypeOK  BY DEF ActionsInv
<1> QED BY <1>1, ActionsBegin, ActionsStep, PTL DEF StockActionsSpec

(* An approved restock or campaign does what it says, once (apply_change): the stock is     *)
(* the units there are, and the ledger calls applied what was done.                       *)
THEOREM ActionsDoneOnce == StockActionsSpec => []ActionsSound
<1>1. ActionsInv => ActionsSound  BY DEF ActionsInv, ActionsSound
<1> QED BY <1>1, ActionsBegin, ActionsStep, PTL DEF StockActionsSpec

-----------------------------------------------------------------------------
(***************************************************************************)
(* The log of what the agents did (ActivityLog).                           *)
(***************************************************************************)
KeptLines == (LogCap * 9) \div 10

Rising(s) == \A i, j \in 1 .. Len(s) : i < j => s[i].act < s[j].act

\* The lines of the file, of so many acts.
FileInv ==
  /\ Rising(logFile)
  /\ \A i \in 1 .. Len(logFile) : logFile[i].act <= acts
  /\ \A n \in 1 .. acts :
       \/ n \in ActsOf(logFile) \cup unlogged
       \/ n <= agedOut \/ n <= acts - KeptLines

\* What the file has grown by since the cap was enforced.
GrowthInv ==
  /\ Len(logFile) <= LogCap + (EnforceEvery - 1) * unchecked + sinceEnforce
  /\ unchecked <= stops

\* The holder of the trace of a running turn has it, and the console that of an asked one.
TraceInv ==
  \A t \in LogTurns :
    /\ chatting[t].at = "asked" => chatting[t].holder = Console
    /\ chatting[t].at = "running" => traceOf[chatting[t].holder] = t \/ t \in outrun
    /\ chatting[t].at \in {"asked", "running"} /\ chatting[t].holder = Console
         => consoleTrace = t \/ t \in outrun

LogInv == LogTypeOK /\ FileInv /\ GrowthInv /\ TraceInv /\ TraceLeadsBack

-----------------------------------------------------------------------------
LEMMA LogConstants ==
  /\ LogCap \in Nat \ {0} /\ EnforceEvery \in Nat \ {0} /\ MaxActs \in Nat /\ MaxStops \in Nat
  /\ KeptLines \in Nat /\ KeptLines <= LogCap
<1>1. LogCap \in Nat \ {0} /\ EnforceEvery \in Nat \ {0} /\ MaxActs \in Nat /\ MaxStops \in Nat
  BY LogAssumption
<1>2. KeptLines \in Nat /\ KeptLines <= LogCap  BY <1>1 DEF KeptLines
<1> QED BY <1>1, <1>2

LEMMA LogLineFacts ==
  ASSUME NEW s \in Seq(Line)
  PROVE  /\ Len(s) \in Nat /\ DOMAIN s = 1 .. Len(s)
         /\ \A i \in 1 .. Len(s) : s[i] \in Line /\ s[i].act \in 1 .. MaxActs /\ s[i].act \in Int
<1>1. Len(s) \in Nat /\ DOMAIN s = 1 .. Len(s) /\ \A i \in 1 .. Len(s) : s[i] \in Line  OBVIOUS
<1>2. \A l \in Line : l.act \in 1 .. MaxActs /\ l.act \in Int  BY DEF Line
<1> QED BY <1>1, <1>2

LEMMA Grows ==
  ASSUME NEW e \in Nat \ {0}, NEW u \in Nat
  PROVE  /\ (e - 1) * (u + 1) = (e - 1) * u + (e - 1)
         /\ (e - 1) * u \in Nat /\ (e - 1) * 0 = 0
OBVIOUS

LEMMA LogBegins == LogInit => LogInv
<1> SUFFICES ASSUME LogInit PROVE LogInv  OBVIOUS
<1>1. /\ logFile = <<>> /\ Len(logFile) = 0 /\ DOMAIN logFile = {}
      /\ acts = 0 /\ unchecked = 0 /\ stops = 0 /\ sinceEnforce = 0
      /\ \A t \in LogTurns : chatting[t] = Waiting /\ chatting[t].at = "waiting"
  BY DEF LogInit, Waiting
<1>2. LogTypeOK
  <2>1. /\ traceOf \in [Holders -> LogTurns \cup {NoTrace}]
        /\ consoleTrace \in LogTurns \cup {NoTrace} /\ fragment \in BOOLEAN
        /\ chatting \in [LogTurns -> [at : {"waiting", "asked", "running", "over"}, holder : Holders]]
    BY DEF LogInit, Waiting, Holders
  <2>2. logFile \in Seq(Line)  BY <1>1
  <2>3. /\ sinceEnforce \in 0 .. EnforceEvery - 1 /\ acts \in 0 .. MaxActs
        /\ agedOut \in 0 .. MaxActs /\ stops \in 0 .. MaxStops /\ unchecked \in 0 .. MaxStops
    BY LogConstants DEF LogInit
  <2>4. unlogged \subseteq 1 .. MaxActs /\ outrun \subseteq LogTurns  BY DEF LogInit
  <2> QED BY <2>1, <2>2, <2>3, <2>4 DEF LogTypeOK
<1>3. FileInv  BY <1>1 DEF FileInv, Rising
<1>4. GrowthInv  BY <1>1, LogConstants, Grows DEF GrowthInv
<1>5. TraceInv /\ TraceLeadsBack  BY <1>1 DEF TraceInv, TraceLeadsBack
<1> QED BY <1>2, <1>3, <1>4, <1>5 DEF LogInv

LEMMA LogTypes ==
  ASSUME LogInv
  PROVE  /\ logFile \in Seq(Line) /\ Len(logFile) \in Nat /\ DOMAIN logFile = 1 .. Len(logFile)
         /\ acts \in Nat /\ acts <= MaxActs /\ agedOut \in 0 .. MaxActs
              /\ unlogged \subseteq 1 .. MaxActs
         /\ sinceEnforce \in 0 .. EnforceEvery - 1
         /\ stops \in Nat /\ stops <= MaxStops /\ unchecked \in Nat /\ unchecked <= MaxStops
         /\ traceOf \in [Holders -> LogTurns \cup {NoTrace}]
              /\ consoleTrace \in LogTurns \cup {NoTrace}
         /\ \A t \in LogTurns : /\ chatting[t] \in [at : {"waiting", "asked", "running", "over"},
                                                    holder : Holders]
                                /\ chatting[t].holder \in Holders
<1>1. LogTypeOK  BY DEF LogInv
<1>2. /\ logFile \in Seq(Line) /\ agedOut \in 0 .. MaxActs /\ unlogged \subseteq 1 .. MaxActs
      /\ sinceEnforce \in 0 .. EnforceEvery - 1
      /\ traceOf \in [Holders -> LogTurns \cup {NoTrace}]
           /\ consoleTrace \in LogTurns \cup {NoTrace}
  BY <1>1 DEF LogTypeOK
<1>3. /\ acts \in Nat /\ acts <= MaxActs
      /\ stops \in Nat /\ stops <= MaxStops /\ unchecked \in Nat /\ unchecked <= MaxStops
  BY <1>1, LogConstants DEF LogTypeOK
<1>4. \A t \in LogTurns :
        /\ chatting[t] \in [at : {"waiting", "asked", "running", "over"}, holder : Holders]
        /\ chatting[t].holder \in Holders
  BY <1>1 DEF LogTypeOK
<1> QED BY <1>2, <1>3, <1>4, LogLineFacts

-----------------------------------------------------------------------------
(* Turns and their traces.                                                  *)

\* A turn begins or ends: the file stays.
LEMMA FileStays ==
  ASSUME LogInv, logFile' = logFile, fragment' = fragment, sinceEnforce' = sinceEnforce,
         acts' = acts, unlogged' = unlogged, agedOut' = agedOut, stops' = stops,
         unchecked' = unchecked, outrun \subseteq outrun', outrun' \subseteq LogTurns,
         traceOf' \in [Holders -> LogTurns \cup {NoTrace}],
         consoleTrace' \in LogTurns \cup {NoTrace},
         chatting' \in [LogTurns -> [at : {"waiting", "asked", "running", "over"}, holder : Holders]],
         TraceInv'
  PROVE  LogInv'
<1>1. LogTypeOK'  BY DEF LogInv, LogTypeOK
<1>2. FileInv' /\ GrowthInv'  BY DEF LogInv, FileInv, GrowthInv, Rising, ActsOf
<1>3. TraceLeadsBack'  BY DEF LogInv, TraceLeadsBack
<1> QED BY <1>1, <1>2, <1>3 DEF LogInv

LEMMA ChatBegins ==
  ASSUME LogInv, NEW t \in LogTurns, NEW c \in Chats, ShopChat(t, c)
  PROVE  LogInv'
<1> DEFINE r == [at |-> "running", holder |-> c]
<1>1. /\ chatting' = [chatting EXCEPT ![t] = r] /\ traceOf' = [traceOf EXCEPT ![c] = t]
      /\ outrun' = outrun \cup Alive(c) /\ consoleTrace' = consoleTrace
      /\ logFile' = logFile /\ fragment' = fragment /\ sinceEnforce' = sinceEnforce
      /\ acts' = acts /\ unlogged' = unlogged /\ agedOut' = agedOut /\ stops' = stops
      /\ unchecked' = unchecked
  BY DEF ShopChat, fileVars
<1>2. /\ r \in [at : {"waiting", "asked", "running", "over"}, holder : Holders]
      /\ r.at = "running" /\ r.holder = c /\ c \in Holders /\ c # Console
  BY LogAssumption DEF Holders
<1> HIDE DEF r
<1>3. /\ traceOf' \in [Holders -> LogTurns \cup {NoTrace}] /\ traceOf'[c] = t
      /\ \A h \in Holders : h # c => traceOf'[h] = traceOf[h]
  BY <1>1, <1>2, LogTypes
<1>4. /\ chatting' \in [LogTurns -> [at : {"waiting", "asked", "running", "over"}, holder : Holders]]
      /\ chatting'[t] = r /\ \A u \in LogTurns : u # t => chatting'[u] = chatting[u]
  BY <1>1, <1>2 DEF LogInv, LogTypeOK
<1>5. outrun \subseteq outrun' /\ outrun' \subseteq LogTurns  BY <1>1 DEF LogInv, LogTypeOK, Alive
<1>6. ASSUME NEW u \in LogTurns
      PROVE  /\ chatting'[u].at = "asked" => chatting'[u].holder = Console
             /\ chatting'[u].at = "running" => traceOf'[chatting'[u].holder] = u \/ u \in outrun'
             /\ chatting'[u].at \in {"asked", "running"} /\ chatting'[u].holder = Console
                  => consoleTrace' = u \/ u \in outrun'
  <2>1. CASE u = t  BY <1>2, <1>3, <1>4, <2>1
  <2>2. CASE u # t
    <3>1. chatting'[u] = chatting[u] /\ chatting[u].holder \in Holders  BY <1>4, <2>2, LogTypes
    <3>2. chatting[u].at = "running" /\ chatting[u].holder = c => u \in outrun'
      BY <1>1 DEF Alive
    <3> QED BY <1>1, <1>3, <1>5, <3>1, <3>2 DEF LogInv, TraceInv
  <2> QED BY <2>1, <2>2
<1>7. TraceInv'  BY <1>6 DEF TraceInv
<1> QED BY <1>1, <1>3, <1>4, <1>5, <1>7, FileStays, LogTypes

LEMMA ConsoleAsks ==
  ASSUME LogInv, NEW t \in LogTurns, MerchantChat(t)
  PROVE  LogInv'
<1> DEFINE r == [at |-> "asked", holder |-> Console]
<1>1. /\ chatting' = [chatting EXCEPT ![t] = r] /\ traceOf' = traceOf
      /\ outrun' = outrun \cup Alive(Console) /\ consoleTrace' = t
      /\ logFile' = logFile /\ fragment' = fragment /\ sinceEnforce' = sinceEnforce
      /\ acts' = acts /\ unlogged' = unlogged /\ agedOut' = agedOut /\ stops' = stops
      /\ unchecked' = unchecked
  BY DEF MerchantChat, fileVars
<1>2. /\ r \in [at : {"waiting", "asked", "running", "over"}, holder : Holders]
      /\ r.at = "asked" /\ r.holder = Console
  BY DEF Holders
<1> HIDE DEF r
<1>4. /\ chatting' \in [LogTurns -> [at : {"waiting", "asked", "running", "over"}, holder : Holders]]
      /\ chatting'[t] = r /\ \A u \in LogTurns : u # t => chatting'[u] = chatting[u]
  BY <1>1, <1>2 DEF LogInv, LogTypeOK
<1>5. outrun \subseteq outrun' /\ outrun' \subseteq LogTurns  BY <1>1 DEF LogInv, LogTypeOK, Alive
<1>6. ASSUME NEW u \in LogTurns
      PROVE  /\ chatting'[u].at = "asked" => chatting'[u].holder = Console
             /\ chatting'[u].at = "running" => traceOf'[chatting'[u].holder] = u \/ u \in outrun'
             /\ chatting'[u].at \in {"asked", "running"} /\ chatting'[u].holder = Console
                  => consoleTrace' = u \/ u \in outrun'
  <2>1. CASE u = t  BY <1>1, <1>2, <1>4, <2>1
  <2>2. CASE u # t
    <3>1. chatting'[u] = chatting[u]  BY <1>4, <2>2
    <3>2. chatting[u].at \in {"asked", "running"} /\ chatting[u].holder = Console => u \in outrun'
      BY <1>1 DEF Alive
    <3> QED BY <1>1, <1>5, <3>1, <3>2 DEF LogInv, TraceInv
  <2> QED BY <2>1, <2>2
<1>7. TraceInv'  BY <1>6 DEF TraceInv
<1> QED BY <1>1, <1>4, <1>5, <1>7, FileStays, LogTypes

LEMMA ConsoleRuns ==
  ASSUME LogInv, NEW t \in LogTurns, MerchantTurn(t)
  PROVE  LogInv'
<1> DEFINE r == [chatting[t] EXCEPT !.at = "running"]
<1>1. /\ chatting' = [chatting EXCEPT ![t] = r]
           /\ traceOf' = [traceOf EXCEPT ![Console] = consoleTrace]
      /\ outrun' = outrun /\ consoleTrace' = consoleTrace /\ chatting[t].at = "asked"
      /\ logFile' = logFile /\ fragment' = fragment /\ sinceEnforce' = sinceEnforce
      /\ acts' = acts /\ unlogged' = unlogged /\ agedOut' = agedOut /\ stops' = stops
      /\ unchecked' = unchecked
  BY DEF MerchantTurn, fileVars
<1>2. /\ r \in [at : {"waiting", "asked", "running", "over"}, holder : Holders]
      /\ r.at = "running" /\ r.holder = chatting[t].holder
  BY LogTypes
<1> HIDE DEF r
<1>3. /\ traceOf' \in [Holders -> LogTurns \cup {NoTrace}] /\ traceOf'[Console] = consoleTrace
      /\ \A h \in Holders : h # Console => traceOf'[h] = traceOf[h]
  BY <1>1, LogTypes DEF Holders
<1>4. /\ chatting' \in [LogTurns -> [at : {"waiting", "asked", "running", "over"}, holder : Holders]]
      /\ chatting'[t] = r /\ \A u \in LogTurns : u # t => chatting'[u] = chatting[u]
  BY <1>1, <1>2 DEF LogInv, LogTypeOK
<1>5. outrun \subseteq outrun' /\ outrun' \subseteq LogTurns  BY <1>1 DEF LogInv, LogTypeOK
<1>6. ASSUME NEW u \in LogTurns
      PROVE  /\ chatting'[u].at = "asked" => chatting'[u].holder = Console
             /\ chatting'[u].at = "running" => traceOf'[chatting'[u].holder] = u \/ u \in outrun'
             /\ chatting'[u].at \in {"asked", "running"} /\ chatting'[u].holder = Console
                  => consoleTrace' = u \/ u \in outrun'
  <2>0. /\ chatting[u].at = "asked" => chatting[u].holder = Console
        /\ chatting[u].at = "running" => traceOf[chatting[u].holder] = u \/ u \in outrun
        /\ chatting[u].at \in {"asked", "running"} /\ chatting[u].holder = Console
             => consoleTrace = u \/ u \in outrun
    BY DEF LogInv, TraceInv
  <2>1. CASE u = t  BY <1>1, <1>2, <1>3, <1>4, <2>0, <2>1
  <2>2. CASE u # t
    <3>1. chatting'[u] = chatting[u] /\ chatting[u].holder \in Holders  BY <1>4, <2>2, LogTypes
    <3> QED BY <1>1, <1>3, <2>0, <3>1
  <2> QED BY <2>1, <2>2
<1>7. TraceInv'  BY <1>6 DEF TraceInv
<1> QED BY <1>1, <1>3, <1>4, <1>5, <1>7, FileStays, LogTypes

LEMMA TurnHasEnded ==
  ASSUME LogInv, NEW t \in LogTurns, EndsTurn(t)
  PROVE  LogInv'
<1> DEFINE r == [chatting[t] EXCEPT !.at = "over"]
<1>1. /\ chatting' = [chatting EXCEPT ![t] = r] /\ traceOf' = traceOf
      /\ outrun' = outrun /\ consoleTrace' = consoleTrace
      /\ logFile' = logFile /\ fragment' = fragment /\ sinceEnforce' = sinceEnforce
      /\ acts' = acts /\ unlogged' = unlogged /\ agedOut' = agedOut /\ stops' = stops
      /\ unchecked' = unchecked
  BY DEF EndsTurn, fileVars
<1>2. /\ r \in [at : {"waiting", "asked", "running", "over"}, holder : Holders] /\ r.at = "over"
  BY LogTypes
<1> HIDE DEF r
<1>4. /\ chatting' \in [LogTurns -> [at : {"waiting", "asked", "running", "over"}, holder : Holders]]
      /\ chatting'[t] = r /\ \A u \in LogTurns : u # t => chatting'[u] = chatting[u]
  BY <1>1, <1>2 DEF LogInv, LogTypeOK
<1>5. outrun \subseteq outrun' /\ outrun' \subseteq LogTurns  BY <1>1 DEF LogInv, LogTypeOK
<1>6. ASSUME NEW u \in LogTurns
      PROVE  /\ chatting'[u].at = "asked" => chatting'[u].holder = Console
             /\ chatting'[u].at = "running" => traceOf'[chatting'[u].holder] = u \/ u \in outrun'
             /\ chatting'[u].at \in {"asked", "running"} /\ chatting'[u].holder = Console
                  => consoleTrace' = u \/ u \in outrun'
  <2>1. CASE u = t  BY <1>2, <1>4, <2>1
  <2>2. CASE u # t
    <3>1. chatting'[u] = chatting[u]  BY <1>4, <2>2
    <3> QED BY <1>1, <3>1 DEF LogInv, TraceInv
  <2> QED BY <2>1, <2>2
<1>7. TraceInv'  BY <1>6 DEF TraceInv
<1> QED BY <1>1, <1>4, <1>5, <1>7, FileStays, LogTypes

-----------------------------------------------------------------------------
(* The file.                                                               *)

\* The part of a rising list of lines from one place to another.
LEMMA PartRises ==
  ASSUME NEW s \in Seq(Line), Rising(s), NEW a \in Nat \ {0}, NEW b \in 0 .. Len(s), a <= b + 1
  PROVE  LET r == SubSeq(s, a, b)
         IN  /\ r \in Seq(Line) /\ Len(r) = b - a + 1 /\ Rising(r)
             /\ \A i \in 1 .. Len(r) : r[i] = s[i + a - 1] /\ i + a - 1 \in 1 .. Len(s)
             /\ \A i \in a .. b : i - a + 1 \in 1 .. Len(r) /\ r[i - a + 1] = s[i]
<1> DEFINE r == SubSeq(s, a, b)
<1>0. Len(s) \in Nat /\ a .. b \subseteq 1 .. Len(s)  BY LogLineFacts
<1>1. Len(r) = b - a + 1  BY <1>0
<1>2. \A i \in 1 .. b - a + 1 : r[i] = s[i + a - 1] /\ i + a - 1 \in 1 .. Len(s)
  <2> TAKE i \in 1 .. b - a + 1
  <2>1. i + a - 1 \in 1 .. Len(s) /\ a + i - 1 = i + a - 1  BY <1>0
  <2> QED BY <1>0, <2>1
<1>3. r \in Seq(Line)
  <2>1. r = [i \in 1 .. b - a + 1 |-> s[i + a - 1]]  BY <1>0
  <2>2. \A i \in 1 .. b - a + 1 : s[i + a - 1] \in Line  BY <1>2, LogLineFacts
  <2>3. b - a + 1 \in Nat  BY <1>0
  <2> QED BY <2>1, <2>2, <2>3
<1> HIDE DEF r
<1>4. Rising(r)
  <2> SUFFICES ASSUME NEW i \in 1 .. Len(r), NEW j \in 1 .. Len(r), i < j PROVE r[i].act < r[j].act
    BY DEF Rising
  <2>1. /\ r[i] = s[i + a - 1] /\ r[j] = s[j + a - 1] /\ i + a - 1 < j + a - 1
        /\ i + a - 1 \in 1 .. Len(s) /\ j + a - 1 \in 1 .. Len(s)
    BY <1>1, <1>2
  <2> QED BY <2>1 DEF Rising
<1>5. ASSUME NEW i \in a .. b PROVE i - a + 1 \in 1 .. Len(r) /\ r[i - a + 1] = s[i]
  <2>1. i - a + 1 \in 1 .. b - a + 1 /\ (i - a + 1) + a - 1 = i  BY <1>0
  <2> QED BY <1>1, <1>2, <2>1
<1> QED BY <1>1, <1>2, <1>3, <1>4, <1>5 DEF r

\* The cap keeps the newest lines, which are at least so many acts.
LEMMA NewestKeeps ==
  ASSUME NEW s \in Seq(Line), Rising(s)
  PROVE  /\ Newest(s) \in Seq(Line) /\ Rising(Newest(s)) /\ Len(Newest(s)) <= LogCap
         /\ \A i \in 1 .. Len(Newest(s)) : \E j \in 1 .. Len(s) : Newest(s)[i] = s[j]
         /\ \A j \in 1 .. Len(s) :
              \/ \E i \in 1 .. Len(Newest(s)) : Newest(s)[i] = s[j]
              \/ \A n \in Nat : s[Len(s)].act <= n => s[j].act <= n - KeptLines
<1> DEFINE n == Len(s)
           a == n - KeptLines + 1
<1>0. n \in Nat /\ LogCap \in Nat /\ KeptLines \in Nat /\ KeptLines <= LogCap
  BY LogConstants, LogLineFacts
<1>1. CASE n <= LogCap
  <2>1. Newest(s) = s  BY <1>1 DEF Newest
  <2> QED BY <1>1, <2>1
<1>2. CASE n > LogCap
  <2>1. Newest(s) = SubSeq(s, a, n)  BY <1>0, <1>2 DEF Newest, KeptLines
  <2>2. a \in Nat \ {0} /\ n \in 0 .. Len(s) /\ a <= n + 1 /\ a \in Int  BY <1>0, <1>2
  <2> HIDE DEF a, n
  <2>3. /\ Newest(s) \in Seq(Line) /\ Len(Newest(s)) = n - a + 1 /\ Rising(Newest(s))
        /\ \A i \in 1 .. Len(Newest(s)) : Newest(s)[i] = s[i + a - 1] /\ i + a - 1 \in 1 .. Len(s)
        /\ \A i \in a .. n : i - a + 1 \in 1 .. Len(Newest(s)) /\ Newest(s)[i - a + 1] = s[i]
    BY <2>1, <2>2, PartRises
  <2>4. Len(Newest(s)) <= LogCap
    <3>1. n - a + 1 = KeptLines  BY <1>0 DEF a
    <3> QED BY <1>0, <2>3, <3>1
  <2>5. ASSUME NEW j \in 1 .. Len(s), j \notin a .. n, NEW k \in Nat, s[Len(s)].act <= k
        PROVE  s[j].act <= k - KeptLines
    <3> DEFINE f == [i \in 1 .. n |-> s[i].act]
    <3>1. \A i \in 1 .. n : f[i] \in Int /\ f[i] = s[i].act  BY LogLineFacts DEF n
    <3>2. \A i, l \in 1 .. n : i < l => f[i] < f[l]  BY DEF Rising, n
    <3> HIDE DEF f
    <3>3. j \in 1 .. n /\ n \in 1 .. n /\ j <= n /\ j <= n - KeptLines  BY <1>0, <2>5 DEF a, n
    <3>4. n - j <= f[n] - f[j]  BY <1>0, <3>1, <3>2, <3>3, Climbs
    <3>5. f[n] <= k  BY <2>5, <3>1, <3>3 DEF n
    <3>6. f[n] \in Int /\ f[j] \in Int /\ f[j] = s[j].act  BY <3>1, <3>3
    <3> QED BY <1>0, <3>3, <3>4, <3>5, <3>6
  <2> QED BY <2>3, <2>4, <2>5
<1> QED BY <1>0, <1>1, <1>2

\* An act is done: whatever becomes of its line.
LEMMA ActIsDone ==
  ASSUME LogInv, NEW t \in LogTurns, Act(t)
  PROVE  LogInv'
<1> DEFINE line == [act |-> acts + 1, turn |-> t, trace |-> traceOf[chatting[t].holder]]
           lines == IF fragment THEN logFile ELSE Append(logFile, line)
           enforces == sinceEnforce + 1 = EnforceEvery
<1>1. /\ chatting[t].at = "running" /\ acts < MaxActs /\ acts' = acts + 1 /\ fragment' = FALSE
      /\ unlogged' = IF fragment THEN unlogged \cup {acts + 1} ELSE unlogged
      /\ sinceEnforce' = IF enforces THEN 0 ELSE sinceEnforce + 1
      /\ logFile' = IF enforces THEN Newest(lines) ELSE lines
      /\ unchecked' = IF enforces THEN 0 ELSE unchecked
      /\ chatting' = chatting /\ agedOut' = agedOut /\ stops' = stops
      /\ traceOf' = traceOf /\ consoleTrace' = consoleTrace /\ outrun' = outrun
  BY DEF Act, traceVars
<1>2. /\ line \in Line /\ line.act = acts + 1 /\ line.turn = t
      /\ line.trace = traceOf[chatting[t].holder]
  <2>1. chatting[t].holder \in Holders /\ traceOf \in [Holders -> LogTurns \cup {NoTrace}]
    BY LogTypes
  <2>2. traceOf[chatting[t].holder] \in LogTurns \cup {NoTrace}  BY <2>1
  <2>3. acts + 1 \in 1 .. MaxActs  BY <1>1, LogTypes, LogConstants
  <2> QED BY <2>2, <2>3 DEF Line
<1>3. line.trace = line.turn \/ line.turn \in outrun  BY <1>1, <1>2 DEF LogInv, TraceInv
<1> HIDE DEF line
<1>4. /\ lines \in Seq(Line) /\ Len(lines) \in Nat /\ Len(logFile) <= Len(lines)
      /\ Len(lines) <= Len(logFile) + 1
      /\ \A i \in 1 .. Len(logFile) : lines[i] = logFile[i] /\ i \in 1 .. Len(lines)
      /\ \A i \in 1 .. Len(lines) :
           \/ i \in 1 .. Len(logFile)
           \/ lines[i] = line /\ ~fragment /\ i = Len(logFile) + 1
      /\ ~fragment => Len(lines) = Len(logFile) + 1 /\ lines[Len(lines)] = line
  <2>0. logFile \in Seq(Line) /\ Len(logFile) \in Nat  BY LogTypes
  <2>1. CASE fragment
    <3>1. lines = logFile  BY <2>1
    <3> HIDE DEF lines
    <3> QED BY <2>0, <2>1, <3>1
  <2>2. CASE ~fragment
    <3>1. lines = Append(logFile, line)  BY <2>2
    <3>2. /\ Append(logFile, line) \in Seq(Line) /\ Len(Append(logFile, line)) = Len(logFile) + 1
          /\ Append(logFile, line)[Len(logFile) + 1] = line
          /\ \A i \in 1 .. Len(logFile) : Append(logFile, line)[i] = logFile[i]
      BY <1>2, <2>0
    <3> HIDE DEF lines
    <3> QED BY <2>0, <2>2, <3>1, <3>2
  <2> QED BY <2>1, <2>2
<1> HIDE DEF lines
<1>5. /\ acts \in Nat /\ Rising(logFile) /\ Len(logFile) \in Nat
      /\ \A i \in 1 .. Len(logFile) : logFile[i].act <= acts /\ logFile[i].act \in Nat
  BY LogTypes, LogLineFacts DEF LogInv, FileInv
<1>6. \A i \in 1 .. Len(lines) : lines[i].act <= acts + 1 /\ lines[i].act \in Nat
  BY <1>2, <1>4, <1>5, SMTT(30)
<1>7. Rising(lines)
  <2> SUFFICES ASSUME NEW i \in 1 .. Len(lines), NEW j \in 1 .. Len(lines), i < j
               PROVE  lines[i].act < lines[j].act
    BY DEF Rising
  <2>1. i \in 1 .. Len(logFile)  BY <1>4, <1>5
  <2>2. CASE j \in 1 .. Len(logFile)  BY <1>4, <1>5, <2>1, <2>2 DEF Rising
  <2>3. CASE j \notin 1 .. Len(logFile)  BY <1>2, <1>4, <1>5, <2>1, <2>3
  <2> QED BY <2>2, <2>3
<1>8. ASSUME NEW n \in 1 .. acts'
      PROVE  \/ \E i \in 1 .. Len(lines) : lines[i].act = n
             \/ n \in unlogged' \/ n <= agedOut \/ n <= acts - KeptLines
  <2>1. CASE n = acts + 1 /\ fragment  BY <1>1, <2>1
  <2>2. CASE n = acts + 1 /\ ~fragment
    <3>1. Len(lines) \in 1 .. Len(lines) /\ lines[Len(lines)] = line  BY <1>4, <1>5, <2>2
    <3> QED BY <1>2, <2>2, <3>1
  <2>3. CASE n # acts + 1
    <3>1. n \in 1 .. acts  BY <1>1, <1>5, <2>3
    <3>2. n \in ActsOf(logFile) \cup unlogged \/ n <= agedOut \/ n <= acts - KeptLines
      BY <3>1 DEF LogInv, FileInv
    <3>3. n \in ActsOf(logFile) => \E i \in 1 .. Len(logFile) : logFile[i].act = n
      BY LogTypes DEF ActsOf
    <3> QED BY <1>1, <1>4, <3>2, <3>3
  <2> QED BY <2>1, <2>2, <2>3
<1>9. \A i \in 1 .. Len(lines) : lines[i].trace = lines[i].turn \/ lines[i].turn \in outrun
  BY <1>3, <1>4, LogTypes DEF LogInv, TraceLeadsBack
<1>10. /\ logFile' \in Seq(Line) /\ Rising(logFile')
       /\ Len(logFile') <= IF enforces THEN LogCap ELSE Len(lines)
       /\ \A i \in 1 .. Len(logFile') : \E j \in 1 .. Len(lines) : logFile'[i] = lines[j]
       /\ \A j \in 1 .. Len(lines) :
            \/ \E i \in 1 .. Len(logFile') : logFile'[i] = lines[j]
            \/ \A n \in Nat : lines[Len(lines)].act <= n => lines[j].act <= n - KeptLines
  <2>1. CASE enforces
    <3>1. logFile' = Newest(lines)  BY <1>1, <2>1
    <3> QED BY <1>4, <1>7, <2>1, <3>1, NewestKeeps
  <2>2. CASE ~enforces
    <3>1. logFile' = lines  BY <1>1, <2>2
    <3> QED BY <1>4, <1>7, <2>2, <3>1
  <2> QED BY <2>1, <2>2
<1>11. DOMAIN logFile' = 1 .. Len(logFile') /\ Len(logFile') \in Nat  BY <1>10, LogLineFacts
<1>12. FileInv'
  <2>1. \A i \in 1 .. Len(logFile') : logFile'[i].act <= acts'  BY <1>1, <1>6, <1>10
  <2>2. ASSUME NEW n \in 1 .. acts'
        PROVE  \/ \E i \in 1 .. Len(logFile') : logFile'[i].act = n
               \/ n \in unlogged' \/ n <= agedOut \/ n <= acts' - KeptLines
    <3>1. CASE \E j \in 1 .. Len(lines) : lines[j].act = n
      <4>1. PICK j \in 1 .. Len(lines) : lines[j].act = n  BY <3>1
      <4>2. lines[Len(lines)].act <= acts + 1  BY <1>4, <1>6, <4>1
      <4> QED BY <1>1, <1>5, <1>10, <4>1, <4>2
    <3>2. CASE n <= acts - KeptLines  BY <1>1, <1>5, <3>2, LogConstants
    <3> QED BY <1>8, <3>1, <3>2
  <2>3. \A n \in 1 .. acts' :
          n \in ActsOf(logFile)' \cup unlogged' \/ n <= agedOut' \/ n <= acts' - KeptLines
    BY <1>1, <1>11, <2>2 DEF ActsOf
  <2> QED BY <1>10, <2>1, <2>3 DEF FileInv, Rising
<1>13. GrowthInv'
  <2>0. /\ sinceEnforce \in Nat /\ unchecked \in Nat /\ (EnforceEvery - 1) * unchecked \in Nat
        /\ EnforceEvery \in Nat \ {0} /\ LogCap \in Nat /\ stops \in Nat /\ unchecked <= stops
        /\ Len(logFile) <= LogCap + (EnforceEvery - 1) * unchecked + sinceEnforce
    BY LogTypes, LogConstants, Grows, SMTT(30) DEF LogInv, GrowthInv
  <2>1. CASE enforces
    <3>1. unchecked' = 0 /\ sinceEnforce' = 0 /\ (EnforceEvery - 1) * 0 = 0
      BY <1>1, <2>0, <2>1, Grows
    <3> QED BY <1>1, <1>10, <1>11, <2>0, <2>1, <3>1 DEF GrowthInv
  <2>2. CASE ~enforces
    <3>1. unchecked' = unchecked /\ sinceEnforce' = sinceEnforce + 1 /\ logFile' = lines
      BY <1>1, <2>2
    <3> DEFINE more == (EnforceEvery - 1) * unchecked
    <3>2. Len(lines) <= LogCap + more + (sinceEnforce + 1)
      <4>1. more \in Nat /\ Len(logFile) <= LogCap + more + sinceEnforce  BY <2>0
      <4> HIDE DEF more
      <4> QED BY <1>4, <1>5, <2>0, <4>1
    <3> QED BY <1>1, <2>0, <3>1, <3>2 DEF GrowthInv
  <2> QED BY <2>1, <2>2
<1>14. TraceInv'  BY <1>1 DEF LogInv, TraceInv
<1>15. TraceLeadsBack'
  <2>1. \A i \in 1 .. Len(logFile') :
          logFile'[i].trace = logFile'[i].turn \/ logFile'[i].turn \in outrun
    BY <1>9, <1>10
  <2> QED BY <1>1, <1>11, <2>1 DEF TraceLeadsBack
<1>16. LogTypeOK'
  <2>1. acts' \in 0 .. MaxActs /\ unlogged' \subseteq 1 .. MaxActs  BY <1>1, LogTypes, LogConstants
  <2>2. sinceEnforce' \in 0 .. EnforceEvery - 1  BY <1>1, LogTypes, LogConstants
  <2>3. unchecked' \in 0 .. MaxStops  BY <1>1, LogTypes, LogConstants
  <2> QED BY <1>1, <1>10, <2>1, <2>2, <2>3 DEF LogInv, LogTypeOK
<1> QED BY <1>12, <1>13, <1>14, <1>15, <1>16 DEF LogInv

LEMMA ActIsLost ==
  ASSUME LogInv, NEW t \in LogTurns, ActUnrecorded(t)
  PROVE  LogInv'
<1>1. /\ acts < MaxActs /\ acts' = acts + 1 /\ unlogged' = unlogged \cup {acts + 1}
      /\ chatting' = chatting /\ logFile' = logFile /\ fragment' = fragment
      /\ sinceEnforce' = sinceEnforce /\ agedOut' = agedOut /\ stops' = stops
      /\ unchecked' = unchecked /\ traceOf' = traceOf /\ consoleTrace' = consoleTrace
      /\ outrun' = outrun
  BY DEF ActUnrecorded, traceVars
<1>2. acts' \in 0 .. MaxActs /\ unlogged' \subseteq 1 .. MaxActs  BY <1>1, LogTypes, LogConstants
<1>3. LogTypeOK'  BY <1>1, <1>2 DEF LogInv, LogTypeOK
<1>4. GrowthInv' /\ TraceInv' /\ TraceLeadsBack'
  BY <1>1 DEF LogInv, GrowthInv, TraceInv, TraceLeadsBack
<1>5. FileInv'
  <2>0. acts \in Nat /\ KeptLines \in Nat  BY LogTypes, LogConstants
  <2>1. Rising(logFile)'  BY <1>1 DEF LogInv, FileInv, Rising
  <2>2. \A i \in 1 .. Len(logFile)' : logFile'[i].act <= acts'
    <3> TAKE i \in 1 .. Len(logFile)'
    <3>1. logFile[i].act <= acts /\ logFile[i].act \in Int
      BY <1>1, LogTypes, LogLineFacts DEF LogInv, FileInv
    <3> QED BY <1>1, <2>0, <3>1
  <2>3. ASSUME NEW n \in 1 .. acts'
        PROVE  n \in ActsOf(logFile)' \cup unlogged' \/ n <= agedOut' \/ n <= acts' - KeptLines
    <3>1. CASE n = acts + 1  BY <1>1, <3>1
    <3>2. CASE n # acts + 1
      <4>1. n \in 1 .. acts  BY <1>1, <2>0, <3>2
      <4>2. n \in ActsOf(logFile) \cup unlogged \/ n <= agedOut \/ n <= acts - KeptLines
        BY <4>1 DEF LogInv, FileInv
      <4>3. ActsOf(logFile)' = ActsOf(logFile)  BY <1>1 DEF ActsOf
      <4>4. n <= acts - KeptLines => n <= acts' - KeptLines  BY <1>1, <2>0
      <4> QED BY <1>1, <4>2, <4>3, <4>4
    <3> QED BY <3>1, <3>2
  <2> QED BY <2>1, <2>2, <2>3 DEF FileInv
<1> QED BY <1>3, <1>4, <1>5 DEF LogInv

\* Some lines go: those that do are too old, or counted as lost.
LEMMA LinesGo ==
  ASSUME LogInv, logFile' \in Seq(Line), Rising(logFile'), Len(logFile') <= Len(logFile),
         \A i \in 1 .. Len(logFile') : \E j \in 1 .. Len(logFile) : logFile'[i] = logFile[j],
         \A n \in ActsOf(logFile) : n \in ActsOf(logFile') \cup unlogged' \/ n <= agedOut',
         acts' = acts, outrun' = outrun, unlogged \subseteq unlogged', agedOut <= agedOut',
         agedOut' \in 0 .. MaxActs
  PROVE  FileInv' /\ TraceLeadsBack'
<1>1. DOMAIN logFile' = 1 .. Len(logFile') /\ DOMAIN logFile = 1 .. Len(logFile)
  BY LogLineFacts, LogTypes
<1>2. FileInv'
  <2>1. Rising(logFile)'  BY DEF Rising
  <2>2. \A i \in 1 .. Len(logFile)' : logFile'[i].act <= acts'  BY DEF LogInv, FileInv
  <2>3. ASSUME NEW n \in 1 .. acts'
        PROVE  n \in ActsOf(logFile)' \cup unlogged' \/ n <= agedOut' \/ n <= acts' - KeptLines
    <3>1. n \in ActsOf(logFile) \cup unlogged \/ n <= agedOut \/ n <= acts - KeptLines
      BY DEF LogInv, FileInv
    <3>2. ActsOf(logFile)' = ActsOf(logFile')  BY DEF ActsOf
    <3>3. n <= agedOut => n <= agedOut'  BY LogTypes
    <3> QED BY <3>1, <3>2, <3>3
  <2> QED BY <2>1, <2>2, <2>3 DEF FileInv
<1>3. TraceLeadsBack'  BY <1>1 DEF LogInv, TraceLeadsBack
<1> QED BY <1>2, <1>3

LEMMA LogIsTrimmed ==
  ASSUME LogInv, TrimsLog
  PROVE  LogInv'
<1>1. PICK n \in agedOut + 1 .. acts : logFile' = Younger(n) /\ agedOut' = n
  BY DEF TrimsLog
<1>2. /\ fragment' = FALSE /\ acts' = acts /\ unlogged' = unlogged
      /\ chatting' = chatting /\ sinceEnforce' = sinceEnforce /\ stops' = stops
      /\ unchecked' = unchecked /\ traceOf' = traceOf /\ consoleTrace' = consoleTrace
      /\ outrun' = outrun
  BY DEF TrimsLog, traceVars
<1> DEFINE S == {line \in Line : line.act > n}
<1>3. logFile' = Sift(logFile, S) /\ logFile \in Seq(Line)  BY <1>1, LogTypes DEF Younger
<1>4. \A l \in Line : l \in S \/ l.act <= n
  <2>1. n \in Int /\ \A l \in Line : l.act \in Int  BY <1>1, LogTypes DEF Line
  <2> QED BY <2>1
<1> HIDE DEF S
<1>5. logFile' \in Seq(Line \cap S) /\ Len(logFile') <= Len(logFile)  BY <1>3, SiftType
<1>6. /\ \A k \in 1 .. Len(logFile') : \E i \in 1 .. Len(logFile) : logFile'[k] = logFile[i]
      /\ \A i \in 1 .. Len(logFile) :
           logFile[i] \in S => \E k \in 1 .. Len(logFile') : logFile'[k] = logFile[i]
  BY <1>3, SiftKeeps, SMTT(30)
<1>7. \A k, l \in 1 .. Len(logFile') : k < l =>
        \E i, j \in 1 .. Len(logFile) :
          i < j /\ logFile'[k] = logFile[i] /\ logFile'[l] = logFile[j]
  <2> DEFINE r == Sift(logFile, S)
  <2>0. logFile \in Seq(Line)  BY <1>3
  <2>1. \A k, l \in 1 .. Len(r) : k < l =>
          \E i, j \in 1 .. Len(logFile) : i < j /\ r[k] = logFile[i] /\ r[l] = logFile[j]
    BY ONLY <2>0, SiftOrder
  <2>2. logFile' = r  BY <1>3
  <2> HIDE DEF r
  <2> QED BY <2>1, <2>2
<1>8. logFile' \in Seq(Line)  BY <1>5
<1>9. Rising(logFile')
  <2> SUFFICES ASSUME NEW k \in 1 .. Len(logFile'), NEW l \in 1 .. Len(logFile'), k < l
               PROVE  logFile'[k].act < logFile'[l].act
    BY DEF Rising
  <2>1. PICK i \in 1 .. Len(logFile), j \in 1 .. Len(logFile) :
          i < j /\ logFile'[k] = logFile[i] /\ logFile'[l] = logFile[j]
    BY <1>7
  <2> QED BY <2>1 DEF LogInv, FileInv, Rising
<1>10. \A k \in ActsOf(logFile) : k \in ActsOf(logFile') \cup unlogged' \/ k <= agedOut'
  <2> SUFFICES ASSUME NEW k \in ActsOf(logFile), ~(k <= n) PROVE k \in ActsOf(logFile')
    BY <1>1
  <2>1. PICK i \in 1 .. Len(logFile) : logFile[i].act = k  BY LogTypes DEF ActsOf
  <2>2. logFile[i] \in S  BY <1>3, <1>4, <2>1, LogLineFacts
  <2>3. PICK j \in 1 .. Len(logFile') : logFile'[j] = logFile[i]  BY <1>6, <2>2
  <2> QED BY <1>8, <2>1, <2>3, LogLineFacts DEF ActsOf
<1>11. agedOut <= agedOut' /\ agedOut' \in 0 .. MaxActs  BY <1>1, LogTypes, LogConstants
<1>12. FileInv' /\ TraceLeadsBack'
  BY <1>2, <1>5, <1>6, <1>8, <1>9, <1>10, <1>11, LinesGo
<1>13. LogTypeOK'  BY <1>2, <1>8, <1>11 DEF LogInv, LogTypeOK
<1>14. TraceInv'  BY <1>2 DEF LogInv, TraceInv
<1>15. GrowthInv'
  <2> DEFINE more == (EnforceEvery - 1) * unchecked
  <2>1. more \in Nat /\ Len(logFile) <= LogCap + more + sinceEnforce
    BY LogTypes, LogConstants, Grows
    DEF LogInv, GrowthInv
  <2>2. Len(logFile) \in Nat /\ Len(logFile') \in Nat /\ sinceEnforce \in Nat /\ LogCap \in Nat
    BY <1>8, LogTypes, LogConstants, LogLineFacts
  <2>3. Len(logFile') <= LogCap + more + sinceEnforce
    <3> HIDE DEF more
    <3> QED BY <1>5, <2>1, <2>2
  <2> QED BY <1>2, <2>3 DEF LogInv, GrowthInv
<1> QED BY <1>12, <1>13, <1>14, <1>15 DEF LogInv

LEMMA HostHasStopped ==
  ASSUME LogInv, HostStops
  PROVE  LogInv'
<1>1. /\ stops < MaxStops /\ stops' = stops + 1 /\ unchecked' = unchecked + 1 /\ sinceEnforce' = 0
      /\ chatting' = [t \in LogTurns |->
           IF chatting[t].at = "waiting" THEN Waiting ELSE [chatting[t] EXCEPT !.at = "over"]]
      /\ traceOf' = [h \in Holders |-> NoTrace] /\ consoleTrace' = NoTrace
      /\ agedOut' = agedOut /\ outrun' = outrun
  BY DEF HostStops
<1>2. \/ logFile' = logFile /\ fragment' = fragment /\ acts' = acts /\ unlogged' = unlogged
      \/ /\ acts < MaxActs /\ acts' = acts + 1 /\ unlogged' = unlogged \cup {acts + 1}
         /\ fragment' = TRUE /\ logFile' = logFile
      \/ /\ \E n \in 0 .. Len(logFile) - 1 : logFile' = SubSeq(logFile, 1, n)
         /\ fragment' \in BOOLEAN /\ acts' = acts
         /\ unlogged' = unlogged \cup (ActsOf(logFile) \ ActsOf(logFile'))
  BY DEF HostStops
<1>3. /\ logFile \in Seq(Line) /\ Len(logFile) \in Nat /\ Rising(logFile) /\ acts \in Nat
      /\ acts <= MaxActs /\ MaxActs \in Nat /\ unlogged \subseteq 1 .. MaxActs
      /\ KeptLines \in Nat
  BY LogTypes, LogConstants DEF LogInv, FileInv
<1>4. /\ logFile' \in Seq(Line) /\ Len(logFile') <= Len(logFile) /\ Rising(logFile')
      /\ fragment' \in BOOLEAN /\ acts' \in 0 .. MaxActs /\ unlogged' \subseteq 1 .. MaxActs
      /\ FileInv' /\ TraceLeadsBack'
  <2>1. CASE logFile' = logFile /\ fragment' = fragment /\ acts' = acts /\ unlogged' = unlogged
    <3>1. fragment' \in BOOLEAN  BY <2>1 DEF LogInv, LogTypeOK
    <3>2. FileInv' /\ TraceLeadsBack'
      BY <1>1, <2>1 DEF LogInv, FileInv, Rising, ActsOf, TraceLeadsBack
    <3> QED BY <1>3, <2>1, <3>1, <3>2
  <2>2. CASE /\ acts < MaxActs /\ acts' = acts + 1 /\ unlogged' = unlogged \cup {acts + 1}
             /\ fragment' = TRUE /\ logFile' = logFile
    <3>1. Rising(logFile)'  BY <1>3, <2>2 DEF Rising
    <3>2. \A i \in 1 .. Len(logFile)' : logFile'[i].act <= acts'
      <4> TAKE i \in 1 .. Len(logFile)'
      <4>1. logFile[i].act <= acts /\ logFile[i].act \in Int
        BY <2>2, LogTypes, LogLineFacts DEF LogInv, FileInv
      <4> QED BY <1>3, <2>2, <4>1
    <3>3. ASSUME NEW n \in 1 .. acts'
          PROVE  n \in ActsOf(logFile)' \cup unlogged' \/ n <= agedOut' \/ n <= acts' - KeptLines
      <4>1. CASE n = acts + 1  BY <2>2, <4>1
      <4>2. CASE n # acts + 1
        <5>1. n \in 1 .. acts  BY <1>3, <2>2, <4>2
        <5>2. n \in ActsOf(logFile) \cup unlogged \/ n <= agedOut \/ n <= acts - KeptLines
          BY <5>1 DEF LogInv, FileInv
        <5>3. ActsOf(logFile)' = ActsOf(logFile)  BY <2>2 DEF ActsOf
        <5>4. n <= acts - KeptLines => n <= acts' - KeptLines  BY <1>3, <2>2
        <5> QED BY <1>1, <2>2, <5>2, <5>3, <5>4
      <4> QED BY <4>1, <4>2
    <3>4. FileInv'  BY <3>1, <3>2, <3>3 DEF FileInv
    <3>5. TraceLeadsBack'  BY <1>1, <2>2 DEF LogInv, TraceLeadsBack
    <3> QED BY <1>3, <2>2, <3>4, <3>5
  <2>3. CASE /\ \E n \in 0 .. Len(logFile) - 1 : logFile' = SubSeq(logFile, 1, n)
             /\ fragment' \in BOOLEAN /\ acts' = acts
             /\ unlogged' = unlogged \cup (ActsOf(logFile) \ ActsOf(logFile'))
    <3>1. PICK n \in 0 .. Len(logFile) - 1 : logFile' = SubSeq(logFile, 1, n)  BY <2>3
    <3>2. n \in 0 .. Len(logFile) /\ 1 <= n + 1 /\ 1 \in Nat \ {0}  BY <1>3
    <3>3. /\ logFile' \in Seq(Line) /\ Len(logFile') = n - 1 + 1 /\ Rising(logFile')
          /\ \A i \in 1 .. Len(logFile') :
               logFile'[i] = logFile[i + 1 - 1] /\ i + 1 - 1 \in 1 .. Len(logFile)
      BY <1>3, <3>1, <3>2, PartRises
    <3>4. Len(logFile') <= Len(logFile)  BY <1>3, <3>2, <3>3
    <3>5. \A i \in 1 .. Len(logFile') : \E j \in 1 .. Len(logFile) : logFile'[i] = logFile[j]
      BY <3>3
    <3>6. \A k \in ActsOf(logFile) : k \in ActsOf(logFile') \cup unlogged' \/ k <= agedOut'
      BY <2>3
    <3>7. agedOut' \in 0 .. MaxActs /\ agedOut <= agedOut' /\ unlogged \subseteq unlogged'
      BY <1>1, <2>3, LogTypes
    <3>8. ActsOf(logFile) \subseteq 1 .. MaxActs  BY <1>3, LogLineFacts DEF ActsOf
    <3>9. FileInv' /\ TraceLeadsBack'
      BY <1>1, <2>3, <3>3, <3>4, <3>5, <3>6, <3>7, LinesGo
    <3>10. unlogged' \subseteq 1 .. MaxActs  BY <1>3, <2>3, <3>8
    <3>11. acts' \in 0 .. MaxActs /\ fragment' \in BOOLEAN  BY <1>3, <2>3
    <3> QED BY <3>3, <3>4, <3>9, <3>10, <3>11
  <2> QED BY <1>2, <2>1, <2>2, <2>3
<1>5. ASSUME NEW t \in LogTurns
      PROVE  /\ chatting'[t] \in [at : {"waiting", "asked", "running", "over"}, holder : Holders]
             /\ chatting'[t].at \notin {"asked", "running"}
  <2>1. chatting[t] \in [at : {"waiting", "asked", "running", "over"}, holder : Holders]
    BY LogTypes
  <2>2. CASE chatting[t].at = "waiting"  BY <1>1, <2>2 DEF Waiting, Holders
  <2>3. CASE chatting[t].at # "waiting"
    <3>1. chatting'[t] = [chatting[t] EXCEPT !.at = "over"]  BY <1>1, <2>3
    <3> QED BY <2>1, <3>1
  <2> QED BY <2>2, <2>3
<1>6. TraceInv'  BY <1>5 DEF TraceInv
<1>7. LogTypeOK'
  <2>1. /\ stops' \in 0 .. MaxStops /\ unchecked' \in 0 .. MaxStops
    BY <1>1, LogTypes, LogConstants, SMTT(30) DEF LogInv, GrowthInv
  <2>2. sinceEnforce' \in 0 .. EnforceEvery - 1  BY <1>1, LogConstants
  <2>3. chatting' \in [LogTurns -> [at : {"waiting", "asked", "running", "over"}, holder : Holders]]
    <3>1. chatting' = [t \in LogTurns |-> chatting'[t]]  BY <1>1
    <3> QED BY <1>5, <3>1
  <2>4. traceOf' \in [Holders -> LogTurns \cup {NoTrace}]  BY <1>1
  <2> QED BY <1>1, <1>4, <2>1, <2>2, <2>3, <2>4 DEF LogInv, LogTypeOK
<1>8. GrowthInv'
  <2> DEFINE more == (EnforceEvery - 1) * unchecked
             then == (EnforceEvery - 1) * (unchecked + 1)
  <2>1. /\ more \in Nat /\ Len(logFile) <= LogCap + more + sinceEnforce
        /\ then = more + (EnforceEvery - 1)
    BY LogTypes, LogConstants, Grows DEF LogInv, GrowthInv
  <2>2. /\ Len(logFile) \in Nat /\ Len(logFile') \in Nat /\ sinceEnforce \in 0 .. EnforceEvery - 1
        /\ LogCap \in Nat /\ EnforceEvery \in Nat
    BY <1>4, LogTypes, LogConstants, LogLineFacts
  <2>3. Len(logFile') <= LogCap + then
    <3> HIDE DEF more, then
    <3> QED BY <1>4, <2>1, <2>2
  <2>4. Len(logFile') <= LogCap + then + 0
    <3>1. then \in Nat  BY <2>1, <2>2
    <3> HIDE DEF then
    <3> QED BY <2>2, <2>3, <3>1
  <2>5. unchecked' <= stops'  BY <1>1, LogTypes DEF LogInv, GrowthInv
  <2> QED BY <1>1, <2>4, <2>5 DEF GrowthInv
<1> QED BY <1>4, <1>6, <1>7, <1>8 DEF LogInv

LEMMA LogStep == LogInv /\ [LogNext]_logVars => LogInv'
<1> SUFFICES ASSUME LogInv, [LogNext]_logVars PROVE LogInv'  OBVIOUS
<1>1. CASE UNCHANGED logVars
  BY <1>1
  DEF logVars, LogInv, LogTypeOK, FileInv, Rising, ActsOf, GrowthInv, TraceInv, TraceLeadsBack
<1>2. CASE LogNext
  BY <1>2, ChatBegins, ConsoleAsks, ConsoleRuns, TurnHasEnded, ActIsDone, ActIsLost, LogIsTrimmed,
     HostHasStopped DEF LogNext
<1> QED BY <1>1, <1>2

LEMMA LogMeansSound == LogInv => LogSound
<1> SUFFICES ASSUME LogInv PROVE LogSound  OBVIOUS
<1>1. LogIsRecent  BY LogTypes DEF LogInv, FileInv, Rising, LogIsRecent, KeptLines
<1>2. LogIsBounded
  <2> DEFINE more == (EnforceEvery - 1) * unchecked
             then == (EnforceEvery - 1) * (unchecked + 1)
  <2>1. /\ more \in Nat /\ Len(logFile) <= LogCap + more + sinceEnforce
        /\ then = more + (EnforceEvery - 1)
    BY LogTypes, LogConstants, Grows DEF LogInv, GrowthInv
  <2>2. /\ Len(logFile) \in Nat /\ sinceEnforce \in 0 .. EnforceEvery - 1
        /\ LogCap \in Nat /\ EnforceEvery \in Nat
    BY LogTypes, LogConstants
  <2>3. Len(logFile) <= LogCap + then
    <3> HIDE DEF more, then
    <3> QED BY <2>1, <2>2
  <2> QED BY <2>3 DEF LogIsBounded
<1> QED BY <1>1, <1>2 DEF LogInv, LogSound

\* The log's file, its writers and its traces keep their types (activity.py).
THEOREM LogTypesHold == LogSpec => []LogTypeOK
<1>1. LogInv => LogTypeOK  BY DEF LogInv
<1> QED BY <1>1, LogBegins, LogStep, PTL DEF LogSpec

\* The log of activity.py holds each recent act in its order, but for those that could not be
\* written or were torn; it stays near its cap; and an act's trace leads back to its turn unless
\* another began beside it: for any number of turns, chats, acts and stops.
THEOREM LogCanBeReliedOn == LogSpec => []LogSound
BY LogBegins, LogStep, LogMeansSound, PTL DEF LogSpec

-----------------------------------------------------------------------------
(***************************************************************************)
(* What customers leave with the agent (Errands).                          *)
(***************************************************************************)
\* Tasks are in the order they were given, the newest of them last.
InOrder(s) == \A i, j \in 1 .. Len(s) : i < j => s[i].id < s[j].id
OpenIn(s, c) == {i \in 1 .. Len(s) : s[i].by = c /\ s[i].open}

ErrandsInv ==
  /\ ErrandsTypeOK
  /\ InOrder(taskList) /\ \A i \in 1 .. Len(taskList) : taskList[i].id <= given
  /\ TasksStayOpen /\ ErrandsResume /\ FewOpen

-----------------------------------------------------------------------------
LEMMA ErrandsConstants ==
  /\ MaxOpen \in Nat \ {0} /\ TaskCap \in Nat \ {0} /\ MaxErrands \in Nat \ {0} /\ MaxHalts \in Nat
BY ErrandsAssumption

LEMMA ErrandFacts ==
  ASSUME NEW s \in Seq(Errand)
  PROVE  /\ Len(s) \in Nat /\ DOMAIN s = 1 .. Len(s)
         /\ \A i \in 1 .. Len(s) :
              /\ s[i] \in Errand /\ s[i].id \in 1 .. MaxErrands /\ s[i].id \in Int
              /\ s[i].by \in Customers /\ s[i].open \in BOOLEAN
<1>1. Len(s) \in Nat /\ DOMAIN s = 1 .. Len(s) /\ \A i \in 1 .. Len(s) : s[i] \in Errand  OBVIOUS
<1>2. \A task \in Errand : /\ task.id \in 1 .. MaxErrands /\ task.id \in Int
                           /\ task.by \in Customers /\ task.open \in BOOLEAN
  BY DEF Errand
<1> QED BY <1>1, <1>2

LEMMA OneTaskOfAnId ==
  ASSUME NEW s \in Seq(Errand), InOrder(s), NEW i \in 1 .. Len(s), NEW j \in 1 .. Len(s),
         s[i].id = s[j].id
  PROVE  i = j
<1>1. i < j \/ j < i \/ i = j  OBVIOUS
<1>2. s[i].id \in Int /\ s[j].id \in Int  BY ErrandFacts
<1> QED BY <1>1, <1>2 DEF InOrder

\* Open tasks are as many as their numbers.
LEMMA OpenAreCounted ==
  ASSUME NEW s \in Seq(Errand), InOrder(s), NEW c
  PROVE  LET ids == {s[i].id : i \in OpenIn(s, c)}
         IN  IsFiniteSet(ids) /\ Cardinality(OpenIn(s, c)) = Cardinality(ids)
<1> DEFINE O == OpenIn(s, c)
           ids == {s[i].id : i \in O}
           f == [i \in O |-> s[i].id]
<1>1. O \subseteq 1 .. Len(s) /\ Len(s) \in Nat  BY ErrandFacts DEF OpenIn
<1>2. IsFiniteSet(1 .. Len(s))  BY <1>1, FS_Interval
<1>3. IsFiniteSet(O)  BY <1>1, <1>2, FS_Subset
<1>4. f \in [O -> ids]  OBVIOUS
<1>5. \A a, b \in O : f[a] = f[b] => a = b  BY <1>1, OneTaskOfAnId
<1>6. \A t \in ids : \E a \in O : f[a] = t  OBVIOUS
<1> HIDE DEF O, ids, f
<1>7. f \in Bijection(O, ids)  BY <1>4, <1>5, <1>6, Fun_IsBij
<1>8. ExistsBijection(O, ids)  BY <1>7 DEF ExistsBijection
<1> QED BY <1>3, <1>8, FS_Bijection DEF ids, O

LEMMA ErrandsBegin == ErrandsInit => ErrandsInv
<1> SUFFICES ASSUME ErrandsInit PROVE ErrandsInv  OBVIOUS
<1>1. taskList = <<>> /\ given = 0 /\ watching = {} /\ DOMAIN taskList = {} /\ Len(taskList) = 0
  BY DEF ErrandsInit
<1>2. taskList \in Seq(Errand)  BY <1>1
<1>3. ErrandsTypeOK  BY <1>1, <1>2, ErrandsConstants DEF ErrandsInit, ErrandsTypeOK
<1>4. \A c : OpenOf(c) = {}  BY <1>1 DEF OpenOf
<1>5. TasksStayOpen /\ ErrandsResume /\ InOrder(taskList)
  BY <1>1, <1>4 DEF TasksStayOpen, ErrandsResume, InOrder
<1>6. FewOpen  BY <1>4, FS_EmptySet, ErrandsConstants DEF FewOpen
<1> QED BY <1>1, <1>3, <1>5, <1>6 DEF ErrandsInv

LEMMA ErrandTypes ==
  ASSUME ErrandsInv
  PROVE  /\ taskList \in Seq(Errand) /\ Len(taskList) \in Nat /\ Len(taskList) <= TaskCap
         /\ given \in Nat /\ given <= MaxErrands
         /\ \A c : OpenOf(c) = OpenIn(taskList, c)
         /\ \A c : OpenOf(c) # {} <=> \E i \in 1 .. Len(taskList) :
              taskList[i].by = c /\ taskList[i].open
<1>1. taskList \in Seq(Errand) /\ Len(taskList) <= TaskCap /\ given \in Nat /\ given <= MaxErrands
  BY ErrandsConstants DEF ErrandsInv, ErrandsTypeOK
<1>2. Len(taskList) \in Nat /\ DOMAIN taskList = 1 .. Len(taskList)  BY <1>1, ErrandFacts
<1> QED BY <1>1, <1>2 DEF OpenOf, OpenIn

\* The list after: every task of it was there before, as open at least, and what was open and is
\* not is closed, or so old that the store would not hold it.
Keeps(was, is, done) ==
  /\ is \in Seq(Errand) /\ InOrder(is) /\ Len(is) <= TaskCap
  /\ \A j \in 1 .. Len(is) : \E i \in 1 .. Len(was) :
       /\ was[i].id = is[j].id /\ was[i].by = is[j].by
       /\ is[j].open => was[i].open
  /\ \A i \in 1 .. Len(was) : was[i].open =>
       \/ \E j \in 1 .. Len(is) : is[j].id = was[i].id /\ is[j].open
       \/ was[i].id \in done

LEMMA ListGoesOn ==
  ASSUME ErrandsInv, Keeps(taskList, taskList', closed'), given' = given, closed \subseteq closed'
  PROVE  /\ taskList' \in Seq(Errand) /\ Len(taskList') <= TaskCap /\ InOrder(taskList')
         /\ \A i \in 1 .. Len(taskList') : taskList'[i].id <= given'
         /\ TasksStayOpen' /\ FewOpen'
         /\ \A c : OpenOf(c)' # {} => OpenOf(c) # {}
<1>1. /\ taskList \in Seq(Errand) /\ InOrder(taskList)
      /\ \A i \in 1 .. Len(taskList) : taskList[i].id <= given
  BY ErrandTypes DEF ErrandsInv
<1>2. taskList' \in Seq(Errand) /\ InOrder(taskList') /\ Len(taskList') <= TaskCap  BY DEF Keeps
<1>3. DOMAIN taskList' = 1 .. Len(taskList') /\ DOMAIN taskList = 1 .. Len(taskList)
  BY <1>1, <1>2, ErrandFacts
<1>4. ASSUME NEW c PROVE OpenOf(c)' = OpenIn(taskList', c) /\ OpenOf(c) = OpenIn(taskList, c)
  BY <1>3 DEF OpenOf, OpenIn
<1>5. ASSUME NEW c, NEW j \in OpenIn(taskList', c)
      PROVE  \E i \in OpenIn(taskList, c) : taskList[i].id = taskList'[j].id
  <2>1. j \in 1 .. Len(taskList') /\ taskList'[j].by = c /\ taskList'[j].open  BY <1>5 DEF OpenIn
  <2>2. PICK i \in 1 .. Len(taskList) :
          /\ taskList[i].id = taskList'[j].id /\ taskList[i].by = taskList'[j].by
          /\ taskList'[j].open => taskList[i].open
    BY <2>1 DEF Keeps
  <2>3. i \in OpenIn(taskList, c)  BY <2>1, <2>2 DEF OpenIn
  <2> QED BY <2>2, <2>3
<1>6. ASSUME NEW j \in 1 .. Len(taskList') PROVE taskList'[j].id <= given'
  <2>1. PICK i \in 1 .. Len(taskList) : taskList[i].id = taskList'[j].id  BY DEF Keeps
  <2> QED BY <1>1, <2>1
<1>7. TasksStayOpen'
  <2> SUFFICES ASSUME NEW n \in 1 .. given
               PROVE  \/ \E j \in 1 .. Len(taskList') : taskList'[j].id = n /\ taskList'[j].open
                      \/ n \in closed' \/ given - n >= TaskCap
    BY <1>3 DEF TasksStayOpen
  <2>1. \/ \E i \in 1 .. Len(taskList) : taskList[i].id = n /\ taskList[i].open
        \/ n \in closed \/ given - n >= TaskCap
    BY <1>3 DEF ErrandsInv, TasksStayOpen
  <2> QED BY <2>1 DEF Keeps
<1>8. FewOpen'
  <2> SUFFICES ASSUME NEW c \in Customers PROVE Cardinality(OpenOf(c)') <= MaxOpen
    BY DEF FewOpen
  <2> DEFINE was == {taskList[i].id : i \in OpenIn(taskList, c)}
             is == {taskList'[i].id : i \in OpenIn(taskList', c)}
  <2>1. is \subseteq was  BY <1>5
  <2>2. IsFiniteSet(was) /\ Cardinality(OpenIn(taskList, c)) = Cardinality(was)
    BY <1>1, OpenAreCounted
  <2>3. IsFiniteSet(is) /\ Cardinality(OpenIn(taskList', c)) = Cardinality(is)
    BY <1>2, OpenAreCounted
  <2> HIDE DEF was, is
  <2>4. Cardinality(is) <= Cardinality(was)  BY <2>1, <2>2, FS_Subset
  <2>5. Cardinality(OpenOf(c)) <= MaxOpen  BY DEF ErrandsInv, FewOpen
  <2>6. Cardinality(is) \in Nat /\ Cardinality(was) \in Nat  BY <2>2, <2>3, FS_CardinalityType
  <2> QED BY <1>4, <2>2, <2>3, <2>4, <2>5, <2>6, ErrandsConstants
<1>9. \A c : OpenOf(c)' # {} => OpenOf(c) # {}  BY <1>4, <1>5
<1> QED BY <1>2, <1>6, <1>7, <1>8, <1>9

\* A list that stays, keeps.
LEMMA SameKeeps ==
  ASSUME ErrandsInv, taskList' = taskList
  PROVE  Keeps(taskList, taskList', closed')
<1>1. taskList \in Seq(Errand) /\ InOrder(taskList) /\ Len(taskList) <= TaskCap
  BY ErrandTypes DEF ErrandsInv
<1> QED BY <1>1 DEF Keeps

\* A task is completed in its place.
LEMMA CompletedKeeps ==
  ASSUME ErrandsInv, NEW k \in 1 .. Len(taskList),
         taskList' = [taskList EXCEPT ![k].open = FALSE, ![k].old = FALSE],
         taskList[k].id \in closed'
  PROVE  Keeps(taskList, taskList', closed')
<1>1. taskList \in Seq(Errand) /\ InOrder(taskList) /\ Len(taskList) <= TaskCap
  BY ErrandTypes DEF ErrandsInv
<1> DEFINE task == [taskList[k] EXCEPT !.open = FALSE, !.old = FALSE]
<1>2. task \in Errand /\ task.id = taskList[k].id /\ task.by = taskList[k].by /\ task.open = FALSE
  BY <1>1, ErrandFacts DEF Errand
<1>3. taskList' = [taskList EXCEPT ![k] = task]  OBVIOUS
<1> HIDE DEF task
<1>4. /\ taskList' \in Seq(Errand) /\ Len(taskList') = Len(taskList) /\ taskList'[k] = task
      /\ \A i \in 1 .. Len(taskList) : i # k => taskList'[i] = taskList[i]
  <2>1. Len(taskList) \in Nat /\ taskList \in [1 .. Len(taskList) -> Errand]  BY <1>1
  <2>2. taskList' \in [1 .. Len(taskList) -> Errand]  BY <1>2, <1>3, <2>1
  <2>a. taskList \in Seq(Errand) /\ task \in Errand /\ k \in 1 .. Len(taskList)  BY <1>1, <1>2
  <2>b. /\ [taskList EXCEPT ![k] = task] \in Seq(Errand)
        /\ Len([taskList EXCEPT ![k] = task]) = Len(taskList)
    BY ONLY <2>a, ExceptSeq
  <2>3. taskList' \in Seq(Errand) /\ Len(taskList') = Len(taskList)  BY ONLY <1>3, <2>b
  <2>4. taskList'[k] = task /\ \A i \in 1 .. Len(taskList) : i # k => taskList'[i] = taskList[i]
    BY <1>3, <2>1
  <2> QED BY <2>3, <2>4
<1>5. \A i \in 1 .. Len(taskList) :
        taskList'[i].id = taskList[i].id /\ taskList'[i].by = taskList[i].by
        /\ (taskList'[i].open => taskList[i].open)
        /\ (i # k => taskList'[i].open = taskList[i].open)
  <2> TAKE i \in 1 .. Len(taskList)
  <2>1. CASE i = k  BY <1>2, <1>4, <2>1
  <2>2. CASE i # k  BY <1>4, <2>2
  <2> QED BY <2>1, <2>2
<1>6. InOrder(taskList')  BY <1>1, <1>4, <1>5 DEF InOrder
<1>7. ASSUME NEW i \in 1 .. Len(taskList), taskList[i].open
      PROVE  \/ \E j \in 1 .. Len(taskList') : taskList'[j].id = taskList[i].id /\ taskList'[j].open
             \/ taskList[i].id \in closed'
  BY <1>4, <1>5, <1>7
<1> QED BY <1>1, <1>4, <1>5, <1>6, <1>7 DEF Keeps

\* Every task grows old.
LEMMA AgedKeeps ==
  ASSUME ErrandsInv, taskList' = [i \in DOMAIN taskList |-> [taskList[i] EXCEPT !.old = TRUE]]
  PROVE  Keeps(taskList, taskList', closed')
<1>1. taskList \in Seq(Errand) /\ InOrder(taskList) /\ Len(taskList) <= TaskCap
  BY ErrandTypes DEF ErrandsInv
<1>2. Len(taskList) \in Nat /\ DOMAIN taskList = 1 .. Len(taskList)  BY <1>1, ErrandFacts
<1>3. ASSUME NEW i \in 1 .. Len(taskList)
      PROVE  /\ taskList'[i] \in Errand /\ taskList'[i].id = taskList[i].id
             /\ taskList'[i].by = taskList[i].by /\ taskList'[i].open = taskList[i].open
  <2>1. taskList'[i] = [taskList[i] EXCEPT !.old = TRUE]  BY <1>2
  <2>2. taskList[i] \in Errand  BY <1>1
  <2> QED BY <2>1, <2>2 DEF Errand
<1>4. taskList' \in Seq(Errand) /\ Len(taskList') = Len(taskList)  BY <1>2, <1>3
<1>5. InOrder(taskList')  BY <1>1, <1>3, <1>4 DEF InOrder
<1> QED BY <1>1, <1>3, <1>4, <1>5 DEF Keeps

\* Some tasks go, of those that are done or closed with it.
LEMMA SiftedKeeps ==
  ASSUME ErrandsInv, NEW S, taskList' = Sift(taskList, S),
         \A i \in 1 .. Len(taskList) :
           taskList[i].open /\ taskList[i] \notin S => taskList[i].id \in closed'
  PROVE  /\ Keeps(taskList, taskList', closed')
         /\ \A j \in 1 .. Len(taskList') : taskList'[j] \in S
<1>1. taskList \in Seq(Errand) /\ InOrder(taskList) /\ Len(taskList) <= TaskCap
  BY ErrandTypes DEF ErrandsInv
<1>2. taskList' \in Seq(Errand \cap S) /\ Len(taskList') <= Len(taskList)  BY <1>1, SiftType
<1>3. /\ \A j \in 1 .. Len(taskList') :
           taskList'[j] \in S /\ \E i \in 1 .. Len(taskList) : taskList'[j] = taskList[i]
      /\ \A i \in 1 .. Len(taskList) :
           taskList[i] \in S => \E j \in 1 .. Len(taskList') : taskList'[j] = taskList[i]
  BY <1>1, SiftKeeps
<1>4. \A k, l \in 1 .. Len(taskList') : k < l =>
        \E i, j \in 1 .. Len(taskList) :
          i < j /\ taskList'[k] = taskList[i] /\ taskList'[l] = taskList[j]
  BY <1>1, SiftOrder
<1>5. taskList' \in Seq(Errand)  BY <1>2
<1>6. InOrder(taskList')
  <2> SUFFICES ASSUME NEW k \in 1 .. Len(taskList'), NEW l \in 1 .. Len(taskList'), k < l
               PROVE  taskList'[k].id < taskList'[l].id
    BY DEF InOrder
  <2>1. PICK i \in 1 .. Len(taskList), j \in 1 .. Len(taskList) :
          i < j /\ taskList'[k] = taskList[i] /\ taskList'[l] = taskList[j]
    BY <1>4
  <2> QED BY <1>1, <2>1 DEF InOrder
<1>7. Len(taskList') <= TaskCap  BY <1>1, <1>2, <1>5, ErrandFacts, ErrandsConstants
<1> QED BY <1>3, <1>5, <1>6, <1>7 DEF Keeps

RestTypes ==
  /\ talkFile \in [Customers -> {"none", "recent", "old"}]
  /\ {inTurn, watching, halfForgotten, cutOff} \subseteq SUBSET Customers
  /\ closed \subseteq 1 .. MaxErrands /\ halts \in 0 .. MaxHalts

LEMMA ErrandsKept ==
  ASSUME ErrandsInv, Keeps(taskList, taskList', closed'), given' = given, closed \subseteq closed',
         RestTypes', ErrandsResume'
  PROVE  ErrandsInv'
<1>1. /\ taskList' \in Seq(Errand) /\ Len(taskList') <= TaskCap /\ InOrder(taskList')
      /\ \A i \in 1 .. Len(taskList') : taskList'[i].id <= given'
      /\ TasksStayOpen' /\ FewOpen'
  BY ListGoesOn
<1>2. given' \in 0 .. MaxErrands  BY DEF ErrandsInv, ErrandsTypeOK
<1>3. ErrandsTypeOK'  BY <1>1, <1>2 DEF ErrandsTypeOK, RestTypes
<1>4. InOrder(taskList)' /\ \A i \in 1 .. Len(taskList)' : taskList'[i].id <= given'
  BY <1>1 DEF InOrder
<1> QED BY <1>1, <1>3, <1>4 DEF ErrandsInv

LEMMA RestTyped == ErrandsInv => RestTypes
BY DEF ErrandsInv, ErrandsTypeOK, RestTypes

\* Nothing but turns, watches and transcripts changes.
LEMMA TalkKeeps ==
  ASSUME ErrandsInv,
         \E c \in Customers : TalkBegins(c) \/ WatchChanges(c) \/ TalkEnds(c) \/ ForgetBegins(c)
  PROVE  ErrandsInv'
<1>1. PICK c \in Customers : TalkBegins(c) \/ WatchChanges(c) \/ TalkEnds(c) \/ ForgetBegins(c)
  OBVIOUS
<1>2. taskList' = taskList /\ given' = given /\ closed' = closed /\ halts' = halts
  BY <1>1 DEF TalkBegins, WatchChanges, TalkEnds, ForgetBegins
<1>3. Keeps(taskList, taskList', closed')  BY <1>2, SameKeeps
<1>4. \A d : OpenOf(d)' = OpenOf(d)  BY <1>2 DEF OpenOf
<1>5. RestTypes'
  <2>1. talkFile' \in [Customers -> {"none", "recent", "old"}]
    BY <1>1, RestTyped DEF RestTypes, TalkBegins, WatchChanges, TalkEnds, ForgetBegins
  <2>2. {inTurn', watching', halfForgotten', cutOff'} \subseteq SUBSET Customers
    BY <1>1, RestTyped DEF RestTypes, TalkBegins, WatchChanges, TalkEnds, ForgetBegins
  <2> QED BY <1>2, <2>1, <2>2, RestTyped DEF RestTypes
<1>6. ErrandsResume'
  <2> SUFFICES ASSUME NEW d \in Customers, d \notin inTurn' \cup halfForgotten' \cup cutOff',
                      OpenOf(d) # {} \/ d \in watching'
               PROVE  talkFile'[d] # "none"
    BY <1>4 DEF ErrandsResume
  <2>1. talkFile \in [Customers -> {"none", "recent", "old"}]  BY RestTyped DEF RestTypes
  <2>2. d \notin inTurn \cup halfForgotten \cup cutOff /\ (OpenOf(d) # {} \/ d \in watching)
          => talkFile[d] # "none"
    BY DEF ErrandsInv, ErrandsResume
  <2>3. CASE TalkBegins(c)  BY <2>2, <2>3 DEF TalkBegins
  <2>4. CASE WatchChanges(c)
    <3>1. /\ inTurn' = inTurn /\ halfForgotten' = halfForgotten /\ cutOff' = cutOff
          /\ talkFile' = talkFile
      BY <2>4 DEF WatchChanges
    <3>2. d \in watching' => d \in watching
      BY <2>4, <3>1 DEF WatchChanges
    <3> QED BY <2>2, <3>1, <3>2
  <2>5. CASE TalkEnds(c)
    <3>1. CASE d = c  BY <2>1, <2>5, <3>1 DEF TalkEnds
    <3>2. CASE d # c  BY <2>1, <2>2, <2>5, <3>2 DEF TalkEnds
    <3> QED BY <3>1, <3>2
  <2>6. CASE ForgetBegins(c)
    <3>1. d # c /\ d \notin halfForgotten  BY <2>6 DEF ForgetBegins
    <3> QED BY <2>1, <2>2, <2>6, <3>1 DEF ForgetBegins
  <2> QED BY <1>1, <2>3, <2>4, <2>5, <2>6
<1> QED BY <1>2, <1>3, <1>5, <1>6, ErrandsKept

LEMMA TaskCompleted ==
  ASSUME ErrandsInv, NEW c \in Customers, CompleteTask(c)
  PROVE  ErrandsInv'
<1>1. PICK k \in OpenOf(c) :
        /\ taskList' = [taskList EXCEPT ![k].open = FALSE, ![k].old = FALSE]
        /\ closed' = closed \cup {taskList[k].id}
  BY DEF CompleteTask
<1>2. k \in 1 .. Len(taskList) /\ taskList[k].id \in 1 .. MaxErrands /\ taskList[k].id \in closed'
  BY <1>1, ErrandTypes, ErrandFacts DEF OpenIn
<1>3. Keeps(taskList, taskList', closed')  BY <1>1, <1>2, CompletedKeeps
<1>4. /\ given' = given /\ talkFile' = talkFile /\ inTurn' = inTurn /\ watching' = watching
      /\ halfForgotten' = halfForgotten /\ cutOff' = cutOff /\ halts' = halts
  BY DEF CompleteTask
<1>5. RestTypes'  BY <1>1, <1>2, <1>4, RestTyped DEF RestTypes
<1>6. \A d : OpenOf(d)' # {} => OpenOf(d) # {}  BY <1>1, <1>3, <1>4, ListGoesOn
<1>7. ErrandsResume'  BY <1>4, <1>6 DEF ErrandsInv, ErrandsResume
<1> QED BY <1>1, <1>3, <1>4, <1>5, <1>7, ErrandsKept

LEMMA ErrandsForgotten ==
  ASSUME ErrandsInv, NEW c \in Customers, ForgetFinishes(c)
  PROVE  ErrandsInv'
<1> DEFINE S == {task \in Errand : task.by # c}
<1>1. /\ taskList' = Sift(taskList, S)
      /\ closed' = closed \cup {taskList[i].id : i \in OpenOf(c)}
      /\ halfForgotten' = halfForgotten \ {c} /\ watching' = watching \ {c}
      /\ given' = given /\ talkFile' = talkFile /\ inTurn' = inTurn /\ cutOff' = cutOff
      /\ halts' = halts
  BY DEF ForgetFinishes
<1>2. ASSUME NEW i \in 1 .. Len(taskList), taskList[i].open, taskList[i] \notin S
      PROVE  taskList[i].id \in closed'
  <2>1. taskList[i].by = c  BY <1>2, ErrandTypes, ErrandFacts
  <2>2. i \in OpenOf(c)  BY <1>2, <2>1, ErrandTypes DEF OpenIn
  <2> QED BY <1>1, <2>2
<1>3. Keeps(taskList, taskList', closed') /\ \A j \in 1 .. Len(taskList') : taskList'[j] \in S
  <2> HIDE DEF S
  <2> QED BY <1>1, <1>2, SiftedKeeps
<1>4. closed' \subseteq 1 .. MaxErrands
  <2>1. \A i \in OpenOf(c) : taskList[i].id \in 1 .. MaxErrands
    BY ErrandTypes, ErrandFacts DEF OpenIn
  <2> QED BY <1>1, <2>1, RestTyped DEF RestTypes
<1>5. RestTypes'  BY <1>1, <1>4, RestTyped DEF RestTypes
<1>6. \A d : OpenOf(d)' # {} => OpenOf(d) # {}  BY <1>1, <1>3, ListGoesOn
<1>7. OpenOf(c)' = {}
  <2>1. DOMAIN taskList' = 1 .. Len(taskList')  BY <1>3, ErrandFacts DEF Keeps
  <2> QED BY <1>3, <2>1 DEF OpenOf
<1>8. ErrandsResume'
  <2> SUFFICES ASSUME NEW d \in Customers, d \notin inTurn' \cup halfForgotten' \cup cutOff',
                      OpenOf(d)' # {} \/ d \in watching'
               PROVE  talkFile'[d] # "none"
    BY DEF ErrandsResume
  <2>1. d # c  BY <1>1, <1>7
  <2>2. d \notin inTurn \cup halfForgotten \cup cutOff /\ (OpenOf(d) # {} \/ d \in watching)
    BY <1>1, <1>6, <2>1
  <2> QED BY <1>1, <2>2 DEF ErrandsInv, ErrandsResume
<1> QED BY <1>1, <1>3, <1>5, <1>8, ErrandsKept

LEMMA TimeHasPassed ==
  ASSUME ErrandsInv, TimePasses
  PROVE  ErrandsInv'
<1>1. /\ talkFile' = [c \in Customers |-> IF talkFile[c] = "recent" THEN "old" ELSE talkFile[c]]
      /\ inTurn' = inTurn /\ watching' = watching /\ given' = given /\ closed' = closed
      /\ halfForgotten' = halfForgotten /\ cutOff' = cutOff /\ halts' = halts
  BY DEF TimePasses
<1>2. Keeps(taskList, taskList', closed')  BY AgedKeeps DEF TimePasses
<1>3. \A c \in Customers : talkFile[c] \in {"none", "recent", "old"}  BY RestTyped DEF RestTypes
<1>4. talkFile' \in [Customers -> {"none", "recent", "old"}]
      /\ \A c \in Customers : talkFile'[c] = "none" => talkFile[c] = "none"
  BY <1>1, <1>3
<1>5. RestTypes'  BY <1>1, <1>4, RestTyped DEF RestTypes
<1>6. \A d : OpenOf(d)' # {} => OpenOf(d) # {}  BY <1>1, <1>2, ListGoesOn
<1>7. ErrandsResume'  BY <1>1, <1>4, <1>6 DEF ErrandsInv, ErrandsResume
<1> QED BY <1>1, <1>2, <1>5, <1>7, ErrandsKept

LEMMA ErrandsSwept ==
  ASSUME ErrandsInv, Sweep
  PROVE  ErrandsInv'
<1> DEFINE S == {task \in Errand : task.open \/ ~task.old}
<1>1. /\ talkFile' = [c \in Customers |->
           IF talkFile[c] = "old" /\ c \notin watching
             /\ OpenOf(c) = {} THEN "none" ELSE talkFile[c]]
      /\ taskList' = Sift(taskList, S)
      /\ inTurn' = inTurn /\ watching' = watching /\ given' = given /\ closed' = closed
      /\ halfForgotten' = halfForgotten /\ cutOff' = cutOff /\ halts' = halts
  BY DEF Sweep, Swept
<1>2. \A i \in 1 .. Len(taskList) : taskList[i].open => taskList[i] \in S
  BY ErrandTypes, ErrandFacts
<1>3. Keeps(taskList, taskList', closed')
  <2> HIDE DEF S
  <2> QED BY <1>1, <1>2, SiftedKeeps
<1>4. \A c \in Customers : talkFile[c] \in {"none", "recent", "old"}  BY RestTyped DEF RestTypes
<1>5. talkFile' \in [Customers -> {"none", "recent", "old"}]  BY <1>1, <1>4
<1>6. RestTypes'  BY <1>1, <1>5, RestTyped DEF RestTypes
<1>7. \A d : OpenOf(d)' # {} => OpenOf(d) # {}  BY <1>1, <1>3, ListGoesOn
<1>8. ErrandsResume'
  <2> SUFFICES ASSUME NEW d \in Customers, d \notin inTurn \cup halfForgotten \cup cutOff,
                      OpenOf(d)' # {} \/ d \in watching
               PROVE  talkFile'[d] # "none"
    BY <1>1 DEF ErrandsResume
  <2>1. OpenOf(d) # {} \/ d \in watching  BY <1>7
  <2>2. talkFile[d] # "none"  BY <2>1 DEF ErrandsInv, ErrandsResume
  <2> QED BY <1>1, <2>1, <2>2
<1> QED BY <1>1, <1>3, <1>6, <1>8, ErrandsKept

LEMMA HostHalted ==
  ASSUME ErrandsInv, HostHalts
  PROVE  ErrandsInv'
<1>1. /\ halts < MaxHalts /\ halts' = halts + 1 /\ inTurn' = {} /\ halfForgotten' = {}
      /\ cutOff' = cutOff \cup {c \in inTurn \cup halfForgotten : talkFile[c] = "none"}
      /\ taskList' = taskList /\ talkFile' = talkFile /\ watching' = watching
      /\ given' = given /\ closed' = closed
  BY DEF HostHalts
<1>2. Keeps(taskList, taskList', closed')  BY <1>1, SameKeeps
<1>3. halts' \in 0 .. MaxHalts
  <2>1. halts \in 0 .. MaxHalts  BY RestTyped DEF RestTypes
  <2> QED BY <1>1, <2>1, ErrandsConstants
<1>4. RestTypes'  BY <1>1, <1>3, RestTyped DEF RestTypes
<1>5. \A d : OpenOf(d)' = OpenOf(d)  BY <1>1 DEF OpenOf
<1>6. ErrandsResume'  BY <1>1, <1>5 DEF ErrandsInv, ErrandsResume
<1> QED BY <1>1, <1>2, <1>4, <1>6, ErrandsKept

\* A list that takes in one task, and lets its oldest go when it is full.
LEMMA AddedAtEnd ==
  ASSUME NEW s \in Seq(Errand), NEW task \in Errand, Len(s) <= TaskCap,
         NEW r, r = IF Len(Append(s, task)) > TaskCap THEN Tail(Append(s, task))
           ELSE Append(s, task)
  PROVE  /\ r \in Seq(Errand) /\ Len(r) <= TaskCap /\ Len(s) \in Nat
         /\ \/ /\ Len(s) < TaskCap /\ Len(r) = Len(s) + 1 /\ r[Len(s) + 1] = task
               /\ \A i \in 1 .. Len(s) : r[i] = s[i]
            \/ /\ Len(s) = TaskCap /\ Len(r) = Len(s) /\ r[Len(s)] = task
               /\ \A i \in 1 .. Len(s) - 1 : r[i] = s[i + 1]
<1> DEFINE more == Append(s, task)
<1>1. Len(s) \in Nat /\ TaskCap \in Nat \ {0}  BY ErrandsConstants
<1>2. /\ more \in Seq(Errand) /\ Len(more) = Len(s) + 1 /\ more[Len(s) + 1] = task
      /\ \A i \in 1 .. Len(s) : more[i] = s[i]
  OBVIOUS
<1>3. CASE Len(s) < TaskCap
  <2>1. r = more  BY <1>1, <1>2, <1>3
  <2> HIDE DEF more
  <2> QED BY <1>1, <1>2, <1>3, <2>1
<1>4. CASE Len(s) = TaskCap
  <2>1. r = Tail(more)  BY <1>1, <1>2, <1>4
  <2> HIDE DEF more
  <2>2. more # <<>>  BY <1>1, <1>2
  <2>3. /\ r \in Seq(Errand) /\ Len(r) = Len(s)
        /\ \A i \in 1 .. Len(s) : r[i] = more[i + 1]
    BY <1>1, <1>2, <2>1, <2>2
  <2> QED BY <1>1, <1>2, <1>4, <2>3
<1> QED BY <1>1, <1>3, <1>4

LEMMA TaskSaved ==
  ASSUME ErrandsInv, NEW c \in Customers, SaveTask(c)
  PROVE  ErrandsInv'
<1> DEFINE task == [id |-> given + 1, by |-> c, open |-> TRUE, old |-> FALSE]
           n == Len(taskList)
<1>1. /\ c \in inTurn /\ given < MaxErrands /\ Cardinality(OpenOf(c)) < MaxOpen
      /\ taskList' = IF Len(Append(taskList, task)) > TaskCap THEN Tail(Append(taskList, task))
                     ELSE Append(taskList, task)
      /\ given' = given + 1 /\ talkFile' = talkFile /\ inTurn' = inTurn /\ watching' = watching
      /\ closed' = closed /\ halfForgotten' = halfForgotten /\ cutOff' = cutOff /\ halts' = halts
  BY DEF SaveTask
<1>2. /\ taskList \in Seq(Errand) /\ n \in Nat /\ n <= TaskCap /\ given \in Nat /\ InOrder(taskList)
      /\ TaskCap \in Nat \ {0} /\ MaxErrands \in Nat
      /\ \A i \in 1 .. n : taskList[i].id <= given /\ taskList[i].id \in Nat \ {0}
  BY ErrandTypes, ErrandsConstants, ErrandFacts DEF ErrandsInv
<1>3. /\ task \in Errand /\ task.id = given + 1 /\ task.by = c /\ task.open = TRUE
  BY <1>1, <1>2 DEF Errand
<1> HIDE DEF task
<1>4. /\ taskList' \in Seq(Errand) /\ Len(taskList') <= TaskCap
      /\ \/ /\ n < TaskCap /\ Len(taskList') = n + 1 /\ taskList'[n + 1] = task
            /\ \A i \in 1 .. n : taskList'[i] = taskList[i]
         \/ /\ n = TaskCap /\ Len(taskList') = n /\ taskList'[n] = task
            /\ \A i \in 1 .. n - 1 : taskList'[i] = taskList[i + 1]
  BY <1>1, <1>2, <1>3, AddedAtEnd
<1> DEFINE drop == n = TaskCap
           m == Len(taskList')
<1>5. /\ m \in 1 .. TaskCap /\ taskList'[m] = task
      /\ \A j \in 1 .. m - 1 :
           /\ drop => taskList'[j] = taskList[j + 1] /\ j + 1 \in 1 .. n
           /\ ~drop => taskList'[j] = taskList[j] /\ j \in 1 .. n
      /\ \A i \in 1 .. n :
           /\ ~drop => taskList'[i] = taskList[i] /\ i \in 1 .. m - 1
           /\ drop /\ i # 1 => taskList'[i - 1] = taskList[i] /\ i - 1 \in 1 .. m - 1
  <2>0. m \in Nat  BY <1>4, ErrandFacts
  <2>1. CASE drop
    <3>1. n = TaskCap /\ m = n /\ taskList'[n] = task /\ \A i \in 1 .. n - 1 :
            taskList'[i] = taskList[i + 1]
      BY <1>2, <1>4, <2>1
    <3>2. \A i \in 1 .. n : i # 1 => taskList'[i - 1] = taskList[i] /\ i - 1 \in 1 .. m - 1
      <4> TAKE i \in 1 .. n
      <4>1. i # 1 => i - 1 \in 1 .. n - 1 /\ (i - 1) + 1 = i  BY <1>2
      <4> QED BY <3>1, <4>1
    <3> QED BY <1>2, <2>1, <3>1, <3>2
  <2>2. CASE ~drop
    <3>1. n < TaskCap /\ m = n + 1 /\ taskList'[m] = task /\ \A i \in 1 .. n :
            taskList'[i] = taskList[i]
      BY <1>2, <1>4, <2>2
    <3> QED BY <1>2, <2>2, <3>1
  <2> QED BY <2>1, <2>2
<1>6. ASSUME NEW j \in 1 .. m - 1
      PROVE  \E i \in 1 .. n : taskList'[j] = taskList[i]
  BY <1>5
<1>7. InOrder(taskList')
  <2> SUFFICES ASSUME NEW k \in 1 .. m, NEW l \in 1 .. m, k < l
               PROVE  taskList'[k].id < taskList'[l].id
    BY DEF InOrder
  <2>1. k \in 1 .. m - 1 /\ (l = m \/ l \in 1 .. m - 1)  BY <1>5
  <2>2. CASE l = m
    <3>1. taskList'[k].id <= given  BY <1>2, <1>6, <2>1
    <3>2. taskList'[k].id \in Nat  BY <1>2, <1>6, <2>1
    <3> QED BY <1>2, <1>3, <1>5, <2>2, <3>1, <3>2
  <2>3. CASE l \in 1 .. m - 1
    <3>1. CASE drop
      <4>1. /\ taskList'[k] = taskList[k + 1] /\ taskList'[l] = taskList[l + 1]
            /\ k + 1 \in 1 .. n /\ l + 1 \in 1 .. n /\ k + 1 < l + 1
        BY <1>5, <2>1, <2>3, <3>1
      <4> QED BY <1>2, <4>1 DEF InOrder
    <3>2. CASE ~drop
      <4>1. /\ taskList'[k] = taskList[k] /\ taskList'[l] = taskList[l]
            /\ k \in 1 .. n /\ l \in 1 .. n
        BY <1>5, <2>1, <2>3, <3>2
      <4> QED BY <1>2, <4>1 DEF InOrder
    <3> QED BY <3>1, <3>2
  <2> QED BY <2>1, <2>2, <2>3
<1>8. \A i \in 1 .. m : taskList'[i].id <= given'
  <2> TAKE i \in 1 .. m
  <2>1. i = m \/ i \in 1 .. m - 1  BY <1>5
  <2>2. CASE i = m  BY <1>1, <1>2, <1>3, <1>5, <2>2
  <2>3. CASE i \in 1 .. m - 1
    <3>1. taskList'[i].id <= given /\ taskList'[i].id \in Nat  BY <1>2, <1>6, <2>3
    <3> QED BY <1>1, <1>2, <3>1
  <2> QED BY <2>1, <2>2, <2>3
<1>9. DOMAIN taskList' = 1 .. m /\ DOMAIN taskList = 1 .. n  BY <1>2, <1>4, ErrandFacts
<1>10. TasksStayOpen'
  <2> SUFFICES ASSUME NEW k \in 1 .. given'
               PROVE  \/ \E j \in 1 .. m : taskList'[j].id = k /\ taskList'[j].open
                      \/ k \in closed' \/ given' - k >= TaskCap
    BY <1>9 DEF TasksStayOpen
  <2>1. CASE k = given'
    <3>1. m \in 1 .. m /\ taskList'[m].id = k /\ taskList'[m].open  BY <1>1, <1>3, <1>5, <2>1
    <3> QED BY <3>1
  <2>2. CASE k # given'
    <3>1. k \in 1 .. given  BY <1>1, <1>2, <2>2
    <3>2. CASE k \in closed  BY <1>1, <3>2
    <3>3. CASE given - k >= TaskCap  BY <1>1, <1>2, <3>1, <3>3
    <3>4. CASE \E i \in 1 .. n : taskList[i].id = k /\ taskList[i].open
      <4>1. PICK i \in 1 .. n : taskList[i].id = k /\ taskList[i].open  BY <3>4
      <4>2. CASE ~drop \/ i # 1
        <5>1. \E j \in 1 .. m - 1 : taskList'[j] = taskList[i]  BY <1>5, <4>2
        <5>2. 1 .. m - 1 \subseteq 1 .. m  BY <1>5
        <5> QED BY <4>1, <5>1, <5>2
      <4>3. CASE drop /\ i = 1
        <5> DEFINE f == [j \in 1 .. n |-> taskList[j].id]
        <5>1. \A j \in 1 .. n : f[j] \in Int  BY <1>2
        <5>2. \A j, l \in 1 .. n : j < l => f[j] < f[l]  BY <1>2 DEF InOrder
        <5>3. \A j \in 1 .. n : f[j] = taskList[j].id  OBVIOUS
        <5> HIDE DEF f
        <5>4. 1 \in 1 .. n /\ n \in 1 .. n /\ 1 <= n  BY <1>2, <4>3
        <5>5. n - 1 <= f[n] - f[1]  BY <1>2, <5>1, <5>2, <5>4, Climbs
        <5>6. f[n] <= given /\ f[n] \in Int /\ f[1] = k  BY <1>2, <4>1, <4>3, <5>1, <5>3, <5>4
        <5> QED BY <1>1, <1>2, <4>3, <5>5, <5>6
      <4> QED BY <4>2, <4>3
    <3> QED BY <1>9, <3>1, <3>2, <3>3, <3>4 DEF ErrandsInv, TasksStayOpen
  <2> QED BY <2>1, <2>2
<1>11. ASSUME NEW d, NEW j \in OpenIn(taskList', d)
       PROVE  \/ j = m /\ d = c
              \/ \E i \in OpenIn(taskList, d) : taskList[i].id = taskList'[j].id
  <2>1. j \in 1 .. m /\ taskList'[j].by = d /\ taskList'[j].open  BY <1>11 DEF OpenIn
  <2>2. CASE j = m  BY <1>3, <1>5, <2>1, <2>2
  <2>3. CASE j # m
    <3>1. j \in 1 .. m - 1  BY <1>5, <2>1, <2>3
    <3>2. PICK i \in 1 .. n : taskList'[j] = taskList[i]  BY <1>6, <3>1
    <3>3. i \in OpenIn(taskList, d)  BY <2>1, <3>2 DEF OpenIn
    <3> QED BY <3>2, <3>3
  <2> QED BY <2>2, <2>3
<1>12. \A d : OpenOf(d)' = OpenIn(taskList', d) /\ OpenOf(d) = OpenIn(taskList, d)
  BY <1>9 DEF OpenOf, OpenIn
<1>13. FewOpen'
  <2> SUFFICES ASSUME NEW d \in Customers PROVE Cardinality(OpenOf(d)') <= MaxOpen
    BY DEF FewOpen
  <2> DEFINE was == {taskList[i].id : i \in OpenIn(taskList, d)}
             is == {taskList'[i].id : i \in OpenIn(taskList', d)}
  <2>1. is \subseteq IF d = c THEN was \cup {given + 1} ELSE was  BY <1>3, <1>5, <1>11
  <2>2. IsFiniteSet(was) /\ Cardinality(OpenIn(taskList, d)) = Cardinality(was)
    BY <1>2, OpenAreCounted
  <2>3. IsFiniteSet(is) /\ Cardinality(OpenIn(taskList', d)) = Cardinality(is)
    BY <1>4, <1>7, OpenAreCounted
  <2> HIDE DEF was, is
  <2>4. Cardinality(is) \in Nat /\ Cardinality(was) \in Nat  BY <2>2, <2>3, FS_CardinalityType
  <2>5. CASE d = c
    <3>1. /\ IsFiniteSet(was \cup {given + 1})
          /\ Cardinality(was \cup {given + 1}) = Cardinality(was)
               \/ Cardinality(was \cup {given + 1}) = Cardinality(was) + 1
      BY <2>2, FS_AddElement
    <3>2. Cardinality(is) <= Cardinality(was \cup {given + 1})
      BY <2>1, <2>5, <3>1, FS_Subset
    <3>3. Cardinality(was) < MaxOpen  BY <1>1, <1>12, <2>2, <2>5
    <3> QED BY <1>12, <2>3, <2>4, <3>1, <3>2, <3>3, ErrandsConstants
  <2>6. CASE d # c
    <3>1. Cardinality(is) <= Cardinality(was)  BY <2>1, <2>2, <2>6, FS_Subset
    <3>2. Cardinality(OpenOf(d)) <= MaxOpen  BY DEF ErrandsInv, FewOpen
    <3> QED BY <1>12, <2>2, <2>3, <2>4, <3>1, <3>2, ErrandsConstants
  <2> QED BY <2>5, <2>6
<1>14. ErrandsResume'
  <2> SUFFICES ASSUME NEW d \in Customers, d \notin inTurn \cup halfForgotten \cup cutOff,
                      OpenOf(d)' # {} \/ d \in watching
               PROVE  talkFile[d] # "none"
    BY <1>1 DEF ErrandsResume
  <2>1. d # c  BY <1>1
  <2>2. OpenOf(d)' # {} => OpenOf(d) # {}  BY <1>11, <1>12, <2>1
  <2> QED BY <2>2 DEF ErrandsInv, ErrandsResume
<1>15. ErrandsTypeOK'
  <2>1. given' \in 0 .. MaxErrands  BY <1>1, <1>2
  <2> QED BY <1>1, <1>4, <2>1, RestTyped DEF RestTypes, ErrandsTypeOK
<1>16. InOrder(taskList)' /\ \A i \in 1 .. Len(taskList)' : taskList'[i].id <= given'
  BY <1>7, <1>8 DEF InOrder
<1> QED BY <1>10, <1>13, <1>14, <1>15, <1>16 DEF ErrandsInv

LEMMA ErrandsStep == ErrandsInv /\ [ErrandsNext]_errandVars => ErrandsInv'
<1> SUFFICES ASSUME ErrandsInv, [ErrandsNext]_errandVars PROVE ErrandsInv'  OBVIOUS
<1>1. CASE UNCHANGED errandVars
  BY <1>1 DEF errandVars, ErrandsInv, ErrandsTypeOK, InOrder, TasksStayOpen, ErrandsResume, FewOpen,
              OpenOf
<1>2. CASE ErrandsNext
  BY <1>2, TalkKeeps, TaskSaved, TaskCompleted, ErrandsForgotten, TimeHasPassed, ErrandsSwept,
     HostHalted DEF ErrandsNext
<1> QED BY <1>1, <1>2

\* Tasks, watches and the talks they come from keep their types (task_tool.py, proactive.py).
THEOREM ErrandsTypes == ErrandsSpec => []ErrandsTypeOK
<1>1. ErrandsInv => ErrandsTypeOK  BY DEF ErrandsInv
<1> QED BY <1>1, ErrandsBegin, ErrandsStep, PTL DEF ErrandsSpec

\* A task stays open until it is completed or forgotten, whoever has one is found in the files to
\* resume it, and no customer has more than agreed (TaskStore of task_tool.py, cleanup_expired
\* of proactive.py), for any number of customers.
THEOREM ErrandsHold == ErrandsSpec => []ErrandsSound
<1>1. ErrandsInv => ErrandsSound  BY DEF ErrandsInv, ErrandsSound
<1> QED BY <1>1, ErrandsBegin, ErrandsStep, PTL DEF ErrandsSpec

-----------------------------------------------------------------------------
(***************************************************************************)
(* The host (MCHost).                                                       *)
(***************************************************************************)

LEMMA PartBegins ==
  HostInit => /\ StoreInit /\ MemoryInit /\ FeedInit /\ A2AInit /\ TurnInit /\ PoolInit
              /\ ClientInit /\ StockActionsInit /\ LogInit /\ LimitsInit /\ ErrandsInit
              /\ part \in Parts
BY DEF HostInit

\* A step of one part is none of another.
LEMMA OthersRest ==
  ASSUME NEW p, Of(p)
  PROVE  /\ part = p /\ part' = part
         /\ p # "store" => UNCHANGED storeVars
         /\ p # "memory" => UNCHANGED memoryVars
         /\ p # "feed" => UNCHANGED feedVars
         /\ p # "a2a" => UNCHANGED a2aVars
         /\ p # "turns" => UNCHANGED turnVars
         /\ p # "pool" => UNCHANGED poolVars
         /\ p # "client" => UNCHANGED clientVars
         /\ p # "actions" => UNCHANGED stockActionVars
         /\ p # "log" => UNCHANGED logVars
         /\ p # "limits" => UNCHANGED limitVars
         /\ p # "errands" => UNCHANGED errandVars
BY DEF Of, Rests

LEMMA HostRests ==
  ASSUME UNCHANGED hostVars
  PROVE  /\ UNCHANGED storeVars /\ UNCHANGED memoryVars /\ UNCHANGED feedVars
         /\ UNCHANGED a2aVars /\ UNCHANGED turnVars /\ UNCHANGED poolVars
         /\ UNCHANGED clientVars /\ UNCHANGED stockActionVars /\ UNCHANGED logVars
         /\ UNCHANGED limitVars /\ UNCHANGED errandVars /\ UNCHANGED part
BY DEF hostVars

\* A step of the host is a step of each of its parts, or that part rests.
LEMMA PartStep ==
  [HostNext]_hostVars =>
    /\ [StoreNext]_storeVars /\ [MemoryNext]_memoryVars /\ [FeedNext]_feedVars
    /\ [A2ANext]_a2aVars /\ [TurnNext]_turnVars /\ [PoolNext]_poolVars
    /\ [ClientNext]_clientVars /\ [StockActionsNext]_stockActionVars /\ [LogNext]_logVars
    /\ [LimitsNext]_limitVars /\ [ErrandsNext]_errandVars
    /\ part' = part
<1> SUFFICES ASSUME [HostNext]_hostVars
             PROVE  /\ [StoreNext]_storeVars /\ [MemoryNext]_memoryVars /\ [FeedNext]_feedVars
                    /\ [A2ANext]_a2aVars /\ [TurnNext]_turnVars /\ [PoolNext]_poolVars
                    /\ [ClientNext]_clientVars /\ [StockActionsNext]_stockActionVars
                    /\ [LogNext]_logVars /\ [LimitsNext]_limitVars /\ [ErrandsNext]_errandVars
                    /\ part' = part
  OBVIOUS
<1>1. CASE UNCHANGED hostVars  BY <1>1, HostRests
<1>2. CASE HostNext
  BY <1>2, OthersRest DEF HostNext
<1> QED BY <1>1, <1>2

\* A run of the host is a run of each of its parts.
THEOREM HostRunsItsParts ==
  HostSpec => /\ StoreSpec /\ MemorySpec /\ FeedSpec /\ A2ASpec /\ TurnSpec /\ PoolSpec
              /\ ClientSpec /\ StockActionsSpec /\ LogSpec /\ LimitsSpec /\ ErrandsSpec
BY PartBegins, PartStep, PTL
   DEF HostSpec, StoreSpec, MemorySpec, FeedSpec, A2ASpec, TurnSpec, PoolSpec, ClientSpec,
       StockActionsSpec, LogSpec, LimitsSpec, ErrandsSpec

\* What the host has stored it keeps, and what it was told to forget it forgets (the list stores of
\* proactive.py, memory_store.py, activity.py and task_tool.py), whatever is added, saved, cut
\* short, swept or restarted, and however many there are of each.
THEOREM HostStoresKeep == HostSpec => []StoresSound
<1>1. StoreHolds /\ MemorySound /\ LogSound /\ ErrandsSound => StoresSound  BY DEF StoresSound
<1> QED BY <1>1, HostRunsItsParts, StoreKeepsItems, MemoryHolds, LogCanBeReliedOn, ErrandsHold, PTL

\* A shopper's clients stay apart and act for whom they should, each call is done once, and who
\* may chat how often is counted (session_pool.py, api_client.py, shop_limits.py).
THEOREM HostClientsKeep == HostSpec => []ClientsSound
<1>1. PoolSound /\ ClientSound /\ LimitsTypeOK /\ LimitsSound => ClientsSound  BY DEF ClientsSound
<1> QED BY <1>1, HostRunsItsParts, PoolKeepsItsWord, ClientKeepsItsWord, LimitsHold, PTL

\* Operators are told of complaints, overdue tickets and the shop's state, once, and what they
\* approve is carried out once, on the stock there is (proactive.py, host.py).
THEOREM HostOperatorsKeep == HostSpec => []OperatorsSound
<1>1. FeedSound /\ ActionsSound => OperatorsSound  BY DEF OperatorsSound
<1> QED BY <1>1, HostRunsItsParts, OperatorsAreTold, ActionsDoneOnce, PTL

\* The variables of the part that moves keep their types.
THEOREM HostTypes == HostSpec => []HostTypeOK
<1>1. /\ part \in Parts
      /\ StoreTypeOK /\ MemoryTypeOK /\ FeedTypeOK /\ A2ATypeOK /\ TurnTypeOK /\ PoolTypeOK
      /\ ClientTypeOK /\ StockActionsTypeOK /\ LogTypeOK /\ LimitsTypeOK /\ ErrandsTypeOK
      => HostTypeOK
  BY DEF HostTypeOK, Parts
<1>2. HostSpec => [](part \in Parts)
  <2>1. HostInit => part \in Parts  BY PartBegins
  <2>2. part \in Parts /\ [HostNext]_hostVars => (part \in Parts)'  BY PartStep
  <2> QED BY <2>1, <2>2, PTL DEF HostSpec
<1> QED
  BY <1>1, <1>2, HostRunsItsParts, StoreTypesHold, MemoryTypes, FeedTypes, A2ATypes, TurnTypes,
        PoolTypes, ClientTypes, StockActionsTypes, LogTypesHold, LimitsHold, ErrandsTypes, PTL

=============================================================================
