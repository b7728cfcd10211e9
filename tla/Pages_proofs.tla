---------------------------- MODULE Pages_proofs ----------------------------
(***************************************************************************)
(* The pages of customers and staff, each as a specification of its own: they     *)
(* keep their types and what they promise, for any number of tabs, pages, staff     *)
(* and calls.                                                               *)
(***************************************************************************)
EXTENDS MCShop, Checkout_proofs, Recursions_proofs

-----------------------------------------------------------------------------
(***************************************************************************)
(* The cart and its synchronisation (Cart).                                *)
(***************************************************************************)
USE QuantityAssumption

-----------------------------------------------------------------------------
(* The inductive invariant.                                                 *)

SignInCall(t) == cartCall[t]["signIn"]

\* Only a sign-in merges.
ButtonsDoNotMerge == \A t \in Tabs : ~IsMerge(cartCall[t]["button"])

\* What a merge is answered with is no list.
MergeAnswersNoList ==
  \A t \in Tabs : IsMerge(SignInCall(t)) /\ SignInCall(t).state = "answered"
                  => SignInCall(t).cart = NotAList

\* One merge at a time, and until it is committed the guest cart is as it was sent.
OneMerge ==
  /\ \A t, u \in Tabs : IsMerge(SignInCall(t)) /\ IsMerge(SignInCall(u)) => t = u
  /\ \A t \in Tabs : IsMerge(SignInCall(t)) /\ SignInCall(t).state = "sent"
                     => SignInCall(t).cart = guestCart

CartInv ==
  /\ CartTypeOK
  /\ ButtonsDoNotMerge
  /\ MergeAnswersNoList
  /\ ~overlapped => OneMerge
  /\ CartConserved

-----------------------------------------------------------------------------
LEMMA EmptyFacts == EmptyCart \in CartLines /\ EmptyCart \in [Lines -> Int]
  /\ NotAList \notin CartLines
BY DEF EmptyCart, CartLines

LEMMA CallFacts ==
  /\ NoCall \in CartCall /\ NoCall.state = "none" /\ ~IsMerge(NoCall)
  /\ \A call \in CartCall :
       /\ call.state \in {"none", "sent", "answered"}
       /\ call.state = "none" => call = NoCall
       /\ call.state = "sent" =>
            call.cart \in CartLines /\ call.kind \in {"merge", "list", "add", "update", "remove", "clear"}
       /\ call.state = "answered" =>
            call.cart \in CartLines \cup {NotAList} /\ call.kind \in {"merge", "list"}
BY DEF CartCall, NoCall, IsMerge

\* One call of one tab is set, and nothing else among the calls.
SetsCall(t, way, call) ==
  /\ cartCall' \in [Tabs -> [CallSlots -> CartCall]]
  /\ cartCall'[t][way] = call
  /\ \A u \in Tabs, r \in CallSlots : u # t \/ r # way => cartCall'[u][r] = cartCall[u][r]

LEMMA SetFacts ==
  ASSUME CartTypeOK, NEW t \in Tabs, NEW way \in CallSlots, NEW call \in CartCall,
         cartCall' = [cartCall EXCEPT ![t][way] = call]
  PROVE  SetsCall(t, way, call)
BY DEF SetsCall, CartTypeOK

\* What becomes of the merges when a call ends, or is set to one that is no merge.
LEMMA FewerMerges ==
  ASSUME CartInv, cartCall' \in [Tabs -> [CallSlots -> CartCall]],
         \A t \in Tabs, way \in CallSlots :
            cartCall'[t][way] = cartCall[t][way] \/ ~IsMerge(cartCall'[t][way])
  PROVE  /\ ButtonsDoNotMerge' /\ MergeAnswersNoList'
         /\ ~overlapped /\ guestCart' = guestCart => OneMerge'
BY DEF CartInv, ButtonsDoNotMerge, MergeAnswersNoList, OneMerge, SignInCall, IsMerge, CallSlots

\* The committed merge stays as it is when all of its calls do.
LEMMA SameCommitted ==
  ASSUME \A t \in Tabs : \/ SignInCall(t)' = SignInCall(t)
                         \/ /\ ~(IsMerge(SignInCall(t)) /\ SignInCall(t).state = "answered")
                            /\ ~(IsMerge(SignInCall(t)') /\ SignInCall(t)'.state = "answered")
  PROVE  MergeCommitted' = MergeCommitted
BY DEF MergeCommitted, SignInCall, IsMerge

LEMMA CartBegins == CartInit => CartInv
<1> SUFFICES ASSUME CartInit PROVE CartInv
  OBVIOUS
<1>1. CartTypeOK
  BY EmptyFacts, CallFacts DEF CartInit, CartTypeOK
<1>2. \A t \in Tabs, way \in CallSlots : ~IsMerge(cartCall[t][way])
  BY CallFacts DEF CartInit
<1>3. ButtonsDoNotMerge /\ MergeAnswersNoList /\ OneMerge
  BY <1>2 DEF ButtonsDoNotMerge, MergeAnswersNoList, OneMerge, SignInCall, CallSlots
<1>4. CartConserved
  BY DEF CartInit, CartConserved, EmptyCart
<1>5. QED
  BY <1>1, <1>3, <1>4 DEF CartInv

LEMMA GuestInv ==
  ASSUME CartInv, ~overlapped, NEW t \in Tabs, NEW cart \in CartLines, GuestChange(t, cart)
  PROVE  CartInv'
<1>1. /\ shownCart' = [shownCart EXCEPT ![t] = cart] /\ guestCart' = cart
      /\ UNCHANGED <<tabUser, cartCall, serverCart>>
      /\ shownCart[t] \in CartLines
      /\ overlapped' = (shownCart[t] # guestCart \/ MergeUnderWay)
      /\ wanted' = IF overlapped' THEN EmptyCart
                   ELSE [l \in Lines |-> wanted[l] + (cart[l] - shownCart[t][l])]
  BY DEF GuestChange, Asks, Up, CartInv, CartTypeOK
<1>2. wanted' \in [Lines -> Int] /\ overlapped' \in BOOLEAN
  BY <1>1, EmptyFacts DEF CartInv, CartTypeOK, CartLines
<1>3. CartTypeOK'
  BY <1>1, <1>2 DEF CartInv, CartTypeOK
<1>4. ButtonsDoNotMerge' /\ MergeAnswersNoList'
  BY <1>1 DEF CartInv, ButtonsDoNotMerge, MergeAnswersNoList, SignInCall, IsMerge
<1>5. ASSUME ~overlapped'
      PROVE  OneMerge' /\ \A l \in Lines : wanted'[l] = serverCart'[l] + guestCart'[l]
  <2>1. shownCart[t] = guestCart /\ \A u \in Tabs : ~IsMerge(SignInCall(u))
    BY <1>1, <1>5 DEF MergeUnderWay, SignInCall
  <2>2. \A l \in Lines : wanted[l] = serverCart[l] + guestCart[l]
    BY <2>1 DEF CartInv, CartConserved, MergeCommitted, SignInCall
  <2>3. OneMerge'
    BY <1>1, <2>1 DEF OneMerge, SignInCall, IsMerge
  <2>4. QED
    BY <1>1, <1>5, <2>1, <2>2, <2>3 DEF CartInv, CartTypeOK, CartLines
<1>6. CartConserved'
  <2>1. MergeCommitted' => overlapped'
    BY <1>1 DEF MergeCommitted, MergeUnderWay, IsMerge
  <2>2. QED
    BY <1>5, <2>1 DEF CartConserved
<1>7. QED
  BY <1>3, <1>4, <1>5, <1>6 DEF CartInv

LEMMA UserInv ==
  ASSUME CartInv, ~overlapped, NEW t \in Tabs, NEW l \in Lines, NEW qty \in 1 .. MaxQty,
         NEW kind \in {"add", "remove", "clear", "update"}, UserChange(t, kind, l, qty)
  PROVE  CartInv'
<1> DEFINE call == [state |-> "sent", kind |-> kind, cart |-> [EmptyCart EXCEPT ![l] = qty]]
<1>1. call \in CartCall /\ ~IsMerge(call)
  BY DEF CartCall, CartLines, EmptyCart, IsMerge
<1>2. /\ cartCall' = [cartCall EXCEPT ![t]["button"] = call]
      /\ UNCHANGED <<shownCart, tabUser, guestCart, serverCart, wanted, overlapped>>
  BY DEF UserChange, pagesVars, countVars
<1> HIDE DEF call
<1>3. SetsCall(t, "button", call)
  BY <1>1, <1>2, SetFacts DEF CartInv, CallSlots
<1>4. ButtonsDoNotMerge' /\ MergeAnswersNoList' /\ OneMerge'
  BY <1>1, <1>2, <1>3, FewerMerges DEF SetsCall
<1>5. MergeCommitted' = MergeCommitted
  BY <1>3, SameCommitted DEF SetsCall, SignInCall, CallSlots
<1>6. QED
  BY <1>2, <1>3, <1>4, <1>5 DEF CartInv, CartTypeOK, CartConserved, SetsCall

LEMMA SignInInv ==
  ASSUME CartInv, ~overlapped, NEW t \in Tabs, SignInTab(t)
  PROVE  CartInv'
<1> DEFINE call == [state |-> "sent", kind |-> IF guestCart = EmptyCart THEN "list" ELSE "merge",
                    cart |-> guestCart]
<1>1. /\ call \in CartCall /\ call.state = "sent" /\ call.cart = guestCart
      /\ IsMerge(call) <=> guestCart # EmptyCart
  BY DEF CartCall, CartInv, CartTypeOK, IsMerge
<1>2. /\ cartCall' = [cartCall EXCEPT ![t]["signIn"] = call]
      /\ tabUser' = [tabUser EXCEPT ![t] = TRUE]
      /\ UNCHANGED <<shownCart, guestCart, serverCart>>
      /\ overlapped' = (MergeUnderWay /\ guestCart # EmptyCart)
      /\ wanted' = IF overlapped' THEN EmptyCart ELSE wanted
      /\ SignInCall(t) = NoCall
  BY DEF SignInTab, Miscounts, SignInCall
<1> HIDE DEF call
<1>3. SetsCall(t, "signIn", call)
  BY <1>1, <1>2, SetFacts DEF CartInv, CallSlots
<1>4. CartTypeOK'
  BY <1>2, <1>3, EmptyFacts DEF CartInv, CartTypeOK, SetsCall
<1>5. /\ SignInCall(t)' = call
      /\ \A u \in Tabs : u # t => SignInCall(u)' = SignInCall(u)
      /\ \A u \in Tabs : cartCall'[u]["button"] = cartCall[u]["button"]
  BY <1>3 DEF SetsCall, SignInCall, CallSlots
<1>6. ButtonsDoNotMerge' /\ MergeAnswersNoList'
  BY <1>1, <1>5 DEF CartInv, ButtonsDoNotMerge, MergeAnswersNoList, IsMerge
<1>7. ~overlapped' => OneMerge'
  <2>1. ASSUME ~overlapped', IsMerge(call), NEW u \in Tabs, u # t
        PROVE  ~IsMerge(SignInCall(u))
    BY <1>1, <1>2, <2>1 DEF MergeUnderWay, SignInCall
  <2>2. ASSUME ~overlapped', NEW u \in Tabs, NEW v \in Tabs,
               IsMerge(SignInCall(u)'), IsMerge(SignInCall(v)')
        PROVE  u = v
    <3>1. CASE IsMerge(call)
      BY <1>5, <2>1, <2>2, <3>1
    <3>2. CASE ~IsMerge(call)
      BY <1>5, <2>2, <3>2 DEF CartInv, OneMerge
    <3>3. QED
      BY <3>1, <3>2
  <2>3. ASSUME NEW u \in Tabs, IsMerge(SignInCall(u)'), SignInCall(u)'.state = "sent"
        PROVE  SignInCall(u)'.cart = guestCart
    BY <1>1, <1>5, <2>3 DEF CartInv, OneMerge
  <2>4. QED
    BY <1>2, <2>2, <2>3 DEF OneMerge, IsMerge
<1>8. MergeCommitted' = MergeCommitted
  BY <1>1, <1>2, <1>5, CallFacts, SameCommitted
<1>9. CartConserved'
  BY <1>2, <1>8 DEF CartInv, CartConserved
<1>10. QED
  BY <1>4, <1>6, <1>7, <1>9 DEF CartInv

\* A sign-out refuses calls, a refusal ends one, a reload loses answers.
LEMMA DropsInv ==
  ASSUME CartInv, ~overlapped,
         \A t \in Tabs, way \in CallSlots :
            \/ cartCall'[t][way] = cartCall[t][way]
            \/ cartCall'[t][way] = NoCall
               /\ (~overlapped' => ~(IsMerge(cartCall[t][way]) /\ cartCall[t][way].state = "answered")),
         cartCall' \in [Tabs -> [CallSlots -> CartCall]],
         shownCart' \in [Tabs -> CartLines \cup {NotAList}], tabUser' \in [Tabs -> BOOLEAN],
         UNCHANGED <<guestCart, serverCart>>, overlapped' \in BOOLEAN,
         wanted' = IF overlapped' THEN EmptyCart ELSE wanted
  PROVE  CartInv'
<1>1. CartTypeOK'
  BY EmptyFacts DEF CartInv, CartTypeOK
<1>2. ButtonsDoNotMerge' /\ MergeAnswersNoList' /\ OneMerge'
  BY FewerMerges, CallFacts
<1>3. ~overlapped' => MergeCommitted' = MergeCommitted
  BY CallFacts, SameCommitted DEF SignInCall, CallSlots
<1>4. CartConserved'
  BY <1>3 DEF CartInv, CartConserved
<1>5. QED
  BY <1>1, <1>2, <1>4 DEF CartInv

LEMMA LeavesInv ==
  ASSUME CartInv, ~overlapped, NEW t \in Tabs, SignOutTab(t) \/ Reload(t)
  PROVE  CartInv'
<1>1. CASE SignOutTab(t)
  <2>1. /\ cartCall' = [u \in Tabs |-> [way \in CallSlots |->
             IF cartCall[u][way].state = "sent" THEN NoCall ELSE cartCall[u][way]]]
        /\ UNCHANGED <<guestCart, serverCart, wanted, overlapped>>
    BY <1>1 DEF SignOutTab, countVars
  <2>2. cartCall' \in [Tabs -> [CallSlots -> CartCall]]
    BY <2>1, CallFacts DEF CartInv, CartTypeOK
  <2>3. shownCart' \in [Tabs -> CartLines \cup {NotAList}] /\ tabUser' \in [Tabs -> BOOLEAN]
    BY <1>1 DEF SignOutTab, CartInv, CartTypeOK
  <2>4. QED
    BY <2>1, <2>2, <2>3, DropsInv DEF CartInv, CartTypeOK
<1>2. CASE Reload(t)
  <2>1. /\ cartCall' = [cartCall EXCEPT ![t] = [way \in CallSlots |-> NoCall]]
        /\ overlapped' = (SignInCall(t).state = "answered" /\ IsMerge(SignInCall(t)))
        /\ wanted' = IF overlapped' THEN EmptyCart ELSE wanted
        /\ UNCHANGED <<guestCart, serverCart>>
    BY <1>2 DEF Reload, Miscounts, SignInCall
  <2>2. cartCall' \in [Tabs -> [CallSlots -> CartCall]]
    BY <2>1, CallFacts DEF CartInv, CartTypeOK
  <2>3. shownCart' \in [Tabs -> CartLines \cup {NotAList}] /\ tabUser' \in [Tabs -> BOOLEAN]
    BY <1>2 DEF Reload, CartInv, CartTypeOK
  <2>4. \A u \in Tabs, way \in CallSlots :
            \/ cartCall'[u][way] = cartCall[u][way]
            \/ cartCall'[u][way] = NoCall
               /\ (~overlapped' => ~(IsMerge(cartCall[u][way]) /\ cartCall[u][way].state = "answered"))
    BY <2>1 DEF CartInv, CartTypeOK, ButtonsDoNotMerge, SignInCall, CallSlots
  <2>5. QED
    BY <2>1, <2>2, <2>3, <2>4, DropsInv
<1>3. QED
  BY <1>1, <1>2

LEMMA EndsInv ==
  ASSUME CartInv, ~overlapped, NEW t \in Tabs, NEW way \in CallSlots,
         RefuseCall(t, way) \/ LoseAnswer(t, way)
  PROVE  CartInv'
<1>1. /\ cartCall' = [cartCall EXCEPT ![t][way] = NoCall]
      /\ UNCHANGED <<shownCart, tabUser, guestCart, serverCart>>
      /\ overlapped' \in BOOLEAN /\ wanted' = IF overlapped' THEN EmptyCart ELSE wanted
      /\ ~overlapped' => ~(IsMerge(cartCall[t][way]) /\ cartCall[t][way].state = "answered")
  <2>1. CASE RefuseCall(t, way)
    BY <2>1 DEF RefuseCall, pagesVars, countVars, CartInv, CartTypeOK
  <2>2. CASE LoseAnswer(t, way)
    BY <2>2 DEF LoseAnswer, Miscounts, pagesVars, IsMerge
  <2>3. QED
    BY <2>1, <2>2
<1>2. SetsCall(t, way, NoCall)
  BY <1>1, SetFacts, CallFacts DEF CartInv
<1>3. QED
  BY <1>1, <1>2, DropsInv DEF SetsCall, CartInv, CartTypeOK

LEMMA CommitInv ==
  ASSUME CartInv, ~overlapped, NEW t \in Tabs, NEW way \in CallSlots, Commit(t, way)
  PROVE  CartInv'
<1> DEFINE call == cartCall[t][way]
           answer == [state |-> "answered", cart |-> Listed(call.kind, serverCart'),
                      kind |-> IF call.kind = "merge" THEN "merge" ELSE "list"]
<1>1. /\ call \in CartCall /\ call.state = "sent" /\ call.cart \in CartLines
      /\ serverCart' \in Applied(call) /\ serverCart' \in CartLines
      /\ cartCall' = [cartCall EXCEPT ![t][way] = answer]
      /\ UNCHANGED <<shownCart, tabUser, guestCart, overlapped>>
      /\ wanted' = IF call.kind = "merge" THEN wanted
                   ELSE [l \in Lines |-> wanted[l] + serverCart'[l] - serverCart[l]]
  BY CallFacts DEF Commit, Applied, pagesVars, CartInv, CartTypeOK
<1>2. /\ answer \in CartCall /\ answer.state = "answered"
      /\ call.kind = "merge" => IsMerge(answer) /\ answer.cart = NotAList
      /\ call.kind # "merge" => ~IsMerge(answer)
  BY <1>1 DEF CartCall, Listed, IsMerge
<1>3. call.kind = "merge" => way = "signIn" /\ IsMerge(call)
  BY <1>1 DEF CartInv, ButtonsDoNotMerge, IsMerge, CallSlots
<1>4. call.kind = "merge" => \A l \in Lines : serverCart'[l] = serverCart[l] + call.cart[l]
  BY <1>1 DEF Applied
<1> HIDE DEF call, answer
<1>5. SetsCall(t, way, answer)
  BY <1>1, <1>2, SetFacts DEF CartInv
<1>6. CartTypeOK'
  BY <1>1, <1>5 DEF CartInv, CartTypeOK, CartLines, SetsCall
<1>7. CASE call.kind = "merge"
  <2>1. /\ IsMerge(SignInCall(t)) /\ SignInCall(t).state = "sent" /\ SignInCall(t) = call
        /\ SignInCall(t)' = answer
        /\ \A u \in Tabs : u # t => SignInCall(u)' = SignInCall(u)
        /\ \A u \in Tabs : cartCall'[u]["button"] = cartCall[u]["button"]
    BY <1>1, <1>3, <1>5, <1>7 DEF SetsCall, SignInCall, CallSlots, call
  <2>2. \A u \in Tabs : u # t => ~IsMerge(SignInCall(u))
    BY <2>1 DEF CartInv, OneMerge
  <2>3. ButtonsDoNotMerge' /\ MergeAnswersNoList' /\ OneMerge'
    BY <1>2, <1>7, <2>1, <2>2 DEF CartInv, ButtonsDoNotMerge, MergeAnswersNoList, OneMerge, IsMerge
  <2>4. MergeCommitted' /\ ~MergeCommitted
    BY <1>2, <1>7, <2>1, <2>2 DEF MergeCommitted, SignInCall, IsMerge
  <2>5. call.cart = guestCart
    BY <2>1 DEF CartInv, OneMerge
  <2>6. CartConserved'
    BY <1>1, <1>4, <1>7, <2>4, <2>5 DEF CartInv, CartConserved, CartTypeOK, CartLines
  <2>7. QED
    BY <1>6, <2>3, <2>6 DEF CartInv
<1>8. CASE call.kind # "merge"
  <2>1. ButtonsDoNotMerge' /\ MergeAnswersNoList' /\ OneMerge'
    BY <1>1, <1>2, <1>5, <1>8, FewerMerges DEF SetsCall
  <2>2. ~IsMerge(call) /\ ~IsMerge(answer)
    BY <1>2, <1>8 DEF IsMerge
  <2>3. MergeCommitted' = MergeCommitted
    BY <1>5, <2>2, SameCommitted DEF SetsCall, SignInCall, CallSlots, call
  <2>4. CartConserved'
    BY <1>1, <1>8, <2>3 DEF CartInv, CartConserved, CartTypeOK, CartLines
  <2>5. QED
    BY <1>6, <2>1, <2>4 DEF CartInv
<1>9. QED
  BY <1>7, <1>8

LEMMA TakesInv ==
  ASSUME CartInv, ~overlapped, NEW t \in Tabs, NEW way \in CallSlots, TakeAnswer(t, way)
  PROVE  CartInv'
<1> DEFINE call == cartCall[t][way]
           taken == IF Up(t) THEN call.cart ELSE NotAList
           late == ~tabUser[t] /\ taken # NotAList
<1>1. /\ call \in CartCall /\ call.state = "answered" /\ call.kind \in {"merge", "list"}
      /\ taken \in CartLines \cup {NotAList}
  BY CallFacts DEF TakeAnswer, CartInv, CartTypeOK
<1>2. /\ shownCart' = [shownCart EXCEPT ![t] = taken]
      /\ guestCart' = IF call.kind = "merge" THEN EmptyCart
                      ELSE IF late THEN taken ELSE guestCart
      /\ overlapped' = late
      /\ wanted' = IF overlapped' THEN EmptyCart ELSE wanted
      /\ cartCall' = [cartCall EXCEPT ![t][way] = NoCall]
      /\ UNCHANGED <<tabUser, serverCart>>
  BY DEF TakeAnswer, Miscounts
<1>3. SetsCall(t, way, NoCall)
  BY <1>2, SetFacts, CallFacts DEF CartInv
<1>4. /\ shownCart' \in [Tabs -> CartLines \cup {NotAList}] /\ guestCart' \in CartLines
      /\ wanted' \in [Lines -> Int] /\ overlapped' \in BOOLEAN
  BY <1>1, <1>2, EmptyFacts DEF CartInv, CartTypeOK
<1>5. CartTypeOK'
  BY <1>2, <1>3, <1>4 DEF CartInv, CartTypeOK, SetsCall
<1>6. ButtonsDoNotMerge' /\ MergeAnswersNoList'
  BY <1>3, CallFacts, FewerMerges DEF SetsCall
<1>7. CASE call.kind = "merge"
  <2>1. way = "signIn" /\ IsMerge(SignInCall(t)) /\ SignInCall(t).state = "answered"
    BY <1>1, <1>7 DEF CartInv, ButtonsDoNotMerge, IsMerge, SignInCall, CallSlots
  <2>2. MergeCommitted
    BY <2>1 DEF MergeCommitted, SignInCall
  <2>3. \A u \in Tabs : ~IsMerge(SignInCall(u)')
    BY <1>3, <2>1, CallFacts DEF CartInv, OneMerge, SetsCall, SignInCall, CallSlots
  <2>4. OneMerge' /\ ~MergeCommitted'
    BY <2>3 DEF OneMerge, MergeCommitted, SignInCall, IsMerge
  <2>5. CartConserved'
    BY <1>2, <1>7, <2>2, <2>4 DEF CartInv, CartConserved, CartTypeOK, CartLines, EmptyCart
  <2>6. QED
    BY <1>5, <1>6, <2>4, <2>5 DEF CartInv
<1>8. CASE call.kind = "list"
  <2>1. ~overlapped' => guestCart' = guestCart /\ wanted' = wanted
    BY <1>2, <1>8
  <2>2. ~overlapped' => OneMerge'
    BY <1>3, <2>1, CallFacts, FewerMerges DEF SetsCall
  <2>3. ~IsMerge(call)
    BY <1>8 DEF IsMerge
  <2>4. MergeCommitted' = MergeCommitted
    BY <1>3, <2>3, CallFacts, SameCommitted DEF SetsCall, SignInCall, CallSlots
  <2>5. CartConserved'
    BY <1>2, <2>1, <2>4 DEF CartInv, CartConserved
  <2>6. QED
    BY <1>5, <1>6, <2>2, <2>5 DEF CartInv
<1>9. QED
  BY <1>1, <1>7, <1>8

LEMMA CartStepKeeps ==
  ASSUME CartInv, [CartNext]_cartVars
  PROVE  CartInv'
<1>1. CASE UNCHANGED cartVars
  BY <1>1 DEF cartVars, pagesVars, countVars, CartInv, CartTypeOK, ButtonsDoNotMerge,
              MergeAnswersNoList, OneMerge, CartConserved, MergeCommitted, SignInCall, IsMerge
<1>2. ASSUME ~overlapped, NEW t \in Tabs, CartStep(t)
      PROVE  CartInv'
  <2>1. ASSUME NEW l \in Lines, NEW qty \in 0 .. MaxQty, GuestSets(t, l, qty)
        PROVE  CartInv'
    <3>1. shownCart[t] \in CartLines
      BY <2>1 DEF GuestSets, GuestChange, Up, CartInv, CartTypeOK
    <3>2. [shownCart[t] EXCEPT ![l] = qty] \in CartLines
      BY <3>1 DEF CartLines
    <3>3. QED
      BY <1>2, <2>1, <3>2, GuestInv DEF GuestSets
  <2>2. CASE \E l \in Lines : GuestAdd(t, l) \/ GuestRemove(t, l)
    <3>1. PICK l \in Lines : GuestAdd(t, l) \/ GuestRemove(t, l)
      BY <2>2
    <3>2. CASE GuestAdd(t, l)
      <4>1. shownCart[t][l] + 1 \in 0 .. MaxQty
        BY <3>2 DEF GuestAdd, Up, CartInv, CartTypeOK, CartLines
      <4>2. QED
        BY <2>1, <3>2, <4>1 DEF GuestAdd
    <3>3. CASE GuestRemove(t, l)
      BY <2>1, <3>3 DEF GuestRemove
    <3>4. QED
      BY <3>1, <3>2, <3>3
  <2>3. CASE \E l \in Lines, qty \in 1 .. MaxQty : GuestUpdate(t, l, qty)
    BY <2>1, <2>3 DEF GuestUpdate
  <2>4. CASE GuestClear(t)
    BY <1>2, <2>4, GuestInv, EmptyFacts DEF GuestClear
  <2>5. CASE \E l \in Lines : \/ \E kind \in {"add", "remove", "clear"} : UserChange(t, kind, l, 1)
                              \/ \E qty \in 1 .. MaxQty : UserChange(t, "update", l, qty)
    BY <1>2, <2>5, UserInv
  <2>6. CASE SignInTab(t) \/ SignOutTab(t) \/ Reload(t)
    BY <1>2, <2>6, SignInInv, LeavesInv
  <2>7. CASE \E way \in CallSlots : Commit(t, way) \/ RefuseCall(t, way)
                                     \/ LoseAnswer(t, way) \/ TakeAnswer(t, way)
    BY <1>2, <2>7, CommitInv, EndsInv, TakesInv
  <2>8. QED
    BY <1>2, <2>2, <2>3, <2>4, <2>5, <2>6, <2>7 DEF CartStep
<1>3. QED
  BY <1>1, <1>2 DEF CartNext

LEMMA CartInvariant == CartSpec => []CartInv
<1>1. CartInv /\ [CartNext]_cartVars => CartInv'
  BY CartStepKeeps
<1>2. QED
  BY CartBegins, <1>1, PTL DEF CartSpec

(* The pages, their calls and the two carts keep their types.                *)
THEOREM CartTypes == CartSpec => []CartTypeOK
BY CartInvariant, PTL DEF CartInv

(* Every unit asked for is counted once, with any number of tabs, lines and     *)
(* units, until one of the known ways to miscount has happened.               *)
THEOREM UnitsAreConserved == CartSpec => []CartConserved
BY CartInvariant, PTL DEF CartInv

-----------------------------------------------------------------------------
(***************************************************************************)
(* The wishlist and its synchronisation (Wishlist).                        *)
(***************************************************************************)
-----------------------------------------------------------------------------
(* The inductive invariant.                                                 *)

\* A page that is signed out shows the guest list and has no heart under way.
GuestShowsLocal == ~wishUser => shownList = localList /\ toggles = {}

\* A heart under way that takes a slug out is not overtaken by one that puts it back.
RemovalsAreMeant == \A t \in toggles : ~t.add => t.slug \notin wished

\* The guest list is as the merge under way has sent it; once that is committed, what the
\* customer still wishes for of it is at the account.
MergeCarriesAll ==
  /\ signInMerge.state = "sent" => signInMerge.slugs = localList
  /\ signInMerge.state = "answered" => wished \cap localList \subseteq serverList \cup AddsUnderWay

WishInv ==
  /\ WishTypeOK
  /\ GuestShowsLocal
  /\ ~astray => RemovalsAreMeant /\ MergeCarriesAll
  /\ WishesKept

-----------------------------------------------------------------------------
LEMMA WishBegins == WishInit => WishInv
<1> SUFFICES ASSUME WishInit PROVE WishInv
  OBVIOUS
<1>1. WishTypeOK /\ GuestShowsLocal
  BY DEF WishInit, WishTypeOK, GuestShowsLocal
<1>2. RemovalsAreMeant /\ MergeCarriesAll
  BY DEF WishInit, RemovalsAreMeant, MergeCarriesAll, NoMerge
<1>3. WishesKept
  BY DEF WishInit, WishesKept
<1>4. QED
  BY <1>1, <1>2, <1>3 DEF WishInv

LEMMA AddsGrow ==
  ASSUME WishTypeOK, NEW s \in Slugs, toggles' = toggles \cup {[slug |-> s, add |-> TRUE]}
  PROVE  AddsUnderWay' = AddsUnderWay \cup {s}
<1> DEFINE new == [slug |-> s, add |-> TRUE]
<1>1. new.slug = s /\ new.add /\ new \in toggles'
  OBVIOUS
<1>2. AddsUnderWay' \subseteq AddsUnderWay \cup {s}
  BY <1>1 DEF AddsUnderWay
<1>3. s \in AddsUnderWay'
  BY <1>1, Zenon DEF AddsUnderWay
<1>4. AddsUnderWay \subseteq AddsUnderWay'
  <2>1. toggles \subseteq toggles'
    OBVIOUS
  <2>2. QED
    BY <2>1, Zenon DEF AddsUnderWay
<1>5. QED
  BY <1>2, <1>3, <1>4

LEMMA AddsStay ==
  ASSUME WishTypeOK, NEW s \in Slugs, toggles' = toggles \cup {[slug |-> s, add |-> FALSE]}
  PROVE  AddsUnderWay' = AddsUnderWay
BY DEF AddsUnderWay, WishTypeOK, Toggle

LEMMA GuestToggleInv ==
  ASSUME WishInv, NEW s \in Slugs, GuestToggle(s)
  PROVE  WishInv'
<1>1. AddsUnderWay' = AddsUnderWay /\ AddsUnderWay = {}
  BY DEF GuestToggle, WishInv, GuestShowsLocal, AddsUnderWay
<1>2. WishTypeOK'
  BY DEF GuestToggle, WishInv, WishTypeOK, Toggled
<1>3. GuestShowsLocal' /\ RemovalsAreMeant'
  BY DEF GuestToggle, WishInv, GuestShowsLocal, RemovalsAreMeant
<1>4. ~astray' => MergeCarriesAll'
  <2>1. ~astray' => signInMerge' = NoMerge
    BY DEF GuestToggle
  <2>2. QED
    BY <2>1 DEF MergeCarriesAll, NoMerge
<1>5. WishesKept'
  BY <1>1 DEF GuestToggle, WishInv, WishesKept, GuestShowsLocal, Toggled
<1>6. QED
  BY <1>2, <1>3, <1>4, <1>5 DEF WishInv

LEMMA UserToggleInv ==
  ASSUME WishInv, NEW s \in Slugs, UserToggle(s)
  PROVE  WishInv'
<1>1. WishTypeOK'
  <2>1. shownList' \subseteq Slugs /\ wished' \subseteq Slugs
    BY DEF UserToggle, WishInv, WishTypeOK, Toggled
  <2>2. [slug |-> s, add |-> TRUE] \in Toggle /\ [slug |-> s, add |-> FALSE] \in Toggle
    BY DEF Toggle
  <2>3. toggles' \subseteq Toggle
    <3>1. CASE s \in shownList'
      <4>1. (s \in shownList') = TRUE
        BY <3>1
      <4>2. toggles' = toggles \cup {[slug |-> s, add |-> TRUE]}
        BY <4>1, Zenon DEF UserToggle
      <4>3. QED
        BY <4>2, <2>2 DEF WishInv, WishTypeOK
    <3>2. CASE s \notin shownList'
      <4>1. (s \in shownList') = FALSE
        BY <3>2
      <4>2. toggles' = toggles \cup {[slug |-> s, add |-> FALSE]}
        BY <4>1, Zenon DEF UserToggle
      <4>3. QED
        BY <4>2, <2>2 DEF WishInv, WishTypeOK
    <3>3. QED
      BY <3>1, <3>2
  <2>4. astray' \in BOOLEAN
    BY DEF UserToggle
  <2>5. QED
    BY <2>1, <2>3, <2>4 DEF UserToggle, WishInv, WishTypeOK
<1>2. GuestShowsLocal'
  BY DEF UserToggle, GuestShowsLocal
<1>3. CASE s \in shownList
  <2>1. /\ toggles' = toggles \cup {[slug |-> s, add |-> FALSE]}
        /\ wished' = wished \ {s}
        /\ ~astray' => ~astray
    <3>1. s \notin shownList'
      BY <1>3 DEF UserToggle, Toggled
    <3>2. (s \in shownList') = FALSE
      BY <3>1
    <3>3. QED
      BY <3>1, <3>2, Zenon DEF UserToggle
  <2>2. AddsUnderWay' = AddsUnderWay
    BY <2>1, AddsStay DEF WishInv
  <2>3. ~astray' => RemovalsAreMeant'
    BY <2>1 DEF WishInv, RemovalsAreMeant
  <2>4. ~astray' => MergeCarriesAll'
    BY <2>1, <2>2 DEF UserToggle, WishInv, MergeCarriesAll
  <2>5. WishesKept'
    BY <2>1, <2>2 DEF UserToggle, WishInv, WishesKept
  <2>6. QED
    BY <1>1, <1>2, <2>3, <2>4, <2>5 DEF WishInv
<1>4. CASE s \notin shownList
  <2>1. /\ toggles' = toggles \cup {[slug |-> s, add |-> TRUE]}
        /\ wished' = wished \cup {s}
        /\ ~astray' => ~astray /\ [slug |-> s, add |-> FALSE] \notin toggles
    <3>1. s \in shownList'
      BY <1>4 DEF UserToggle, Toggled
    <3>2. (s \in shownList') = TRUE /\ (s \notin shownList') = FALSE
      BY <3>1
    <3>3. QED
      BY <3>1, <3>2, Zenon DEF UserToggle
  <2>2. AddsUnderWay' = AddsUnderWay \cup {s}
    BY <2>1, AddsGrow DEF WishInv
  <2>3. ASSUME ~astray', NEW t \in toggles', ~t.add
        PROVE  t.slug \notin wished'
    <3>1. t \in toggles /\ t = [slug |-> t.slug, add |-> FALSE]
      BY <2>1, <2>3 DEF WishInv, WishTypeOK, Toggle
    <3>2. t.slug # s
      BY <2>1, <2>3, <3>1
    <3>3. QED
      BY <2>1, <2>3, <3>1, <3>2 DEF WishInv, RemovalsAreMeant
  <2>4. ~astray' => MergeCarriesAll'
    BY <2>1, <2>2 DEF UserToggle, WishInv, MergeCarriesAll
  <2>5. WishesKept'
    BY <2>1, <2>2 DEF UserToggle, WishInv, WishesKept
  <2>6. QED
    BY <1>1, <1>2, <2>3, <2>4, <2>5 DEF WishInv, RemovalsAreMeant
<1>5. QED
  BY <1>3, <1>4

LEMMA CommitToggleInv ==
  ASSUME WishInv, NEW t \in toggles, CommitToggle(t)
  PROVE  WishInv'
<1>1. t \in Toggle /\ t.add \in BOOLEAN /\ t.slug \in Slugs
  BY DEF WishInv, WishTypeOK, Toggle
<1>2. AddsUnderWay \subseteq AddsUnderWay' \cup (IF t.add THEN {t.slug} ELSE {})
  BY DEF CommitToggle, AddsUnderWay
<1>3. ~astray => (serverList \cup AddsUnderWay) \cap wished \subseteq serverList' \cup AddsUnderWay'
  BY <1>1, <1>2 DEF CommitToggle, WishInv, RemovalsAreMeant, Without
<1>4. WishTypeOK'
  BY <1>1 DEF CommitToggle, WishInv, WishTypeOK, Without
<1>5. GuestShowsLocal' /\ (~astray' => RemovalsAreMeant')
  BY DEF CommitToggle, WishInv, GuestShowsLocal, RemovalsAreMeant
<1>6. ~astray' => MergeCarriesAll'
  BY <1>3 DEF CommitToggle, WishInv, MergeCarriesAll
<1>7. WishesKept'
  BY <1>3 DEF CommitToggle, WishInv, WishesKept
<1>8. QED
  BY <1>4, <1>5, <1>6, <1>7 DEF WishInv

(* The steps of a sign-in.                                                  *)
LEMMA MergeStepInv ==
  ASSUME WishInv, WishSignIn \/ CommitMerge \/ TakeMerge \/ MergeFails
  PROVE  WishInv'
<1>1. AddsUnderWay' = AddsUnderWay /\ astray' = astray /\ wished' = wished /\ toggles' = toggles
  BY DEF WishSignIn, CommitMerge, TakeMerge, MergeFails, AddsUnderWay
<1>2. RemovalsAreMeant' = RemovalsAreMeant
  BY <1>1 DEF RemovalsAreMeant
<1>3. CASE WishSignIn
  <2>1. WishTypeOK' /\ GuestShowsLocal' /\ MergeCarriesAll'
    BY <1>3 DEF WishSignIn, WishInv, WishTypeOK, GuestShowsLocal, MergeCarriesAll, SignInMerge
  <2>2. WishesKept'
    BY <1>3, <1>1 DEF WishSignIn, WishInv, WishesKept
  <2>3. QED
    BY <2>1, <2>2, <1>1, <1>2 DEF WishInv
<1>4. CASE CommitMerge
  <2>1. signInMerge \in SignInMerge
    BY <1>4 DEF CommitMerge, WishInv, WishTypeOK, NoMerge
  <2>2. serverList' = serverList \cup signInMerge.slugs /\ serverList' \subseteq Slugs
    BY <1>4, <2>1 DEF CommitMerge, WishInv, WishTypeOK, SignInMerge
  <2>3. WishTypeOK' /\ GuestShowsLocal'
    BY <1>4, <2>2 DEF CommitMerge, WishInv, WishTypeOK, GuestShowsLocal, SignInMerge
  <2>4. ~astray' => MergeCarriesAll'
    BY <1>4, <1>1, <2>2 DEF CommitMerge, WishInv, MergeCarriesAll
  <2>5. WishesKept'
    BY <1>4, <1>1, <2>2 DEF CommitMerge, WishInv, WishesKept
  <2>6. QED
    BY <2>3, <2>4, <2>5, <1>1, <1>2 DEF WishInv
<1>5. CASE TakeMerge
  <2>1. signInMerge \in SignInMerge
    BY <1>5 DEF TakeMerge, WishInv, WishTypeOK, NoMerge
  <2>2. WishTypeOK' /\ GuestShowsLocal'
    BY <1>5, <2>1 DEF TakeMerge, WishInv, WishTypeOK, GuestShowsLocal, SignInMerge
  <2>3. MergeCarriesAll'
    BY <1>5 DEF TakeMerge, MergeCarriesAll, NoMerge
  <2>4. WishesKept'
    BY <1>5, <1>1 DEF TakeMerge, WishInv, WishesKept, MergeCarriesAll
  <2>5. QED
    BY <2>2, <2>3, <2>4, <1>1, <1>2 DEF WishInv
<1>6. CASE MergeFails
  <2>1. WishTypeOK' /\ GuestShowsLocal' /\ MergeCarriesAll'
    BY <1>6 DEF MergeFails, WishInv, WishTypeOK, GuestShowsLocal, MergeCarriesAll, NoMerge
  <2>2. WishesKept'
    BY <1>6, <1>1 DEF MergeFails, WishInv, WishesKept
  <2>3. QED
    BY <2>1, <2>2, <1>1, <1>2 DEF WishInv
<1>7. QED
  BY <1>3, <1>4, <1>5, <1>6

LEMMA LeaveInv ==
  ASSUME WishInv, WishSignOut \/ WishReload
  PROVE  WishInv'
<1>1. CASE WishSignOut
  <2>1. WishTypeOK' /\ GuestShowsLocal' /\ RemovalsAreMeant' /\ AddsUnderWay' = {}
    BY <1>1 DEF WishSignOut, WishInv, WishTypeOK, GuestShowsLocal, RemovalsAreMeant, AddsUnderWay
  <2>2. ~astray' => AddsUnderWay = {} /\ ~astray
    BY <1>1 DEF WishSignOut, AddsUnderWay
  <2>3. ~astray' => MergeCarriesAll'
    BY <1>1, <2>1, <2>2 DEF WishSignOut, WishInv, MergeCarriesAll, NoMerge
  <2>4. WishesKept'
    BY <1>1, <2>1, <2>2 DEF WishSignOut, WishInv, WishesKept
  <2>5. QED
    BY <2>1, <2>3, <2>4 DEF WishInv
<1>2. CASE WishReload
  <2>1. AddsUnderWay' = AddsUnderWay
    BY <1>2 DEF WishReload, AddsUnderWay
  <2>2. QED
    BY <1>2, <2>1 DEF WishReload, WishInv, WishTypeOK, GuestShowsLocal, RemovalsAreMeant,
                      MergeCarriesAll, WishesKept, NoMerge
<1>3. QED
  BY <1>1, <1>2

LEMMA LoseToggleInv ==
  ASSUME WishInv, NEW t \in toggles, LoseToggle(t)
  PROVE  WishInv'
BY DEF LoseToggle, WishInv, WishTypeOK, GuestShowsLocal, WishesKept

LEMMA WishStep == WishInv /\ [WishNext]_wishVars => WishInv'
<1> SUFFICES ASSUME WishInv, [WishNext]_wishVars PROVE WishInv'
  OBVIOUS
<1>1. CASE \E s \in Slugs : GuestToggle(s) \/ UserToggle(s)
  BY <1>1, GuestToggleInv, UserToggleInv
<1>2. CASE \E t \in toggles : CommitToggle(t) \/ LoseToggle(t)
  BY <1>2, CommitToggleInv, LoseToggleInv
<1>3. CASE WishSignIn \/ CommitMerge \/ TakeMerge \/ MergeFails
  BY <1>3, MergeStepInv
<1>4. CASE WishSignOut \/ WishReload
  BY <1>4, LeaveInv
<1>5. CASE UNCHANGED wishVars
  BY <1>5 DEF wishVars, WishInv, WishTypeOK, GuestShowsLocal, RemovalsAreMeant, MergeCarriesAll,
              WishesKept, AddsUnderWay
<1>6. QED
  BY <1>1, <1>2, <1>3, <1>4, <1>5 DEF WishNext

LEMMA WishInvariant == WishSpec => []WishInv
<1>1. QED
  BY WishBegins, WishStep, PTL DEF WishSpec

(* The variables of the wishlist keep their types.                           *)
THEOREM WishTypes == WishSpec => []WishTypeOK
BY WishInvariant, PTL DEF WishInv

(* No wish is lost through failing merges, lost answers and repeated sign-ins,   *)
(* for any set of products.                                                *)
THEOREM WishesAreKept == WishSpec => []WishesKept
BY WishInvariant, PTL DEF WishInv

-----------------------------------------------------------------------------
(***************************************************************************)
(* Accounts, passwords and sessions (Accounts).                            *)
(***************************************************************************)
\* A session is of the account and has the password it had then.
SessionFine(session, account) ==
  session # NoCookie =>
    /\ account # NoAccount /\ session.version <= account.version
    /\ session.version = account.version => session.opened = account.password

SessionsFine ==
  /\ SessionFine(sessionCookie, userRow)
  /\ \A c \in AuthUnderWay : SessionFine(authCall[c].cookie, userRow)

\* Who has passed the guard has an account.
GuardsPassed ==
  \A c \in AuthUnderWay :
    c[2] \in {"logout", "password"} /\ authCall[c].state = "passed" => userRow # NoAccount

AuthSettled(p) == signedIn[p] = Verified(sessionCookie)

\* What a page's own call will find, while nobody else has come between.
OwnCall(c) ==
  LET call == authCall[c]
      kind == c[2]
  IN  /\ kind = "me" =>
           /\ call.cookie = sessionCookie
           /\ call.state = "ok" => Verified(sessionCookie)
           /\ call.state = "refused" => ~Verified(sessionCookie)
      /\ kind = "profile" =>
           /\ call.cookie = sessionCookie /\ AuthSettled(c[1])
           /\ call.state = "ok" => Verified(sessionCookie)
      /\ kind \in {"login", "register"} =>
           AuthSettled(c[1]) /\ (call.state = "ok" => Verified(call.cookie))
      /\ kind = "password" /\ call.state \in {"sent", "refused"} => AuthSettled(c[1])

\* A page without doubts has one call at most, and other pages have only mounted.
PageKnown(p) ==
  ~doubtful[p] =>
    /\ UnderWayOf(p) = {} => AuthSettled(p)
    /\ \A c \in AuthUnderWay : IF c[1] = p THEN OwnCall(c) ELSE c[2] = "me"
    /\ \A c, d \in UnderWayOf(p) : c = d

AccountsInv == AccountsTypeOK /\ SessionsFine /\ GuardsPassed /\ (\A p \in Pages : PageKnown(p))

-----------------------------------------------------------------------------
LEMMA AccountConstants ==
  /\ MaxVersion \in Nat /\ FirstPassword \in Passwords
  /\ NoCookie \notin Session /\ NoAccount \notin UserRow
  /\ NoAuthCall \notin AuthCall
       /\ AuthKinds = {"me", "login", "register", "logout", "profile", "password"}
<1>1. FirstPassword \in Passwords  BY AccountsAssumption DEF FirstPassword
<1>2. NoAuthCall \notin AuthCall
  <2>1. \A a \in AuthCall : a.state # "none"  BY DEF AuthCall
  <2>2. NoAuthCall.state = "none"  BY DEF NoAuthCall
  <2> QED BY <2>1, <2>2
<1> QED BY <1>1, <1>2, AccountsAssumption DEF AuthKinds

\* One call is set, and no other.
SetsAuth(c, r) ==
  /\ authCall' \in [Pages \X AuthKinds -> AuthCall \cup {NoAuthCall}]
  /\ authCall'[c] = r
  /\ \A d \in Pages \X AuthKinds : d # c => authCall'[d] = authCall[d]

LEMMA AuthIsSet ==
  ASSUME AccountsTypeOK, NEW c \in Pages \X AuthKinds, NEW r \in AuthCall \cup {NoAuthCall},
         authCall' = [authCall EXCEPT ![c] = r]
  PROVE  SetsAuth(c, r)
BY DEF AccountsTypeOK, SetsAuth

LEMMA CallFields ==
  ASSUME AccountsTypeOK, NEW c \in AuthUnderWay
  PROVE  /\ c \in Pages \X AuthKinds /\ c = <<c[1], c[2]>> /\ c[1] \in Pages /\ c[2] \in AuthKinds
         /\ authCall[c] \in AuthCall
         /\ authCall[c].state \in {"sent", "passed", "ok", "refused"}
         /\ authCall[c].cookie \in MaybeSession
         /\ authCall[c].typed \in Passwords /\ authCall[c].next \in Passwords
BY DEF AccountsTypeOK, AuthUnderWay, AuthCall

LEMMA SessionFacts ==
  ASSUME NEW session \in MaybeSession
  PROVE  \/ session = NoCookie
         \/ session \in Session /\ session # NoCookie /\ session.version \in 0 .. MaxVersion
            /\ session.opened \in Passwords
BY AccountConstants DEF MaybeSession, Session

LEMMA RowFacts ==
  ASSUME NEW r \in UserRow
  PROVE  /\ r # NoAccount /\ r.version \in 0 .. MaxVersion /\ r.version \in Int
         /\ r.password \in Passwords
BY AccountConstants DEF UserRow

\* Sessions of a row that stays, or of none.
LEMMA SessionsStayFine ==
  ASSUME AccountsInv, NEW c \in Pages \X AuthKinds, NEW r, SetsAuth(c, r),
         userRow' = userRow, SessionFine(sessionCookie', userRow),
         r # NoAuthCall => SessionFine(r.cookie, userRow)
  PROVE  SessionsFine'
<1>1. ASSUME NEW d \in AuthUnderWay'
      PROVE  SessionFine(authCall'[d].cookie, userRow)
  <2>1. d \in Pages \X AuthKinds /\ authCall'[d] # NoAuthCall  BY DEF AuthUnderWay
  <2>2. CASE d = c  BY <2>1, <2>2 DEF SetsAuth
  <2>3. CASE d # c
    <3>1. authCall'[d] = authCall[d]  BY <2>1, <2>3 DEF SetsAuth
    <3>2. d \in AuthUnderWay  BY <2>1, <3>1 DEF AuthUnderWay
    <3> QED BY <3>1, <3>2 DEF AccountsInv, SessionsFine
  <2> QED BY <2>2, <2>3
<1> QED BY <1>1 DEF SessionsFine

LEMMA GuardsStay ==
  ASSUME AccountsInv, NEW c \in Pages \X AuthKinds, NEW r, SetsAuth(c, r),
         userRow # NoAccount => userRow' # NoAccount,
         r # NoAuthCall /\ c[2] \in {"logout", "password"} /\ r.state = "passed"
           => userRow' # NoAccount
  PROVE  GuardsPassed'
<1> SUFFICES ASSUME NEW d \in AuthUnderWay', d[2] \in {"logout", "password"},
                    authCall'[d].state = "passed"
             PROVE  userRow' # NoAccount
  BY DEF GuardsPassed
<1>1. d \in Pages \X AuthKinds /\ authCall'[d] # NoAuthCall  BY DEF AuthUnderWay
<1>2. CASE d = c  BY <1>1, <1>2 DEF SetsAuth
<1>3. CASE d # c
  <2>1. authCall'[d] = authCall[d] /\ d \in AuthUnderWay
    BY <1>1, <1>3 DEF SetsAuth, AuthUnderWay
  <2> QED BY <2>1 DEF AccountsInv, GuardsPassed
<1> QED BY <1>2, <1>3

\* No session is of a version to come: once the version is raised, any password will do.
LEMMA SessionsAge ==
  ASSUME NEW old \in UserRow, NEW new \in UserRow, new.version = old.version + 1,
         NEW session \in MaybeSession, SessionFine(session, old)
  PROVE  SessionFine(session, new)
<1>1. old.version \in Int /\ new # NoAccount  BY RowFacts
<1>2. CASE session = NoCookie  BY <1>2 DEF SessionFine
<1>3. CASE session \in Session
  <2>1. session.version \in Int  BY <1>3 DEF Session
  <2> QED BY <1>1, <1>3, <2>1, AccountConstants DEF SessionFine
<1> QED BY <1>2, <1>3, SessionFacts

\* The version is raised by a call, or from elsewhere.
LEMMA SessionsAgeAll ==
  ASSUME AccountsInv, userRow \in UserRow, userRow' \in UserRow,
         userRow'.version = userRow.version + 1, sessionCookie' = sessionCookie,
         AuthUnderWay' \subseteq AuthUnderWay,
         \A d \in AuthUnderWay' : authCall'[d].cookie = authCall[d].cookie
  PROVE  SessionsFine'
<1>1. sessionCookie \in MaybeSession /\ SessionFine(sessionCookie, userRow)
  BY DEF AccountsInv, AccountsTypeOK, SessionsFine
<1>2. SessionFine(sessionCookie', userRow')  BY <1>1, SessionsAge
<1>3. ASSUME NEW d \in AuthUnderWay'
      PROVE  SessionFine(authCall'[d].cookie, userRow')
  <2>1. d \in AuthUnderWay /\ AccountsTypeOK  BY DEF AccountsInv
  <2>2. authCall[d].cookie \in MaybeSession /\ SessionFine(authCall[d].cookie, userRow)
    BY <2>1, CallFields DEF AccountsInv, SessionsFine
  <2> QED BY <2>2, SessionsAge
<1> QED BY <1>2, <1>3 DEF SessionsFine

\* Nobody but the page of a call is touched, but through the session.
LEMMA CallKeepsPages ==
  ASSUME AccountsInv, NEW c \in AuthUnderWay, NEW r \in AuthCall \cup {NoAuthCall}, SetsAuth(c, r),
         \A q \in Pages : doubtful[q] => doubtful'[q],
         \A q \in Pages : q # c[1] => signedIn'[q] = signedIn[q],
         c[2] = "me" => userRow' = userRow /\ sessionCookie' = sessionCookie,
         ~doubtful'[c[1]] /\ OwnCall(c) =>
           IF r = NoAuthCall THEN AuthSettled(c[1])' ELSE OwnCall(c)'
  PROVE  \A p \in Pages : PageKnown(p)'
<1> TAKE p \in Pages
<1>1. CASE doubtful'[p]  BY <1>1 DEF PageKnown
<1>2. CASE ~doubtful'[p]
  <2>1. /\ ~doubtful[p]
        /\ UnderWayOf(p) = {} => AuthSettled(p)
        /\ \A d \in AuthUnderWay : IF d[1] = p THEN OwnCall(d) ELSE d[2] = "me"
        /\ \A d, e \in UnderWayOf(p) : d = e
    BY <1>2 DEF AccountsInv, PageKnown
  <2>2. c \in Pages \X AuthKinds /\ c[1] \in Pages  BY CallFields DEF AccountsInv
  <2>3. \A d \in AuthUnderWay' : d # c => d \in AuthUnderWay /\ authCall'[d] = authCall[d]
    BY <2>2 DEF SetsAuth, AuthUnderWay
  <2>4. c \in AuthUnderWay' <=> r # NoAuthCall  BY <2>2 DEF SetsAuth, AuthUnderWay
  <2>5. \A d \in AuthUnderWay : d # c => d \in AuthUnderWay'
    BY <2>2 DEF SetsAuth, AuthUnderWay
  <2>6. CASE p = c[1]
    <3>1. \A d \in AuthUnderWay' : d # c => d[1] # p /\ d[2] = "me"
      BY <2>1, <2>3, <2>6 DEF UnderWayOf
    <3>2. \A d, e \in UnderWayOf(p)' : d = e  BY <3>1 DEF UnderWayOf
    <3>3. IF r = NoAuthCall THEN AuthSettled(p)' ELSE OwnCall(c)'  BY <1>2, <2>1, <2>6
    <3>4. UnderWayOf(p)' = {} => AuthSettled(p)'  BY <2>4, <2>6, <3>3 DEF UnderWayOf
    <3>5. \A d \in AuthUnderWay' : IF d[1] = p THEN OwnCall(d)' ELSE d[2] = "me"
      <4> TAKE d \in AuthUnderWay'
      <4>1. CASE d = c  BY <2>4, <2>6, <3>3, <4>1
      <4>2. CASE d # c  BY <3>1, <4>2
      <4> QED BY <4>1, <4>2
    <3> QED BY <3>2, <3>4, <3>5 DEF PageKnown
  <2>7. CASE p # c[1]
    <3>1. /\ c[2] = "me" /\ userRow' = userRow /\ sessionCookie' = sessionCookie
          /\ signedIn'[p] = signedIn[p]
      BY <2>1, <2>7
    <3>2. UnderWayOf(p)' = UnderWayOf(p)  BY <2>3, <2>5, <2>7 DEF UnderWayOf
    <3>3. AuthSettled(p)' <=> AuthSettled(p)  BY <3>1 DEF AuthSettled, Verified
    <3>4. \A d \in AuthUnderWay' : IF d[1] = p THEN OwnCall(d)' ELSE d[2] = "me"
      <4> TAKE d \in AuthUnderWay'
      <4>1. CASE d = c  BY <2>7, <3>1, <4>1
      <4>2. CASE d # c /\ d[1] = p
        <5>1. OwnCall(d) /\ authCall'[d] = authCall[d]  BY <2>1, <2>3, <4>2
        <5> QED BY <3>1, <3>3, <4>2, <5>1 DEF OwnCall, Verified, AuthSettled
      <4>3. CASE d # c /\ d[1] # p  BY <2>1, <2>3, <4>3
      <4> QED BY <4>1, <4>2, <4>3
    <3> QED BY <2>1, <3>2, <3>3, <3>4 DEF PageKnown
  <2> QED BY <2>6, <2>7
<1> QED BY <1>1, <1>2

-----------------------------------------------------------------------------
(* Calls are sent.                                                          *)

LEMMA SendFacts ==
  ASSUME AccountsInv, NEW p \in Pages, NEW kind \in AuthKinds, NEW typed \in Passwords,
         NEW next \in Passwords, SendAuth(p, kind, typed, next)
  PROVE  /\ <<p, kind>> \in Pages \X AuthKinds /\ <<p, kind>>[1] = p /\ <<p, kind>>[2] = kind
         /\ authCall[<<p, kind>>] = NoAuthCall
         /\ authCall'[<<p, kind>>] \in AuthCall
         /\ authCall'[<<p, kind>>].state = "sent" /\ authCall'[<<p, kind>>].cookie = sessionCookie
         /\ SetsAuth(<<p, kind>>, authCall'[<<p, kind>>])
         /\ AuthUnderWay' = AuthUnderWay \cup {<<p, kind>>}
<1> DEFINE c == <<p, kind>>
           r == [state |-> "sent", cookie |-> sessionCookie, typed |-> typed, next |-> next]
<1>1. c \in Pages \X AuthKinds /\ c[1] = p /\ c[2] = kind  OBVIOUS
<1>2. r \in AuthCall /\ r.state = "sent" /\ r.cookie = sessionCookie
  BY DEF AccountsInv, AccountsTypeOK, AuthCall
<1>3. authCall[c] = NoAuthCall /\ authCall' = [authCall EXCEPT ![c] = r]  BY DEF SendAuth
<1> HIDE DEF c, r
<1>4. SetsAuth(c, r)  BY <1>1, <1>2, <1>3, AuthIsSet DEF AccountsInv
<1>5. authCall'[c] = r  BY <1>4 DEF SetsAuth
<1>6. AuthUnderWay' = AuthUnderWay \cup {c}
  BY <1>1, <1>2, <1>4, AccountConstants DEF SetsAuth, AuthUnderWay
<1> QED BY <1>1, <1>2, <1>3, <1>4, <1>5, <1>6 DEF c

\* What a page sends from its forms puts all the others in doubt.
LEMMA FormKeeps ==
  ASSUME AccountsInv, NEW p \in Pages, NEW kind \in AuthKinds, NEW typed \in Passwords,
         NEW next \in Passwords, SendAuth(p, kind, typed, next), kind # "me",
         doubtful' = Doubts(p), userRow' = userRow, sessionCookie' = sessionCookie,
         signedIn' = signedIn
  PROVE  AccountsInv'
<1> DEFINE c == <<p, kind>>
           r == authCall'[c]
<1>1. /\ c \in Pages \X AuthKinds /\ c[1] = p /\ c[2] = kind /\ r \in AuthCall
      /\ r.state = "sent" /\ r.cookie = sessionCookie /\ SetsAuth(c, r)
      /\ AuthUnderWay' = AuthUnderWay \cup {c}
  BY SendFacts
<1> HIDE DEF c, r
<1>2. /\ doubtful' \in [Pages -> BOOLEAN]
      /\ \A q \in Pages : ~doubtful'[q] => q = p /\ ~doubtful[p] /\ UnderWayOf(p) = {}
  BY DEF Doubts, AccountsInv, AccountsTypeOK
<1>3. AccountsTypeOK'  BY <1>1, <1>2 DEF AccountsInv, AccountsTypeOK, SetsAuth
<1>4. SessionsFine'
  <2>1. SessionFine(sessionCookie, userRow)  BY DEF AccountsInv, SessionsFine
  <2> QED BY <1>1, <2>1, SessionsStayFine
<1>6. GuardsPassed'  BY <1>1, GuardsStay
<1>5. ASSUME NEW q \in Pages PROVE PageKnown(q)'
  <2>1. CASE doubtful'[q]  BY <2>1 DEF PageKnown
  <2>2. CASE ~doubtful'[q]
    <3>1. q = p /\ ~doubtful[p] /\ UnderWayOf(p) = {}  BY <1>2, <2>2
    <3>2. /\ AuthSettled(p) /\ \A d \in AuthUnderWay : d[1] # p /\ d[2] = "me"
      BY <3>1 DEF AccountsInv, PageKnown, UnderWayOf
    <3>3. AuthSettled(p)'  BY <3>2 DEF AuthSettled, Verified
    <3>4. OwnCall(c)'
      <4>1. authCall'[c] = r  BY <1>1 DEF SetsAuth
      <4> QED BY <1>1, <3>3, <4>1 DEF OwnCall
    <3>5. \A d \in AuthUnderWay' : d = c \/ d \in AuthUnderWay  BY <1>1
    <3>6. \A d \in AuthUnderWay' : IF d[1] = p THEN OwnCall(d)' ELSE d[2] = "me"
      <4> TAKE d \in AuthUnderWay'
      <4>1. CASE d = c  BY <1>1, <3>4, <4>1
      <4>2. CASE d # c  BY <3>2, <3>5, <4>2
      <4> QED BY <4>1, <4>2
    <3>7. \A d, e \in UnderWayOf(p)' : d = e  BY <3>2, <3>5 DEF UnderWayOf
    <3> QED BY <3>1, <3>3, <3>6, <3>7 DEF PageKnown
  <2> QED BY <2>1, <2>2
<1> QED BY <1>3, <1>4, <1>5, <1>6 DEF AccountsInv

LEMMA MountKeeps ==
  ASSUME AccountsInv, NEW p \in Pages, Mount(p)
  PROVE  AccountsInv'
<1> DEFINE c == <<p, "me">>
           r == authCall'[c]
<1>0. "me" \in AuthKinds /\ FirstPassword \in Passwords  BY AccountConstants
<1>1. /\ c \in Pages \X AuthKinds /\ c[1] = p /\ c[2] = "me" /\ r \in AuthCall
      /\ r.state = "sent" /\ r.cookie = sessionCookie /\ SetsAuth(c, r)
      /\ AuthUnderWay' = AuthUnderWay \cup {c}
  BY <1>0, SendFacts DEF Mount
<1> HIDE DEF c, r
<1>2. /\ signedIn' = [signedIn EXCEPT ![p] = FALSE] /\ userRow' = userRow
      /\ sessionCookie' = sessionCookie /\ UnderWayOf(p) = {}
      /\ doubtful' = [doubtful EXCEPT ![p] = AuthUnderWay # {}]
  BY DEF Mount
<1>3. /\ doubtful' \in [Pages -> BOOLEAN] /\ signedIn' \in [Pages -> BOOLEAN]
      /\ doubtful'[p] <=> AuthUnderWay # {}
      /\ \A q \in Pages : q # p => doubtful'[q] = doubtful[q] /\ signedIn'[q] = signedIn[q]
  BY <1>2 DEF AccountsInv, AccountsTypeOK
<1>4. AccountsTypeOK'  BY <1>1, <1>2, <1>3 DEF AccountsInv, AccountsTypeOK, SetsAuth
<1>5. SessionsFine'
  <2>1. SessionFine(sessionCookie, userRow)  BY DEF AccountsInv, SessionsFine
  <2> QED BY <1>1, <1>2, <2>1, SessionsStayFine
<1>6. OwnCall(c)'
  <2>1. authCall'[c] = r  BY <1>1 DEF SetsAuth
  <2> QED BY <1>1, <1>2, <2>1 DEF OwnCall
<1>7. \A d \in AuthUnderWay' : d = c \/ (d \in AuthUnderWay /\ authCall'[d] = authCall[d])
  <2>1. \A d \in AuthUnderWay : d \in Pages \X AuthKinds  BY DEF AuthUnderWay
  <2> QED BY <1>1, <2>1 DEF SetsAuth
<1>9. GuardsPassed'  BY <1>1, <1>2, GuardsStay
<1>8. ASSUME NEW q \in Pages PROVE PageKnown(q)'
  <2>1. CASE doubtful'[q]  BY <2>1 DEF PageKnown
  <2>2. CASE ~doubtful'[q] /\ q = p
    <3>1. AuthUnderWay = {}  BY <1>3, <2>2
    <3>2. \A d \in AuthUnderWay' : d = c  BY <1>7, <3>1
    <3> QED BY <1>1, <1>6, <2>2, <3>2 DEF PageKnown, UnderWayOf
  <2>3. CASE ~doubtful'[q] /\ q # p
    <3>1. /\ ~doubtful[q]
          /\ UnderWayOf(q) = {} => AuthSettled(q)
          /\ \A d \in AuthUnderWay : IF d[1] = q THEN OwnCall(d) ELSE d[2] = "me"
          /\ \A d, e \in UnderWayOf(q) : d = e
      BY <1>3, <2>3 DEF AccountsInv, PageKnown
    <3>2. UnderWayOf(q)' = UnderWayOf(q)  BY <1>1, <2>3 DEF UnderWayOf
    <3>3. AuthSettled(q)' <=> AuthSettled(q)  BY <1>2, <1>3, <2>3 DEF AuthSettled, Verified
    <3>4. \A d \in AuthUnderWay' : IF d[1] = q THEN OwnCall(d)' ELSE d[2] = "me"
      <4> TAKE d \in AuthUnderWay'
      <4>1. CASE d = c  BY <1>1, <2>3, <4>1
      <4>2. CASE d # c /\ d[1] = q
        <5>1. OwnCall(d) /\ authCall'[d] = authCall[d]  BY <1>7, <3>1, <4>2
        <5>2. AuthSettled(d[1])' <=> AuthSettled(d[1])  BY <3>3, <4>2
        <5>3. userRow' = userRow /\ sessionCookie' = sessionCookie  BY <1>2
        <5> QED BY <4>2, <5>1, <5>2, <5>3 DEF OwnCall, Verified
      <4>3. CASE d # c /\ d[1] # q  BY <1>7, <3>1, <4>3
      <4> QED BY <4>1, <4>2, <4>3
    <3>5. /\ UnderWayOf(q)' = {} => AuthSettled(q)'
          /\ \A d, e \in UnderWayOf(q)' : d = e
      BY <3>1, <3>2, <3>3
    <3> QED BY <3>4, <3>5 DEF PageKnown
  <2> QED BY <2>1, <2>2, <2>3
<1> QED BY <1>4, <1>5, <1>8, <1>9 DEF AccountsInv

LEMMA FormsKeep ==
  ASSUME AccountsInv, NEW p \in Pages, NEW kind \in AuthKinds,
         PressLogout(p) \/ SubmitForm(p, kind) \/ SubmitProfile(p, kind)
  PROVE  AccountsInv'
<1>0. FirstPassword \in Passwords /\ "logout" \in AuthKinds  BY AccountConstants
<1>1. CASE PressLogout(p)
  <2>1. /\ SendAuth(p, "logout", FirstPassword, FirstPassword) /\ doubtful' = Doubts(p)
        /\ userRow' = userRow /\ sessionCookie' = sessionCookie /\ signedIn' = signedIn
    BY <1>1 DEF PressLogout
  <2> QED BY <1>0, <2>1, FormKeeps
<1>2. CASE SubmitForm(p, kind)
  <2>1. PICK typed \in Passwords : SendAuth(p, kind, typed, typed)  BY <1>2 DEF SubmitForm
  <2>2. /\ doubtful' = Doubts(p) /\ kind # "me"
        /\ userRow' = userRow /\ sessionCookie' = sessionCookie /\ signedIn' = signedIn
    BY <1>2 DEF SubmitForm
  <2> QED BY <2>1, <2>2, FormKeeps
<1>3. CASE SubmitProfile(p, kind)
  <2>1. PICK typed \in Passwords, next \in Passwords : SendAuth(p, kind, typed, next)
    BY <1>0, <1>3 DEF SubmitProfile
  <2>2. /\ doubtful' = Doubts(p) /\ kind # "me"
        /\ userRow' = userRow /\ sessionCookie' = sessionCookie /\ signedIn' = signedIn
    BY <1>3 DEF SubmitProfile
  <2> QED BY <2>1, <2>2, FormKeeps
<1> QED BY <1>1, <1>2, <1>3

-----------------------------------------------------------------------------
(* The backend answers.                                                     *)

\* A call goes on with the session it has.
LEMMA GoesFacts ==
  ASSUME AccountsInv, NEW c \in AuthUnderWay, NEW state \in {"passed", "ok", "refused"},
         AuthGoes(c, state)
  PROVE  /\ SetsAuth(c, authCall'[c]) /\ authCall'[c] \in AuthCall /\ authCall'[c] # NoAuthCall
         /\ authCall'[c].state = state /\ authCall'[c].cookie = authCall[c].cookie
         /\ SessionFine(authCall'[c].cookie, userRow)
         /\ AuthUnderWay' = AuthUnderWay
<1> DEFINE r == [authCall[c] EXCEPT !.state = state]
<1>1. /\ c \in Pages \X AuthKinds /\ authCall[c] \in AuthCall /\ AccountsTypeOK
  BY CallFields DEF AccountsInv
<1>2. authCall' = [authCall EXCEPT ![c] = r]  BY DEF AuthGoes
<1>3. r \in AuthCall /\ r.state = state /\ r.cookie = authCall[c].cookie  BY <1>1 DEF AuthCall
<1> HIDE DEF r
<1>4. SetsAuth(c, r)  BY <1>1, <1>2, <1>3, AuthIsSet
<1>5. authCall'[c] = r /\ r # NoAuthCall  BY <1>3, <1>4, AccountConstants DEF SetsAuth
<1>6. SessionFine(authCall[c].cookie, userRow)  BY DEF AccountsInv, SessionsFine
<1>7. AuthUnderWay' = AuthUnderWay
  BY <1>1, <1>4, <1>5 DEF SetsAuth, AuthUnderWay
<1> QED BY <1>3, <1>4, <1>5, <1>6, <1>7

\* The backend answers a call and touches no page.
LEMMA BackendKeeps ==
  ASSUME AccountsInv, NEW c \in AuthUnderWay, NEW r \in AuthCall, SetsAuth(c, r),
         userRow' \in UserRow \cup {NoAccount}, SessionsFine',
         userRow # NoAccount => userRow' # NoAccount,
         c[2] \in {"logout", "password"} /\ r.state = "passed" => userRow' # NoAccount,
         c[2] = "me" => userRow' = userRow,
         sessionCookie' = sessionCookie, signedIn' = signedIn, doubtful' = doubtful,
         OwnCall(c) => OwnCall(c)'
  PROVE  AccountsInv'
<1>1. r # NoAuthCall  BY AccountConstants
<1>2. AccountsTypeOK'  BY DEF AccountsInv, AccountsTypeOK, SetsAuth
<1>3. \A p \in Pages : PageKnown(p)'  BY <1>1, CallKeepsPages
<1>4. GuardsPassed'
  <2>1. c \in Pages \X AuthKinds  BY CallFields DEF AccountsInv
  <2> QED BY <2>1, GuardsStay
<1> QED BY <1>2, <1>3, <1>4 DEF AccountsInv

\* It answers without touching the row.
LEMMA GoesKeeps ==
  ASSUME AccountsInv, NEW c \in AuthUnderWay, NEW state \in {"passed", "ok", "refused"},
         AuthGoes(c, state), userRow' = userRow, sessionCookie' = sessionCookie,
         signedIn' = signedIn, doubtful' = doubtful,
         c[2] \in {"logout", "password"} /\ state = "passed" => userRow # NoAccount,
         OwnCall(c) => OwnCall(c)'
  PROVE  AccountsInv'
<1>1. /\ SetsAuth(c, authCall'[c]) /\ authCall'[c] \in AuthCall /\ authCall'[c].state = state
      /\ SessionFine(authCall'[c].cookie, userRow)
  BY GoesFacts
<1>2. SessionFine(sessionCookie, userRow)  BY DEF AccountsInv, SessionsFine
<1>3. c \in Pages \X AuthKinds  BY CallFields DEF AccountsInv
<1>4. SessionsFine'  BY <1>1, <1>2, <1>3, SessionsStayFine
<1>5. userRow' \in UserRow \cup {NoAccount}  BY DEF AccountsInv, AccountsTypeOK
<1> QED BY <1>1, <1>4, <1>5, BackendKeeps

LEMMA RowStays ==
  ASSUME userRow' = userRow, sessionCookie' = sessionCookie, signedIn' = signedIn
  PROVE  \A p \in Pages : AuthSettled(p)' <=> AuthSettled(p)
BY DEF AuthSettled, Verified

LEMMA LoginKeeps ==
  ASSUME AccountsInv, NEW c \in AuthUnderWay, Login(c)
  PROVE  AccountsInv'
<1>1. /\ c[2] = "login" /\ userRow' = userRow /\ sessionCookie' = sessionCookie
      /\ signedIn' = signedIn /\ doubtful' = doubtful /\ authCall[c].state = "sent"
  BY DEF Login
<1>2. c \in Pages \X AuthKinds /\ c[1] \in Pages /\ authCall[c].typed \in Passwords
  BY CallFields DEF AccountsInv
<1>3. AuthSettled(c[1])' <=> AuthSettled(c[1])  BY <1>1, <1>2, RowStays
<1>4. CASE AuthGoes(c, "refused")
  <2>1. authCall'[c].state = "refused"  BY <1>4, GoesFacts
  <2>2. OwnCall(c) => OwnCall(c)'  BY <1>1, <1>3, <2>1 DEF OwnCall
  <2> QED BY <1>1, <1>4, <2>2, GoesKeeps
<1>5. CASE /\ userRow # NoAccount /\ userRow.password = authCall[c].typed
           /\ authCall' = [authCall EXCEPT ![c].state = "ok", ![c].cookie =
                [version |-> userRow.version, opened |-> authCall[c].typed]]
  <2> DEFINE session == [version |-> userRow.version, opened |-> authCall[c].typed]
             r == [authCall[c] EXCEPT !.state = "ok", !.cookie = session]
  <2>1. userRow \in UserRow  BY <1>5 DEF AccountsInv, AccountsTypeOK
  <2>2. session \in Session /\ session.version = userRow.version
          /\ session.opened = userRow.password
    BY <1>2, <1>5, <2>1 DEF Session, UserRow
  <2>3. session # NoCookie  BY <2>2, AccountConstants
  <2>4. authCall' = [authCall EXCEPT ![c] = r]  BY <1>5
  <2> HIDE DEF session
  <2>5. r \in AuthCall /\ r.state = "ok" /\ r.cookie = session
    BY <2>2, CallFields DEF AccountsInv, AuthCall, MaybeSession
  <2> HIDE DEF r
  <2>6. SetsAuth(c, r) /\ authCall'[c] = r  BY <1>2, <2>4, <2>5, AuthIsSet DEF AccountsInv, SetsAuth
  <2>7. SessionFine(session, userRow)
    <3>1. userRow.version \in Int  BY <2>1, RowFacts
    <3> QED BY <1>5, <2>2, <3>1 DEF SessionFine
  <2>8. SessionFine(sessionCookie, userRow)  BY DEF AccountsInv, SessionsFine
  <2>9. SessionsFine'  BY <1>1, <1>2, <2>5, <2>6, <2>7, <2>8, SessionsStayFine
  <2>10. OwnCall(c) => OwnCall(c)'
    <3>1. Verified(authCall[c].cookie)'  BY <1>1, <1>5, <2>2, <2>3, <2>5, <2>6 DEF Verified
    <3> QED BY <1>1, <1>3, <3>1 DEF OwnCall
  <2>11. userRow' \in UserRow \cup {NoAccount}  BY <1>1 DEF AccountsInv, AccountsTypeOK
  <2> QED BY <1>1, <2>5, <2>6, <2>9, <2>10, <2>11, BackendKeeps
<1> QED BY <1>4, <1>5 DEF Login

LEMMA RegisterKeeps ==
  ASSUME AccountsInv, NEW c \in AuthUnderWay, Register(c)
  PROVE  AccountsInv'
<1>1. /\ c[2] = "register" /\ sessionCookie' = sessionCookie
      /\ signedIn' = signedIn /\ doubtful' = doubtful
  BY DEF Register
<1>2. c \in Pages \X AuthKinds /\ c[1] \in Pages /\ authCall[c].typed \in Passwords
  BY CallFields DEF AccountsInv
<1>3. ASSUME NEW state \in {"passed", "refused"}, AuthGoes(c, state), userRow' = userRow,
             authCall[c].state # "ok"
      PROVE  AccountsInv'
  <2>1. authCall'[c].state = state  BY <1>3, GoesFacts
  <2>2. AuthSettled(c[1])' <=> AuthSettled(c[1])  BY <1>1, <1>2, <1>3, RowStays
  <2>3. OwnCall(c) => OwnCall(c)'  BY <1>1, <1>3, <2>1, <2>2 DEF OwnCall
  <2> QED BY <1>1, <1>3, <2>3, GoesKeeps
<1>4. CASE /\ authCall[c].state = "sent" /\ userRow' = userRow
           /\ AuthGoes(c, IF userRow = NoAccount THEN "passed" ELSE "refused")
  BY <1>3, <1>4
<1>5. CASE authCall[c].state = "passed" /\ AuthGoes(c, "refused") /\ userRow' = userRow
  BY <1>3, <1>5
<1>6. CASE /\ authCall[c].state = "passed" /\ userRow = NoAccount
           /\ userRow' = [password |-> authCall[c].typed, version |-> 0]
           /\ authCall' = [authCall EXCEPT ![c].state = "ok", ![c].cookie =
                [version |-> 0, opened |-> authCall[c].typed]]
  <2> DEFINE session == [version |-> 0, opened |-> authCall[c].typed]
             r == [authCall[c] EXCEPT !.state = "ok", !.cookie = session]
  <2>1. userRow' \in UserRow /\ userRow'.version = 0 /\ userRow'.password = authCall[c].typed
    BY <1>2, <1>6, AccountConstants DEF UserRow
  <2>2. userRow' # NoAccount  BY <2>1, AccountConstants
  <2>3. /\ session \in Session /\ session.version = userRow'.version
        /\ session.opened = userRow'.password
    BY <1>2, <2>1, AccountConstants DEF Session
  <2>4. session # NoCookie  BY <2>3, AccountConstants
  <2>5. authCall' = [authCall EXCEPT ![c] = r]  BY <1>6
  <2> HIDE DEF session
  <2>6. r \in AuthCall /\ r.state = "ok" /\ r.cookie = session
    BY <2>3, CallFields DEF AccountsInv, AuthCall, MaybeSession
  <2> HIDE DEF r
  <2>7. SetsAuth(c, r) /\ authCall'[c] = r  BY <1>2, <2>5, <2>6, AuthIsSet DEF AccountsInv, SetsAuth
  <2>8. SessionFine(session, userRow')  BY <2>1, <2>2, <2>3 DEF SessionFine
  <2>9. sessionCookie = NoCookie /\ \A d \in AuthUnderWay : authCall[d].cookie = NoCookie
    BY <1>6 DEF AccountsInv, SessionsFine, SessionFine
  <2>10. SessionFine(NoCookie, userRow')  BY DEF SessionFine
  <2>11. ASSUME NEW d \in AuthUnderWay'
         PROVE  SessionFine(authCall'[d].cookie, userRow')
    <3>1. CASE d = c  BY <2>6, <2>7, <2>8, <3>1
    <3>2. CASE d # c
      <4>1. authCall'[d] = authCall[d] /\ d \in AuthUnderWay
        BY <2>7, <3>2 DEF SetsAuth, AuthUnderWay
      <4> QED BY <2>9, <2>10, <4>1
    <3> QED BY <3>1, <3>2
  <2>12. SessionsFine'  BY <1>1, <2>9, <2>10, <2>11 DEF SessionsFine
  <2>13. OwnCall(c) => OwnCall(c)'
    <3>1. Verified(authCall[c].cookie)'  BY <2>2, <2>3, <2>4, <2>6, <2>7 DEF Verified
    <3>2. AuthSettled(c[1])' <=> AuthSettled(c[1])
      BY <1>1, <2>9 DEF AuthSettled, Verified
    <3> QED BY <1>1, <3>1, <3>2 DEF OwnCall
  <2> QED BY <1>1, <2>1, <2>2, <2>6, <2>7, <2>12, <2>13, BackendKeeps
<1> QED BY <1>4, <1>5, <1>6 DEF Register

LEMMA AskWhoKeeps ==
  ASSUME AccountsInv, NEW c \in AuthUnderWay, AskWho(c) \/ TurnedAway(c)
  PROVE  AccountsInv'
<1>1. /\ userRow' = userRow /\ sessionCookie' = sessionCookie
      /\ signedIn' = signedIn /\ doubtful' = doubtful /\ authCall[c].state = "sent"
  BY DEF AskWho, TurnedAway
<1>2. c[1] \in Pages  BY CallFields DEF AccountsInv
<1>3. AuthSettled(c[1])' <=> AuthSettled(c[1])  BY <1>1, <1>2, RowStays
<1>4. Verified(sessionCookie)' <=> Verified(sessionCookie)  BY <1>1 DEF Verified
<1>5. CASE /\ c[2] \in {"me", "profile"}
           /\ AuthGoes(c, IF Verified(authCall[c].cookie) THEN "ok" ELSE "refused")
  <2>1. PICK state \in {"ok", "refused"} :
          AuthGoes(c, state) /\ (state = "ok" <=> Verified(authCall[c].cookie))
    BY <1>5
  <2>2. authCall'[c].state = state /\ authCall'[c].cookie = authCall[c].cookie
    BY <2>1, GoesFacts
  <2>3. OwnCall(c) => OwnCall(c)'
    BY <1>1, <1>3, <1>4, <1>5, <2>1, <2>2 DEF OwnCall
  <2> QED BY <1>1, <2>1, <2>3, GoesKeeps
<1>6. CASE c[2] # "me" /\ AuthGoes(c, "refused")
  <2>1. authCall'[c].state = "refused" /\ authCall'[c].cookie = authCall[c].cookie
    BY <1>6, GoesFacts
  <2>2. OwnCall(c) => OwnCall(c)'  BY <1>1, <1>3, <1>4, <1>6, <2>1 DEF OwnCall
  <2> QED BY <1>1, <1>6, <2>2, GoesKeeps
<1> QED BY <1>5, <1>6 DEF AskWho, TurnedAway

\* A call that raises the version leaves its page to be told.
LEMMA RaisesKeeps ==
  ASSUME AccountsInv, NEW c \in AuthUnderWay, c[2] \in {"logout", "password"},
         userRow.version < MaxVersion, userRow' = [userRow EXCEPT !.version = @ + 1]
           \/ \E next \in Passwords :
                userRow' = [password |-> next, version |-> userRow.version + 1],
         AuthGoes(c, "ok"), sessionCookie' = sessionCookie, signedIn' = signedIn,
         doubtful' = doubtful, userRow # NoAccount
  PROVE  AccountsInv'
<1>1. userRow \in UserRow  BY DEF AccountsInv, AccountsTypeOK
<1>2. userRow' \in UserRow /\ userRow'.version = userRow.version + 1
  BY <1>1, AccountConstants DEF UserRow
<1>3. /\ SetsAuth(c, authCall'[c]) /\ authCall'[c] \in AuthCall /\ authCall'[c].state = "ok"
      /\ authCall'[c].cookie = authCall[c].cookie /\ AuthUnderWay' = AuthUnderWay
  BY GoesFacts
<1>4. ASSUME NEW d \in AuthUnderWay' PROVE authCall'[d].cookie = authCall[d].cookie
  <2>1. CASE d = c  BY <1>3, <2>1
  <2>2. CASE d # c
    <3>1. d \in Pages \X AuthKinds  BY <1>3 DEF AuthUnderWay
    <3> QED BY <1>3, <2>2, <3>1 DEF SetsAuth
  <2> QED BY <2>1, <2>2
<1>5. SessionsFine'  BY <1>1, <1>2, <1>3, <1>4, SessionsAgeAll
<1>6. OwnCall(c)'  BY <1>3 DEF OwnCall
<1>7. userRow' # NoAccount  BY <1>2, AccountConstants
<1> QED BY <1>2, <1>3, <1>5, <1>6, <1>7, BackendKeeps

LEMMA RevokesKeeps ==
  ASSUME AccountsInv, NEW c \in AuthUnderWay, Logout(c) \/ ChangePassword(c)
  PROVE  AccountsInv'
<1>1. /\ c[2] \in {"logout", "password"} /\ sessionCookie' = sessionCookie
      /\ signedIn' = signedIn /\ doubtful' = doubtful
  BY DEF Logout, ChangePassword
<1>2. c[1] \in Pages /\ authCall[c].next \in Passwords  BY CallFields DEF AccountsInv
<1>3. ASSUME authCall[c].state = "sent", userRow' = userRow,
        NEW state \in {"passed", "ok", "refused"},
             AuthGoes(c, state), state = "passed" => Verified(authCall[c].cookie)
      PROVE  AccountsInv'
  <2>1. authCall'[c].state = state  BY <1>3, GoesFacts
  <2>2. AuthSettled(c[1])' <=> AuthSettled(c[1])  BY <1>1, <1>2, <1>3, RowStays
  <2>3. OwnCall(c) => OwnCall(c)'  BY <1>1, <1>3, <2>1, <2>2 DEF OwnCall
  <2>4. state = "passed" => userRow # NoAccount  BY <1>3 DEF Verified
  <2> QED BY <1>1, <1>3, <2>3, <2>4, GoesKeeps
<1>4. CASE Logout(c)
  <2>1. CASE authCall[c].state = "sent"
    BY <1>3, <1>4, <2>1 DEF Logout
  <2>2. CASE authCall[c].state = "passed"
    <3>1. /\ userRow.version < MaxVersion /\ userRow' = [userRow EXCEPT !.version = @ + 1]
          /\ AuthGoes(c, "ok")
      BY <1>4, <2>2 DEF Logout
    <3>2. userRow # NoAccount  BY <1>1, <2>2 DEF AccountsInv, GuardsPassed
    <3> QED BY <1>1, <3>1, <3>2, RaisesKeeps
  <2> QED BY <1>4, <2>1, <2>2 DEF Logout
<1>5. CASE ChangePassword(c)
  <2>1. CASE authCall[c].state = "sent"
    BY <1>3, <1>5, <2>1 DEF ChangePassword
  <2>2. CASE authCall[c].state = "passed"
    <3>1. /\ userRow.version < MaxVersion /\ AuthGoes(c, "ok")
          /\ userRow' = [password |-> authCall[c].next, version |-> userRow.version + 1]
      BY <1>5, <2>2 DEF ChangePassword
    <3>2. userRow # NoAccount  BY <1>1, <2>2 DEF AccountsInv, GuardsPassed
    <3> QED BY <1>1, <1>2, <3>1, <3>2, RaisesKeeps
  <2> QED BY <1>5, <2>1, <2>2 DEF ChangePassword
<1> QED BY <1>4, <1>5

LEMMA ElsewhereKeeps ==
  ASSUME AccountsInv, ActsElsewhere
  PROVE  AccountsInv'
<1>1. PICK password \in Passwords :
        userRow' = [password |-> password, version |-> userRow.version + 1]
  BY DEF ActsElsewhere
<1>2. /\ userRow # NoAccount /\ userRow.version < MaxVersion
      /\ doubtful' = [p \in Pages |-> TRUE] /\ sessionCookie' = sessionCookie
      /\ authCall' = authCall /\ signedIn' = signedIn
  BY DEF ActsElsewhere
<1>3. userRow \in UserRow  BY <1>2 DEF AccountsInv, AccountsTypeOK
<1>4. userRow' \in UserRow /\ userRow'.version = userRow.version + 1
  BY <1>1, <1>2, <1>3, AccountConstants DEF UserRow
<1>5. AuthUnderWay' = AuthUnderWay  BY <1>2 DEF AuthUnderWay
<1>6. SessionsFine'  BY <1>2, <1>3, <1>4, <1>5, SessionsAgeAll
<1>7. AccountsTypeOK'  BY <1>2, <1>4 DEF AccountsInv, AccountsTypeOK
<1>8. GuardsPassed'  BY <1>4, AccountConstants DEF GuardsPassed
<1>9. \A p \in Pages : PageKnown(p)'  BY <1>2 DEF PageKnown
<1> QED BY <1>6, <1>7, <1>8, <1>9 DEF AccountsInv

-----------------------------------------------------------------------------
(* Answers arrive.                                                          *)

\* A call ends: what is left to see is its page.
LEMMA EndKeeps ==
  ASSUME AccountsInv, NEW c \in AuthUnderWay, Ends(c), userRow' = userRow,
         sessionCookie' \in MaybeSession, SessionFine(sessionCookie', userRow),
         signedIn' \in [Pages -> BOOLEAN], doubtful' \in [Pages -> BOOLEAN],
         \A q \in Pages : doubtful[q] => doubtful'[q],
         \A q \in Pages : q # c[1] => signedIn'[q] = signedIn[q],
         c[2] = "me" => sessionCookie' = sessionCookie,
         ~doubtful'[c[1]] /\ OwnCall(c) => AuthSettled(c[1])'
  PROVE  AccountsInv'
<1>1. c \in Pages \X AuthKinds /\ NoAuthCall \in AuthCall \cup {NoAuthCall}
  BY CallFields DEF AccountsInv
<1>2. SetsAuth(c, NoAuthCall)  BY <1>1, AuthIsSet DEF Ends, AccountsInv
<1>3. AccountsTypeOK'  BY <1>2 DEF AccountsInv, AccountsTypeOK, SetsAuth
<1>4. SessionsFine'  BY <1>1, <1>2, SessionsStayFine
<1>5. GuardsPassed'  BY <1>1, <1>2, GuardsStay
<1>6. \A p \in Pages : PageKnown(p)'  BY <1>1, <1>2, CallKeepsPages
<1> QED BY <1>3, <1>4, <1>5, <1>6 DEF AccountsInv

\* What is set on the page of a call.
LEMMA PageIsSet ==
  ASSUME AccountsInv, NEW p \in Pages, NEW f, NEW v \in BOOLEAN, NEW g, f \in [Pages -> BOOLEAN],
         g = [f EXCEPT ![p] = v]
  PROVE  /\ g \in [Pages -> BOOLEAN] /\ (g[p] <=> v)
         /\ \A q \in Pages : q # p => g[q] = f[q]
OBVIOUS

LEMMA AuthAnswerFacts ==
  ASSUME AccountsInv, NEW c \in AuthUnderWay
  PROVE  /\ c[1] \in Pages /\ signedIn \in [Pages -> BOOLEAN] /\ doubtful \in [Pages -> BOOLEAN]
         /\ signedIn[c[1]] \in BOOLEAN /\ doubtful[c[1]] \in BOOLEAN
         /\ sessionCookie \in MaybeSession /\ SessionFine(sessionCookie, userRow)
         /\ authCall[c].cookie \in MaybeSession /\ SessionFine(authCall[c].cookie, userRow)
         /\ NoCookie \in MaybeSession /\ SessionFine(NoCookie, userRow)
         /\ ~Verified(NoCookie)
BY CallFields DEF AccountsInv, AccountsTypeOK, SessionsFine, SessionFine, MaybeSession, Verified

LEMMA SignInArrivesKeeps ==
  ASSUME AccountsInv, NEW c \in AuthUnderWay, SignInArrives(c)
  PROVE  AccountsInv'
<1>1. /\ c[2] \in {"login", "register"} /\ authCall[c].state \in {"ok", "refused"}
      /\ Ends(c) /\ userRow' = userRow /\ doubtful' = doubtful
  BY DEF SignInArrives, AuthAnswered
<1>2. CASE authCall[c].state = "ok"
  <2>1. sessionCookie' = authCall[c].cookie /\ signedIn' = [signedIn EXCEPT ![c[1]] = TRUE]
    BY <1>2 DEF SignInArrives
  <2>2. /\ signedIn' \in [Pages -> BOOLEAN] /\ signedIn'[c[1]] = TRUE
        /\ \A q \in Pages : q # c[1] => signedIn'[q] = signedIn[q]
    BY <2>1, AuthAnswerFacts
  <2>3. OwnCall(c) => AuthSettled(c[1])'
    BY <1>1, <1>2, <2>1, <2>2 DEF OwnCall, AuthSettled, Verified
  <2> QED BY <1>1, <2>1, <2>2, <2>3, AuthAnswerFacts, EndKeeps
<1>3. CASE authCall[c].state = "refused"
  <2>1. sessionCookie' = sessionCookie /\ signedIn' = signedIn  BY <1>3 DEF SignInArrives
  <2>2. OwnCall(c) => AuthSettled(c[1])'
    BY <1>1, <1>3, <2>1 DEF OwnCall, AuthSettled, Verified
  <2> QED BY <1>1, <2>1, <2>2, AuthAnswerFacts, EndKeeps
<1> QED BY <1>1, <1>2, <1>3

LEMMA UserArrivesKeeps ==
  ASSUME AccountsInv, NEW c \in AuthUnderWay, UserArrives(c)
  PROVE  AccountsInv'
<1> DEFINE v == IF c[2] = "me" THEN authCall[c].state = "ok"
                ELSE signedIn[c[1]] \/ authCall[c].state = "ok"
<1>1. /\ c[2] \in {"me", "profile"} /\ authCall[c].state \in {"ok", "refused"}
      /\ Ends(c) /\ userRow' = userRow /\ doubtful' = doubtful /\ sessionCookie' = sessionCookie
      /\ signedIn' = [signedIn EXCEPT ![c[1]] = v]
  BY DEF UserArrives, AuthAnswered
<1>2. v \in BOOLEAN  OBVIOUS
<1>3. OwnCall(c) => (v <=> Verified(sessionCookie))
  BY <1>1 DEF OwnCall, AuthSettled
<1> HIDE DEF v
<1>4. /\ signedIn' \in [Pages -> BOOLEAN] /\ (signedIn'[c[1]] <=> v) /\ signedIn'[c[1]] \in BOOLEAN
      /\ \A q \in Pages : q # c[1] => signedIn'[q] = signedIn[q]
  BY <1>1, <1>2, AuthAnswerFacts
<1>5. Verified(sessionCookie)' <=> Verified(sessionCookie)  BY <1>1 DEF Verified
<1>6. Verified(sessionCookie)' \in BOOLEAN  BY DEF Verified
<1>7. OwnCall(c) => AuthSettled(c[1])'  BY <1>3, <1>4, <1>5, <1>6 DEF AuthSettled
<1> QED BY <1>1, <1>4, <1>7, AuthAnswerFacts, EndKeeps

LEMMA LogoutArrivesKeeps ==
  ASSUME AccountsInv, NEW c \in AuthUnderWay, LogoutArrives(c)
  PROVE  AccountsInv'
<1> DEFINE v == doubtful[c[1]] \/ authCall[c].state = "refused"
<1>1. /\ c[2] = "logout" /\ authCall[c].state \in {"ok", "refused"}
      /\ Ends(c) /\ userRow' = userRow
      /\ sessionCookie' = IF authCall[c].state = "ok" THEN NoCookie ELSE sessionCookie
      /\ signedIn' = [signedIn EXCEPT ![c[1]] = FALSE]
      /\ doubtful' = [doubtful EXCEPT ![c[1]] = v]
  BY DEF LogoutArrives, AuthAnswered
<1>2. v \in BOOLEAN  OBVIOUS
<1> HIDE DEF v
<1>3. /\ signedIn' \in [Pages -> BOOLEAN] /\ signedIn'[c[1]] = FALSE
      /\ \A q \in Pages : q # c[1] => signedIn'[q] = signedIn[q]
  BY <1>1, AuthAnswerFacts
<1>4. /\ doubtful' \in [Pages -> BOOLEAN] /\ (doubtful'[c[1]] <=> v)
      /\ \A q \in Pages : q # c[1] => doubtful'[q] = doubtful[q]
  BY <1>1, <1>2, AuthAnswerFacts
<1>5. \A q \in Pages : doubtful[q] => doubtful'[q]  BY <1>4 DEF v
<1>6. ~doubtful'[c[1]] => authCall[c].state = "ok"  BY <1>1, <1>4 DEF v
<1>7. authCall[c].state = "ok" => AuthSettled(c[1])'
  BY <1>1, <1>3 DEF AuthSettled, Verified
<1>8. sessionCookie' \in MaybeSession /\ SessionFine(sessionCookie', userRow)
  BY <1>1, AuthAnswerFacts
<1>9. c[2] # "me"  BY <1>1
<1> QED BY <1>1, <1>3, <1>4, <1>5, <1>6, <1>7, <1>8, <1>9, EndKeeps

LEMMA AuthLostKeeps ==
  ASSUME AccountsInv, NEW c \in AuthUnderWay, CallLost(c)
  PROVE  AccountsInv'
<1> DEFINE v == signedIn[c[1]] /\ c[2] # "me"
           w == doubtful[c[1]] \/ c[2] \in {"me", "logout", "password"}
<1>1. /\ Ends(c) /\ userRow' = userRow /\ sessionCookie' = sessionCookie
      /\ signedIn' = [signedIn EXCEPT ![c[1]] = v] /\ doubtful' = [doubtful EXCEPT ![c[1]] = w]
  BY DEF CallLost
<1>2. v \in BOOLEAN /\ w \in BOOLEAN  OBVIOUS
<1> HIDE DEF v, w
<1>3. /\ signedIn' \in [Pages -> BOOLEAN] /\ (signedIn'[c[1]] <=> v) /\ signedIn'[c[1]] \in BOOLEAN
      /\ \A q \in Pages : q # c[1] => signedIn'[q] = signedIn[q]
  BY <1>1, <1>2, AuthAnswerFacts
<1>4. /\ doubtful' \in [Pages -> BOOLEAN] /\ (doubtful'[c[1]] <=> w)
      /\ \A q \in Pages : q # c[1] => doubtful'[q] = doubtful[q]
  BY <1>1, <1>2, AuthAnswerFacts
<1>5. \A q \in Pages : doubtful[q] => doubtful'[q]  BY <1>4 DEF w
<1>6. ~doubtful'[c[1]] => c[2] \in {"login", "register", "profile"}
  <2>1. c[2] \in AuthKinds  BY CallFields DEF AccountsInv
  <2> QED BY <1>4, <2>1 DEF w, AuthKinds
<1>7. c[2] # "me" => (signedIn'[c[1]] <=> signedIn[c[1]])  BY <1>3 DEF v
<1>8. c[2] # "me" /\ AuthSettled(c[1]) => AuthSettled(c[1])'
  <2>1. Verified(sessionCookie)' <=> Verified(sessionCookie)  BY <1>1 DEF Verified
  <2>2. Verified(sessionCookie)' \in BOOLEAN  BY DEF Verified
  <2> QED BY <1>3, <1>7, <2>1, <2>2 DEF AuthSettled
<1>9. ~doubtful'[c[1]] /\ OwnCall(c) => AuthSettled(c[1])'  BY <1>6, <1>8 DEF OwnCall
<1> QED BY <1>1, <1>3, <1>4, <1>5, <1>9, AuthAnswerFacts, EndKeeps

\* A new password opens the login page.
LEMMA PasswordArrivesKeeps ==
  ASSUME AccountsInv, NEW c \in AuthUnderWay, PasswordArrives(c)
  PROVE  AccountsInv'
<1>1. CASE authCall[c].state = "refused"
  <2>1. /\ c[2] = "password" /\ Ends(c) /\ userRow' = userRow /\ doubtful' = doubtful
        /\ sessionCookie' = sessionCookie /\ signedIn' = signedIn
    BY <1>1 DEF PasswordArrives
  <2>2. OwnCall(c) => AuthSettled(c[1])'  BY <1>1, <2>1 DEF OwnCall, AuthSettled, Verified
  <2> QED BY <2>1, <2>2, AuthAnswerFacts, EndKeeps
<1>2. CASE authCall[c].state # "refused"
  <2> DEFINE p == c[1]
             r == [state |-> "sent", cookie |-> NoCookie,
                   typed |-> FirstPassword, next |-> FirstPassword]
  <2>1. /\ userRow' = userRow /\ doubtful' = doubtful /\ sessionCookie' = NoCookie
        /\ signedIn' = [signedIn EXCEPT ![p] = FALSE] /\ c[2] = "password"
        /\ authCall' = [d \in Pages \X AuthKinds |->
             IF d = <<p, "me">> THEN r ELSE IF d[1] = p THEN NoAuthCall ELSE authCall[d]]
    BY <1>2 DEF PasswordArrives
  <2>2. r \in AuthCall /\ r.state = "sent" /\ r.cookie = NoCookie /\ r # NoAuthCall
    BY AccountConstants DEF AuthCall, MaybeSession
  <2>3. p \in Pages /\ <<p, "me">> \in Pages \X AuthKinds /\ c \in Pages \X AuthKinds
    BY CallFields DEF AccountsInv, AuthKinds
  <2> HIDE DEF p, r
  <2>4. /\ signedIn' \in [Pages -> BOOLEAN] /\ signedIn'[p] = FALSE
        /\ \A q \in Pages : q # p => signedIn'[q] = signedIn[q]
    BY <2>1, <2>3, AuthAnswerFacts
  <2>5. ASSUME NEW d \in Pages \X AuthKinds
        PROVE  /\ authCall'[d] \in AuthCall \cup {NoAuthCall}
               /\ d = <<p, "me">> => authCall'[d] = r
               /\ d # <<p, "me">> /\ d[1] = p => authCall'[d] = NoAuthCall
               /\ d[1] # p => authCall'[d] = authCall[d]
    BY <2>1, <2>2, <2>3 DEF AccountsInv, AccountsTypeOK
  <2>6. authCall' \in [Pages \X AuthKinds -> AuthCall \cup {NoAuthCall}]
    <3>1. DOMAIN authCall' = Pages \X AuthKinds
            /\ authCall' = [d \in Pages \X AuthKinds |-> authCall'[d]]
      BY <2>1
    <3> QED BY <2>5, <3>1
  <2>7. \A d \in AuthUnderWay' :
          \/ d = <<p, "me">> /\ authCall'[d] = r /\ d[1] = p /\ d[2] = "me"
          \/ d[1] # p /\ d \in AuthUnderWay /\ authCall'[d] = authCall[d]
    <3> TAKE d \in AuthUnderWay'
    <3>1. d \in Pages \X AuthKinds /\ authCall'[d] # NoAuthCall  BY DEF AuthUnderWay
    <3>2. CASE d = <<p, "me">>
      <4>1. d[1] = p /\ d[2] = "me"  BY <3>2
      <4> QED BY <2>5, <3>1, <3>2, <4>1
    <3>3. CASE d # <<p, "me">>
      <4>1. d[1] # p /\ authCall'[d] = authCall[d]  BY <2>5, <3>1, <3>3
      <4> QED BY <3>1, <4>1 DEF AuthUnderWay
    <3> QED BY <3>2, <3>3
  <2>8. AccountsTypeOK'
    BY <2>1, <2>4, <2>6, AuthAnswerFacts DEF AccountsInv, AccountsTypeOK
  <2>9. SessionsFine'
    <3>1. \A d \in AuthUnderWay : SessionFine(authCall[d].cookie, userRow)
      BY DEF AccountsInv, SessionsFine
    <3>2. \A d \in AuthUnderWay' : SessionFine(authCall'[d].cookie, userRow)
      BY <2>2, <2>7, <3>1, AuthAnswerFacts
    <3> QED BY <2>1, <3>2, AuthAnswerFacts DEF SessionsFine
  <2>10. GuardsPassed'
    <3>1. \A d \in AuthUnderWay' : d[2] \in {"logout", "password"} =>
            d \in AuthUnderWay /\ authCall'[d] = authCall[d]
      BY <2>7
    <3> QED BY <2>1, <3>1 DEF AccountsInv, GuardsPassed
  <2>11. ASSUME NEW q \in Pages PROVE PageKnown(q)'
    <3>1. CASE doubtful'[q]  BY <3>1 DEF PageKnown
    <3>2. CASE ~doubtful'[q] /\ q # p
      <4>1. ~doubtful[q] /\ c[1] # q  BY <2>1, <3>2 DEF p
      <4>2. c[2] = "me"  BY <4>1 DEF AccountsInv, PageKnown
      <4> QED BY <2>1, <4>2
    <3>3. CASE ~doubtful'[q] /\ q = p
      <4>1. \A d \in AuthUnderWay : IF d[1] = p THEN OwnCall(d) ELSE d[2] = "me"
        BY <2>1, <3>3 DEF AccountsInv, PageKnown
      <4>2. ~Verified(sessionCookie)'  BY <2>1 DEF Verified
      <4>3. AuthSettled(p)'  BY <2>4, <4>2 DEF AuthSettled, Verified
      <4>4. \A d \in AuthUnderWay' : IF d[1] = p THEN OwnCall(d)' ELSE d[2] = "me"
        <5> TAKE d \in AuthUnderWay'
        <5>1. CASE d[1] = p
          <6>1. d[2] = "me" /\ authCall'[d] = r  BY <2>7, <5>1
          <6> QED BY <2>1, <2>2, <5>1, <6>1 DEF OwnCall
        <5>2. CASE d[1] # p  BY <2>7, <4>1, <5>2
        <5> QED BY <5>1, <5>2
      <4>5. \A d, e \in UnderWayOf(p)' : d = e  BY <2>7 DEF UnderWayOf
      <4> QED BY <3>3, <4>3, <4>4, <4>5 DEF PageKnown
    <3> QED BY <3>1, <3>2, <3>3
  <2> QED BY <2>8, <2>9, <2>10, <2>11 DEF AccountsInv
<1> QED BY <1>1, <1>2

LEMMA AccountsBegin == AccountsInit => AccountsInv
<1> SUFFICES ASSUME AccountsInit PROVE AccountsInv  OBVIOUS
<1>1. /\ userRow \in UserRow \cup {NoAccount} /\ sessionCookie = NoCookie
      /\ authCall = [c \in Pages \X AuthKinds |-> NoAuthCall]
      /\ signedIn = [p \in Pages |-> FALSE] /\ doubtful = [p \in Pages |-> FALSE]
  BY AccountConstants DEF AccountsInit, UserRow
<1>2. AccountsTypeOK  BY <1>1 DEF AccountsTypeOK, MaybeSession
<1>3. AuthUnderWay = {}  BY <1>1 DEF AuthUnderWay
<1>4. SessionsFine /\ GuardsPassed  BY <1>1, <1>3 DEF SessionsFine, SessionFine, GuardsPassed
<1>5. \A p \in Pages : PageKnown(p)
  BY <1>1, <1>3 DEF PageKnown, UnderWayOf, AuthSettled, Verified
<1> QED BY <1>2, <1>4, <1>5 DEF AccountsInv

LEMMA AccountsStep == AccountsInv /\ [AccountsNext]_accountVars => AccountsInv'
<1> SUFFICES ASSUME AccountsInv, [AccountsNext]_accountVars PROVE AccountsInv'  OBVIOUS
<1>1. CASE UNCHANGED accountVars
  <2>1. /\ userRow' = userRow /\ sessionCookie' = sessionCookie /\ authCall' = authCall
        /\ signedIn' = signedIn /\ doubtful' = doubtful
    BY <1>1 DEF accountVars
  <2>2. AuthUnderWay' = AuthUnderWay /\ \A p \in Pages : UnderWayOf(p)' = UnderWayOf(p)
    BY <2>1 DEF AuthUnderWay, UnderWayOf
  <2>3. AccountsTypeOK' /\ SessionsFine' /\ GuardsPassed'
    BY <2>1, <2>2 DEF AccountsInv, AccountsTypeOK, SessionsFine, GuardsPassed
  <2>4. \A p : AuthSettled(p)' <=> AuthSettled(p)  BY <2>1 DEF AuthSettled, Verified
  <2>5. \A c \in AuthUnderWay : OwnCall(c) => OwnCall(c)'
    BY <2>1, <2>4 DEF OwnCall, Verified
  <2>6. \A p \in Pages : PageKnown(p)'
    BY <2>1, <2>2, <2>4, <2>5 DEF AccountsInv, PageKnown
  <2> QED BY <2>3, <2>6 DEF AccountsInv
<1>2. CASE AccountsNext
  BY <1>2, MountKeeps, FormsKeep, ElsewhereKeeps, LoginKeeps, RegisterKeeps, AskWhoKeeps,
     RevokesKeeps, SignInArrivesKeeps, UserArrivesKeeps, LogoutArrivesKeeps, PasswordArrivesKeeps,
     AuthLostKeeps, AccountConstants DEF AccountsNext
<1> QED BY <1>1, <1>2

\* The account, the session and what the pages have of them keep their types (auth.service.ts,
\* AuthProvider.tsx).
THEOREM AccountsTypes == AccountsSpec => []AccountsTypeOK
<1>1. AccountsInv => AccountsTypeOK  BY DEF AccountsInv
<1> QED BY <1>1, AccountsBegin, AccountsStep, PTL DEF AccountsSpec

\* A session the backend accepts was opened with the password there is, and a page tells who is
\* signed in unless one of the named doubts has come up, with any number of pages, passwords and
\* calls under way.
THEOREM SessionsAreCurrent == AccountsSpec => []AccountsSound
<1>1. AccountsInv => AccountsSound
  BY
  DEF AccountsInv, SessionsFine, SessionFine, PageKnown, AuthSettled, AccountsSound, LiveIsCurrent,
     PageTellsTruth, Verified
<1> QED BY <1>1, AccountsBegin, AccountsStep, PTL DEF AccountsSpec

-----------------------------------------------------------------------------
(***************************************************************************)
(* The chat page (ChatPage).                                               *)
(***************************************************************************)
\* The pc of a turn that streams.
Streams(p) == p \notin {"new", "ended", "failed", "cut"}
BubbleType == [turn : {NoTurn} \cup ChatTurns, from : SUBSET ChatTurns,
               done : BOOLEAN, receipt : SUBSET Acts]
HistoryType == [crossed : SUBSET ChatTurns, noted : SUBSET ChatTurns, stray : SUBSET ChatTurns,
                forgotten : SUBSET ChatTurns, stale : BOOLEAN]

\* The k-th bubble: a turn's own, the last one while the turn streams, and closed with a receipt
\* once the turn is closing, unless another turn or a notice came between.
BubbleFine(k) ==
  bubbles[k].turn # NoTurn =>
    /\ chatTurn[bubbles[k].turn].pc # "new"
    /\ bubbles[k].from \subseteq {bubbles[k].turn} \cup chatHistory.crossed
    /\ bubbles[k].turn \notin chatHistory.crossed /\ bubbles[k].turn \notin chatHistory.noted =>
         /\ Streams(chatTurn[bubbles[k].turn].pc) => k = Len(bubbles)
         /\ chatTurn[bubbles[k].turn].pc \in {"closing", "ended", "cut"} =>
              bubbles[k].done /\ bubbles[k].receipt = chatTurn[bubbles[k].turn].acts

\* While a turn streams, the last bubble is its own, or a notice, or both turns have crossed.
LastFine(t) ==
  Streams(chatTurn[t].pc) /\ bubbles # <<>> =>
    \/ bubbles[Len(bubbles)].turn \in {t, NoTurn}
    \/ t \in chatHistory.crossed /\ bubbles[Len(bubbles)].turn \in chatHistory.crossed

\* A session the page may go on with: begun in the tab shown, and not forgotten.
Lives(s) ==
  s \in ChatTurns /\ chatTurn[s].pc # "new" /\ chatTurn[s].role = chatRole
    /\ s \notin chatHistory.forgotten
AskedFine(t) == chatTurn[t].pc = "asked" /\ t \notin chatHistory.stray => Lives(chatTurn[t].session)
HeldFine ==
  /\ sessionHeld.id # NoTurn /\ sessionHeld.by \notin chatHistory.stray => Lives(sessionHeld.id)
  /\ sessionHeld.id # NoTurn => chatTurn[sessionHeld.id].pc # "new"
AlongFine(t) ==
  chatTurn[t].pc # "new" =>
    chatTurn[t].session \in ChatTurns /\ chatTurn[chatTurn[t].session].pc # "new"
ForgetFine ==
  /\ forgetCall # NoTurn => chatTurn[forgetCall].pc # "new"
  /\ \A f \in chatHistory.forgotten : chatTurn[f].pc # "new"

\* Unless a send of an older render has passed the guard, one turn streams at a time, and the
\* page is busy with it.
OneStreams ==
  ~chatHistory.stale =>
    /\ chatHistory.crossed = {}
    /\ ~chatBusy => \A t \in ChatTurns : ~Streams(chatTurn[t].pc)
    /\ \A t, u \in ChatTurns : Streams(chatTurn[t].pc) /\ Streams(chatTurn[u].pc) => t = u

ChatInv ==
  /\ ChatTypeOK /\ bubbles \in Seq(BubbleType) /\ chatHistory \in HistoryType
  /\ \A k \in 1 .. Len(bubbles) : BubbleFine(k)
  /\ \A t \in ChatTurns : LastFine(t) /\ AskedFine(t) /\ AlongFine(t)
  /\ HeldFine /\ ForgetFine /\ OneStreams

TurnType == [pc : {"new", "asked", "open", "renewing", "complete", "failing", "closing",
                   "ended", "failed", "cut"},
             role : Roles, session : {NoTurn} \cup ChatTurns, acts : SUBSET Acts]
HeldType == [id : {NoTurn} \cup ChatTurns, by : {NoTurn} \cup ChatTurns]
LimitCallType == [pc : {"none", "asked"}, busy : BOOLEAN, role : Roles]

LEMMA ChatTypes ==
  ASSUME ChatInv
  PROVE  /\ chatRole \in Roles /\ chatBusy \in BOOLEAN /\ sessionHeld \in HeldType
         /\ chatTurn \in [ChatTurns -> TurnType] /\ toggling \in BOOLEAN
         /\ forgetCall \in {NoTurn} \cup ChatTurns /\ limitCall \in LimitCallType
         /\ presses \in 0 .. MaxPresses /\ MaxPresses \in Nat /\ MaxChatTurns \in Nat
         /\ bubbles \in Seq(BubbleType) /\ chatHistory \in HistoryType
         /\ \A k \in 1 .. Len(bubbles) : BubbleFine(k) /\ bubbles[k] \in BubbleType
         /\ \A t \in ChatTurns : LastFine(t) /\ AskedFine(t) /\ AlongFine(t)
         /\ \A t \in ChatTurns : chatTurn[t] \in TurnType
         /\ HeldFine /\ ForgetFine /\ OneStreams
BY ChatAssumption DEF ChatInv, ChatTypeOK, TurnType, HeldType, LimitCallType

LEMMA ChatTyped ==
  ASSUME chatRole' \in Roles, chatBusy' \in BOOLEAN, sessionHeld' \in HeldType,
         chatTurn' \in [ChatTurns -> TurnType], toggling' \in BOOLEAN,
         forgetCall' \in {NoTurn} \cup ChatTurns, limitCall' \in LimitCallType,
         presses' \in 0 .. MaxPresses, bubbles' \in Seq(BubbleType), chatHistory' \in HistoryType,
         \A k \in 1 .. Len(bubbles') : BubbleFine(k)',
         \A t \in ChatTurns : LastFine(t)' /\ AskedFine(t)' /\ AlongFine(t)',
         HeldFine', ForgetFine', OneStreams'
  PROVE  ChatInv'
<1>1. /\ DOMAIN bubbles' = 1 .. Len(bubbles')
      /\ \A k \in 1 .. Len(bubbles') : bubbles'[k] \in BubbleType
  OBVIOUS
<1>2. ChatTypeOK'
  BY <1>1 DEF ChatTypeOK, TurnType, HeldType, LimitCallType, BubbleType
<1> QED BY <1>2 DEF ChatInv

LEMMA WhoStreams ==
  ASSUME NEW t
  PROVE  t \in Streaming <=> t \in ChatTurns /\ Streams(chatTurn[t].pc)
BY DEF Streaming, Streams

LEMMA TurnsAreNumbers ==
  NoTurn \notin ChatTurns
BY DEF NoTurn, ChatTurns

-----------------------------------------------------------------------------
(* Steps of the buttons that leave bubbles, turns and session alone.         *)

LEMMA ButtonOnly ==
  ASSUME ChatInv, chatRole' = chatRole, chatBusy' = chatBusy, bubbles' = bubbles,
         sessionHeld' = sessionHeld, chatTurn' = chatTurn, chatHistory' = chatHistory,
         toggling' \in BOOLEAN, limitCall' \in LimitCallType, presses' \in 0 .. MaxPresses,
         forgetCall' \in {NoTurn} \cup ChatTurns,
         forgetCall' # NoTurn => chatTurn[forgetCall'].pc # "new"
  PROVE  ChatInv'
<1>1. ASSUME NEW k \in 1 .. Len(bubbles') PROVE BubbleFine(k)'
  <2>1. BubbleFine(k)  BY ChatTypes
  <2> QED BY <2>1 DEF BubbleFine
<1>2. ASSUME NEW t \in ChatTurns PROVE LastFine(t)' /\ AskedFine(t)' /\ AlongFine(t)'
  <2>1. LastFine(t) /\ AskedFine(t) /\ AlongFine(t)  BY ChatTypes
  <2> QED BY <2>1 DEF LastFine, AskedFine, AlongFine, Lives
<1>3. HeldFine' /\ OneStreams'
  <2>1. HeldFine /\ OneStreams  BY ChatTypes
  <2> QED BY <2>1 DEF HeldFine, OneStreams, Lives
<1>4. ForgetFine'
  <2>1. ForgetFine  BY ChatTypes
  <2> QED BY <2>1 DEF ForgetFine
<1> QED BY <1>1, <1>2, <1>3, <1>4, ChatTypes, ChatTyped

LEMMA PressTyped ==
  ASSUME ChatInv, Press
  PROVE  presses' \in 0 .. MaxPresses
BY ChatTypes DEF Press

LEMMA AsksKeep ==
  ASSUME ChatInv, AskLimit \/ AskDelegation \/ AskForget
  PROVE  ChatInv'
<1>1. /\ chatRole' = chatRole /\ chatBusy' = chatBusy /\ bubbles' = bubbles
      /\ sessionHeld' = sessionHeld /\ chatTurn' = chatTurn /\ chatHistory' = chatHistory
      /\ Press
  BY DEF AskLimit, AskDelegation, AskForget
<1>2. presses' \in 0 .. MaxPresses  BY <1>1, PressTyped
<1>3. /\ toggling \in BOOLEAN /\ limitCall \in LimitCallType /\ chatRole \in Roles
      /\ chatBusy \in BOOLEAN /\ forgetCall \in {NoTurn} \cup ChatTurns
      /\ (forgetCall # NoTurn => chatTurn[forgetCall].pc # "new")
      /\ sessionHeld.id \in {NoTurn} \cup ChatTurns
      /\ (sessionHeld.id # NoTurn => chatTurn[sessionHeld.id].pc # "new")
  <2>1. ForgetFine /\ HeldFine /\ sessionHeld \in HeldType  BY ChatTypes
  <2> QED BY <2>1, ChatTypes DEF ForgetFine, HeldFine, HeldType
<1>4. /\ toggling' \in BOOLEAN /\ limitCall' \in LimitCallType
      /\ forgetCall' \in {NoTurn} \cup ChatTurns
      /\ (forgetCall' # NoTurn => chatTurn[forgetCall'].pc # "new")
  <2>1. CASE AskLimit
    <3>1. [pc |-> "asked", busy |-> chatBusy, role |-> chatRole] \in LimitCallType
      BY <1>3 DEF LimitCallType
    <3> QED BY <1>3, <2>1, <3>1 DEF AskLimit
  <2>2. CASE AskDelegation  BY <1>3, <2>2 DEF AskDelegation
  <2>3. CASE AskForget  BY <1>3, <2>3 DEF AskForget
  <2> QED BY <2>1, <2>2, <2>3
<1> QED BY <1>1, <1>2, <1>4, ButtonOnly

-----------------------------------------------------------------------------
(* A turn is sent.                                                          *)

LEMMA SendsKeeps ==
  ASSUME ChatInv, NEW t \in ChatTurns, NEW role \in Roles, NEW late \in BOOLEAN,
         Sends(t, role, late), ~late => ~chatBusy,
         chatRole' = chatRole, sessionHeld' = sessionHeld, toggling' = toggling,
         forgetCall' = forgetCall, limitCall' \in LimitCallType, presses' = presses
  PROVE  ChatInv'
<1>1. /\ chatTurn[t].pc = "new" /\ chatTurn \in [ChatTurns -> TurnType]
      /\ bubbles \in Seq(BubbleType) /\ sessionHeld \in HeldType /\ chatHistory \in HistoryType
      /\ \A u \in ChatTurns : chatTurn[u] \in TurnType
  BY ChatTypes DEF Sends, Unsent
<1>2. PICK s \in ChatTurns : s = IF sessionHeld.id = NoTurn THEN t ELSE sessionHeld.id
  BY <1>1 DEF HeldType
<1> DEFINE q == [pc |-> "asked", role |-> role, acts |-> {}, session |-> s]
           b == [turn |-> t, from |-> {}, done |-> FALSE, receipt |-> {}]
<1>3. q \in TurnType /\ q.pc = "asked" /\ q.role = role /\ q.session = s /\ q.acts = {}
  BY DEF TurnType
<1>4. /\ b \in BubbleType /\ b.turn = t /\ b.from = {} /\ b.receipt = {} /\ ~b.done
  BY DEF BubbleType
<1>5. PICK C, S : /\ C = (IF Streaming = {} THEN chatHistory.crossed
                           ELSE chatHistory.crossed \cup Streaming \cup {t})
                  /\ S = (IF sessionHeld.by \in chatHistory.stray \/ role # chatRole
                            THEN chatHistory.stray \cup {t} ELSE chatHistory.stray)
  OBVIOUS
<1>6. /\ bubbles' = Append(bubbles, b) /\ chatTurn' = [chatTurn EXCEPT ![t] = q]
      /\ chatBusy' = TRUE
  BY <1>2 DEF Sends
<1> HIDE DEF q, b
<1>7. C \subseteq ChatTurns /\ S \subseteq ChatTurns
  BY <1>1, <1>5, WhoStreams DEF HistoryType
<1>8. /\ chatHistory' \in HistoryType /\ chatHistory'.crossed = C /\ chatHistory'.stray = S
      /\ chatHistory'.noted = chatHistory.noted /\ chatHistory'.forgotten = chatHistory.forgotten
      /\ chatHistory'.stale = (chatHistory.stale \/ late)
  <2>1. chatHistory' = [chatHistory EXCEPT !.crossed = C, !.stray = S,
                                           !.stale = chatHistory.stale \/ late]
    BY <1>5 DEF Sends
  <2> QED BY <1>1, <1>7, <2>1 DEF HistoryType
<1>9. /\ chatTurn' \in [ChatTurns -> TurnType] /\ chatTurn'[t] = q
      /\ \A u \in ChatTurns : u # t => chatTurn'[u] = chatTurn[u]
  BY <1>1, <1>3, <1>6
<1>10. PICK n \in Nat : n = Len(bubbles)  BY <1>1
<1>11. /\ bubbles' \in Seq(BubbleType) /\ Len(bubbles') = n + 1 /\ bubbles'[n + 1] = b
       /\ bubbles' # <<>> /\ \A k \in 1 .. n : bubbles'[k] = bubbles[k]
  BY <1>1, <1>4, <1>6, <1>10
<1>12. chatHistory.crossed \subseteq C /\ chatHistory.stray \subseteq S  BY <1>5
<1>13. \A u \in ChatTurns : Streams(chatTurn[u].pc) => u \in C
  BY <1>5, WhoStreams
<1>14. \A u \in ChatTurns : Streams(chatTurn[u].pc) => t \in C
  BY <1>5, WhoStreams
<1>15. ASSUME NEW k \in 1 .. Len(bubbles') PROVE BubbleFine(k)'
  <2>1. CASE k = n + 1
    <3>1. Streams(q.pc) /\ q.pc \notin {"closing", "ended", "cut"} /\ q.pc # "new"
      BY <1>3 DEF Streams
    <3> QED BY <1>4, <1>9, <1>11, <2>1, <3>1 DEF BubbleFine
  <2>2. CASE k # n + 1
    <3>1. k \in 1 .. n  BY <1>11, <2>2
    <3>2. BubbleFine(k) /\ bubbles[k] \in BubbleType /\ bubbles'[k] = bubbles[k]
      BY <1>10, <1>11, <3>1, ChatTypes
    <3>3. PICK u : u = bubbles[k].turn  OBVIOUS
    <3>4. CASE u = NoTurn  BY <3>2, <3>3, <3>4 DEF BubbleFine
    <3>5. CASE u # NoTurn
      <4>1. u \in ChatTurns /\ u # t  BY <1>1, <3>2, <3>3, <3>5 DEF BubbleFine, BubbleType
      <4>2. chatTurn'[u] = chatTurn[u]  BY <1>9, <4>1
      <4>3. Streams(chatTurn[u].pc) => u \in C  BY <1>13, <4>1
      <4> QED BY <1>8, <1>12, <3>2, <3>3, <3>5, <4>2, <4>3 DEF BubbleFine
    <3> QED BY <3>4, <3>5
  <2> QED BY <2>1, <2>2
<1>16. ASSUME NEW u \in ChatTurns PROVE LastFine(u)'
  <2>1. bubbles'[Len(bubbles')].turn = t  BY <1>4, <1>11
  <2>2. CASE u = t  BY <2>1, <2>2 DEF LastFine
  <2>3. CASE u # t  BY <1>8, <1>9, <1>13, <1>14, <2>1, <2>3 DEF LastFine
  <2> QED BY <2>2, <2>3
<1>17. ASSUME NEW v \in ChatTurns, Lives(v) PROVE Lives(v)'
  BY <1>1, <1>8, <1>9, <1>17 DEF Lives
<1>18. ForgetFine /\ HeldFine /\ OneStreams  BY ChatTypes
<1>19. ASSUME NEW u \in ChatTurns PROVE AskedFine(u)'
  <2>1. CASE u # t
    <3>1. AskedFine(u) /\ chatTurn[u] \in TurnType  BY ChatTypes
    <3> QED BY <1>8, <1>9, <1>12, <1>17, <2>1, <3>1 DEF AskedFine, Lives
  <2>2. CASE u = t /\ t \notin S
    <3>1. role = chatRole /\ sessionHeld.by \notin chatHistory.stray  BY <1>5, <2>2
    <3>2. CASE s = t
      <4>1. t \notin chatHistory.forgotten  BY <1>1, <1>18 DEF ForgetFine
      <4> QED BY <1>3, <1>8, <1>9, <2>2, <3>1, <3>2, <4>1 DEF AskedFine, Lives
    <3>3. CASE s # t
      <4>1. sessionHeld.id # NoTurn /\ s = sessionHeld.id  BY <1>2, <3>3
      <4>2. Lives(s)  BY <1>18, <3>1, <4>1 DEF HeldFine
      <4> QED BY <1>3, <1>9, <1>17, <2>2, <4>2 DEF AskedFine
    <3> QED BY <3>2, <3>3
  <2>3. CASE u = t /\ t \in S  BY <1>8, <2>3 DEF AskedFine
  <2> QED BY <2>1, <2>2, <2>3
<1>20. ASSUME NEW u \in ChatTurns PROVE AlongFine(u)'
  <2>1. CASE u # t
    <3>1. AlongFine(u)  BY ChatTypes
    <3> QED BY <1>3, <1>9, <2>1, <3>1 DEF AlongFine
  <2>2. CASE u = t
    <3>1. s # t => s = sessionHeld.id /\ sessionHeld.id # NoTurn  BY <1>2
    <3>2. s # t => chatTurn[s].pc # "new"  BY <1>18, <3>1 DEF HeldFine
    <3> QED BY <1>3, <1>9, <2>2, <3>2 DEF AlongFine
  <2> QED BY <2>1, <2>2
<1>21. HeldFine'
  <2>1. sessionHeld.id # NoTurn => sessionHeld.id \in ChatTurns /\ sessionHeld.id # t
    BY <1>1, <1>18 DEF HeldFine, HeldType
  <2> QED BY <1>8, <1>9, <1>12, <1>17, <1>18, <2>1 DEF HeldFine
<1>22. ForgetFine'
  <2>1. forgetCall \in {NoTurn} \cup ChatTurns /\ chatHistory.forgotten \subseteq ChatTurns
    BY <1>1, ChatTypes DEF HistoryType
  <2> QED BY <1>1, <1>8, <1>9, <1>18, <2>1 DEF ForgetFine
<1>23. OneStreams'
  <2>1. CASE chatHistory.stale \/ late  BY <1>8, <2>1 DEF OneStreams
  <2>2. CASE ~chatHistory.stale /\ ~late
    <3>1. \A u \in ChatTurns : ~Streams(chatTurn[u].pc)  BY <1>18, <2>2 DEF OneStreams
    <3>2. Streaming = {}  BY <3>1, WhoStreams
    <3>3. C = {}  BY <1>5, <1>18, <2>2, <3>2 DEF OneStreams
    <3>4. \A u \in ChatTurns : Streams(chatTurn'[u].pc) => u = t  BY <1>9, <3>1
    <3> QED BY <1>6, <1>8, <3>3, <3>4 DEF OneStreams
  <2> QED BY <2>1, <2>2
<1> QED BY <1>6, <1>8, <1>9, <1>11, <1>15, <1>16, <1>19, <1>20, <1>21, <1>22, <1>23, ChatTypes,
           ChatTyped

LEMMA SendKeeps ==
  ASSUME ChatInv, NEW t \in ChatTurns, Send(t)
  PROVE  ChatInv'
<1>1. /\ ~chatBusy /\ Sends(t, chatRole, FALSE) /\ chatRole' = chatRole
      /\ sessionHeld' = sessionHeld /\ toggling' = toggling /\ forgetCall' = forgetCall
      /\ limitCall' = limitCall /\ presses' = presses
  BY DEF Send
<1>2. chatRole \in Roles /\ limitCall \in LimitCallType  BY ChatTypes
<1>3. PICK role \in Roles : role = chatRole  BY <1>2
<1>4. Sends(t, role, FALSE)  BY <1>1, <1>3
<1> QED BY <1>1, <1>2, <1>4, SendsKeeps

LEMMA LimitKeeps ==
  ASSUME ChatInv, LimitAnswered
  PROVE  ChatInv'
<1>1. /\ limitCall' = NoLimitCall /\ chatRole' = chatRole /\ sessionHeld' = sessionHeld
      /\ toggling' = toggling /\ forgetCall' = forgetCall /\ presses' = presses
  BY DEF LimitAnswered
<1>2. NoLimitCall \in LimitCallType  BY DEF NoLimitCall, LimitCallType, Roles
<1>3. chatBusy \in BOOLEAN /\ limitCall.role \in Roles  BY ChatTypes DEF LimitCallType
<1>4. CASE \E t \in ChatTurns : Sends(t, limitCall.role, chatBusy)
  <2>1. PICK t \in ChatTurns : Sends(t, limitCall.role, chatBusy)  BY <1>4
  <2>2. PICK role \in Roles : role = limitCall.role  BY <1>3
  <2>3. PICK late \in BOOLEAN : late = chatBusy  BY <1>3
  <2>4. Sends(t, role, late)  BY <2>1, <2>2, <2>3
  <2> QED BY <1>1, <1>2, <2>3, <2>4, SendsKeeps
<1>5. CASE UNCHANGED <<chatBusy, bubbles, chatTurn, chatHistory>>
  <2>1. /\ chatBusy' = chatBusy /\ bubbles' = bubbles /\ chatTurn' = chatTurn
        /\ chatHistory' = chatHistory
    BY <1>5
  <2>2. ForgetFine  BY ChatTypes
  <2> QED BY <1>1, <1>2, <2>1, <2>2, ChatTypes, ButtonOnly DEF ForgetFine
<1> QED BY <1>4, <1>5 DEF LimitAnswered

-----------------------------------------------------------------------------
(* A turn's events.                                                         *)

LEMMA PatchedIs ==
  ASSUME ChatInv, NEW t \in ChatTurns, NEW d \in BOOLEAN, NEW r \in SUBSET Acts,
         bubbles' = Patched(t, d, r)
  PROVE  /\ bubbles' \in Seq(BubbleType) /\ Len(bubbles') = Len(bubbles)
         /\ \A k \in 1 .. Len(bubbles) : bubbles'[k].turn = bubbles[k].turn
         /\ \A k \in 1 .. Len(bubbles) : k # Len(bubbles) => bubbles'[k] = bubbles[k]
         /\ bubbles # <<>> =>
              /\ bubbles'[Len(bubbles)].from = bubbles[Len(bubbles)].from \cup {t}
              /\ bubbles'[Len(bubbles)].done = d /\ bubbles'[Len(bubbles)].receipt = r
<1>1. bubbles \in Seq(BubbleType)  BY ChatTypes
<1>2. PICK n \in Nat : n = Len(bubbles)  BY <1>1
<1>3. DOMAIN bubbles = 1 .. n /\ \A k \in 1 .. n : bubbles[k] \in BubbleType  BY <1>1, <1>2
<1> DEFINE P(k) == [bubbles[k] EXCEPT !.from = @ \cup {t}, !.done = d, !.receipt = r]
<1>4. ASSUME NEW k \in 1 .. n
      PROVE  /\ P(k) \in BubbleType /\ P(k).turn = bubbles[k].turn
             /\ P(k).from = bubbles[k].from \cup {t} /\ P(k).done = d /\ P(k).receipt = r
  <2>1. bubbles[k] \in BubbleType  BY <1>3
  <2> QED BY <2>1 DEF BubbleType
<1>5. bubbles' = [k \in 1 .. n |-> IF k # n THEN bubbles[k] ELSE P(k)]
  BY <1>2, <1>3 DEF Patched
<1> HIDE DEF P
<1>6. \A k \in 1 .. n : (IF k # n THEN bubbles[k] ELSE P(k)) \in BubbleType  BY <1>3, <1>4
<1>7. bubbles' \in Seq(BubbleType) /\ Len(bubbles') = n  BY <1>5, <1>6
<1>8. \A k \in 1 .. n : bubbles'[k] = IF k # n THEN bubbles[k] ELSE P(k)  BY <1>5
<1>9. bubbles # <<>> => n \in 1 .. n  BY <1>1, <1>2
<1> QED BY <1>2, <1>4, <1>7, <1>8, <1>9

\* A streaming turn goes on.  What it closes with is its receipt.
LEMMA TurnMoves ==
  ASSUME ChatInv, NEW t \in ChatTurns, NEW q \in TurnType,
         Streams(chatTurn[t].pc), q.pc \notin {"new", "asked"}, q.role = chatTurn[t].role,
         q.session = chatTurn[t].session, chatTurn' = [chatTurn EXCEPT ![t] = q],
         chatRole' = chatRole, toggling' = toggling, forgetCall' = forgetCall,
         limitCall' = limitCall, presses' = presses, chatHistory' = chatHistory,
         \/ chatBusy' = chatBusy
         \/ chatBusy' = FALSE /\ ~Streams(q.pc),
         \/ sessionHeld' = sessionHeld
         \/ /\ sessionHeld' = [id |-> chatTurn[t].session, by |-> t]
            /\ chatTurn[t].pc = "asked",
         \/ /\ bubbles' = bubbles
            /\ q.pc \in {"closing", "ended", "cut"} =>
                 chatTurn[t].pc \in {"closing", "ended", "cut"} /\ q.acts = chatTurn[t].acts
         \/ \E d \in BOOLEAN, r \in SUBSET Acts :
              /\ bubbles' = Patched(t, d, r)
              /\ q.pc \in {"closing", "ended", "cut"} => d /\ r = q.acts
  PROVE  ChatInv'
<1>1. /\ chatTurn \in [ChatTurns -> TurnType] /\ bubbles \in Seq(BubbleType)
      /\ sessionHeld \in HeldType /\ chatHistory \in HistoryType /\ chatBusy \in BOOLEAN
      /\ \A u \in ChatTurns : chatTurn[u] \in TurnType
      /\ ForgetFine /\ HeldFine /\ OneStreams
  BY ChatTypes
<1>2. /\ chatTurn' \in [ChatTurns -> TurnType] /\ chatTurn'[t] = q
      /\ \A u \in ChatTurns : u # t => chatTurn'[u] = chatTurn[u]
  BY <1>1
<1>3. chatTurn[t].pc # "new"  BY DEF Streams
<1>4. \A u \in ChatTurns : /\ chatTurn[u].pc # "new" <=> chatTurn'[u].pc # "new"
                           /\ chatTurn'[u].role = chatTurn[u].role
                           /\ chatTurn'[u].session = chatTurn[u].session
                           /\ Streams(chatTurn'[u].pc) => Streams(chatTurn[u].pc)
  BY <1>2, <1>3
<1>5. PICK n \in Nat : n = Len(bubbles)  BY <1>1
<1>6. /\ bubbles' \in Seq(BubbleType) /\ Len(bubbles') = n
      /\ \A k \in 1 .. n : bubbles'[k].turn = bubbles[k].turn
      /\ \A k \in 1 .. n : k # n => bubbles'[k] = bubbles[k]
  BY <1>1, <1>5, PatchedIs
<1>7. bubbles' # <<>> => bubbles # <<>> /\ n \in 1 .. n  BY <1>1, <1>5, <1>6
<1>8. ASSUME NEW k \in 1 .. n, NEW u \in ChatTurns, u = bubbles[k].turn
      PROVE  /\ bubbles'[k].from \subseteq {u} \cup chatHistory.crossed
             /\ u \notin chatHistory.crossed /\ u \notin chatHistory.noted
                  /\ chatTurn'[u].pc \in {"closing", "ended", "cut"} =>
                    bubbles'[k].done /\ bubbles'[k].receipt = chatTurn'[u].acts
  <2>1. /\ BubbleFine(k) /\ LastFine(t) /\ u # NoTurn
        /\ bubbles[k].from \subseteq {u} \cup chatHistory.crossed
    BY <1>5, <1>8, ChatTypes, TurnsAreNumbers DEF BubbleFine
  <2>2. CASE bubbles'[k] = bubbles[k] /\ u # t
    BY <1>2, <1>8, <2>1, <2>2 DEF BubbleFine
  <2>3. CASE /\ bubbles' = bubbles /\ u = t
             /\ q.pc \in {"closing", "ended", "cut"} =>
                  chatTurn[t].pc \in {"closing", "ended", "cut"} /\ q.acts = chatTurn[t].acts
    BY <1>2, <1>8, <2>1, <2>3 DEF BubbleFine, Streams
  <2>4. CASE k # n /\ u = t
    BY <1>5, <1>6, <1>8, <2>1, <2>4 DEF BubbleFine
  <2>5. CASE /\ k = n
             /\ \E d \in BOOLEAN, r \in SUBSET Acts :
                  /\ bubbles' = Patched(t, d, r)
                  /\ q.pc \in {"closing", "ended", "cut"} => d /\ r = q.acts
    <3>1. PICK d \in BOOLEAN, r \in SUBSET Acts :
            /\ bubbles' = Patched(t, d, r)
            /\ q.pc \in {"closing", "ended", "cut"} => d /\ r = q.acts
      BY <2>5
    <3>2. bubbles # <<>>  BY <1>1, <1>5, <1>8
    <3>3. /\ bubbles'[k].from = bubbles[k].from \cup {t}
          /\ bubbles'[k].done = d /\ bubbles'[k].receipt = r
      BY <1>5, <2>5, <3>1, <3>2, PatchedIs
    <3>4. u = t \/ (t \in chatHistory.crossed /\ u \in chatHistory.crossed)
      BY <1>5, <1>8, <2>1, <2>5, <3>2 DEF LastFine
    <3> QED BY <1>2, <2>1, <3>1, <3>3, <3>4
  <2> QED BY <1>6, <2>2, <2>3, <2>4, <2>5
<1>9. ASSUME NEW k \in 1 .. Len(bubbles') PROVE BubbleFine(k)'
  <2>1. k \in 1 .. n /\ bubbles[k] \in BubbleType /\ BubbleFine(k)  BY <1>5, <1>6, ChatTypes
  <2>2. PICK u \in {NoTurn} \cup ChatTurns : u = bubbles[k].turn  BY <2>1 DEF BubbleType
  <2>3. bubbles'[k].turn = u  BY <1>6, <2>1, <2>2
  <2>4. CASE u = NoTurn  BY <2>3, <2>4 DEF BubbleFine
  <2>5. CASE u # NoTurn
    <3>1. u \in ChatTurns  BY <2>2, <2>5
    <3>2. chatTurn'[u].pc # "new"  BY <1>4, <2>1, <2>2, <2>5, <3>1 DEF BubbleFine
    <3>3. /\ bubbles'[k].from \subseteq {u} \cup chatHistory.crossed
          /\ u \notin chatHistory.crossed /\ u \notin chatHistory.noted
               /\ chatTurn'[u].pc \in {"closing", "ended", "cut"} =>
                 bubbles'[k].done /\ bubbles'[k].receipt = chatTurn'[u].acts
      BY <1>8, <2>1, <2>2, <3>1
    <3>4. u \notin chatHistory.crossed /\ u \notin chatHistory.noted
            /\ Streams(chatTurn'[u].pc) => k = Len(bubbles')
      BY <1>4, <1>5, <1>6, <2>1, <2>2, <2>5, <3>1 DEF BubbleFine
    <3> QED BY <2>3, <3>2, <3>3, <3>4 DEF BubbleFine
  <2> QED BY <2>4, <2>5
<1>10. ASSUME NEW u \in ChatTurns PROVE LastFine(u)'
  <2>1. LastFine(u)  BY ChatTypes
  <2> QED BY <1>4, <1>5, <1>6, <1>7, <2>1 DEF LastFine
<1>11. ASSUME NEW v, Lives(v) PROVE Lives(v)'
  BY <1>4, <1>11 DEF Lives
<1>12. ASSUME NEW u \in ChatTurns PROVE AskedFine(u)'
  <2>1. AskedFine(u)  BY ChatTypes
  <2> QED BY <1>2, <1>11, <2>1 DEF AskedFine
<1>13. ASSUME NEW u \in ChatTurns PROVE AlongFine(u)'
  <2>1. AlongFine(u)  BY ChatTypes
  <2> QED BY <1>4, <2>1 DEF AlongFine
<1>14. HeldFine' /\ sessionHeld' \in HeldType
  <2>1. CASE sessionHeld' = sessionHeld
    <3>1. sessionHeld.id \in {NoTurn} \cup ChatTurns  BY <1>1 DEF HeldType
    <3> QED BY <1>1, <1>4, <1>11, <2>1, <3>1 DEF HeldFine
  <2>2. CASE /\ sessionHeld' = [id |-> chatTurn[t].session, by |-> t]
             /\ chatTurn[t].pc = "asked"
    <3>1. AskedFine(t) /\ AlongFine(t)  BY ChatTypes
    <3>2. PICK s \in ChatTurns : s = chatTurn[t].session /\ chatTurn[s].pc # "new"
      BY <1>3, <3>1 DEF AlongFine
    <3>3. t \notin chatHistory.stray => Lives(s)  BY <2>2, <3>1, <3>2 DEF AskedFine
    <3>4. sessionHeld'.id = s /\ sessionHeld'.by = t /\ sessionHeld' \in HeldType
      BY <2>2, <3>2 DEF HeldType
    <3> QED BY <1>4, <1>11, <3>2, <3>3, <3>4 DEF HeldFine
  <2> QED BY <2>1, <2>2
<1>15. ForgetFine'
  <2>1. forgetCall \in {NoTurn} \cup ChatTurns /\ chatHistory.forgotten \subseteq ChatTurns
    BY <1>1, ChatTypes DEF HistoryType
  <2> QED BY <1>1, <1>4, <2>1 DEF ForgetFine
<1>16. OneStreams'
  <2>1. CASE chatHistory.stale  BY <2>1 DEF OneStreams
  <2>2. CASE ~chatHistory.stale
    <3>1. \A u, v \in ChatTurns : Streams(chatTurn'[u].pc) /\ Streams(chatTurn'[v].pc) => u = v
      BY <1>1, <1>4, <2>2 DEF OneStreams
    <3>2. ~chatBusy' => \A u \in ChatTurns : ~Streams(chatTurn'[u].pc)
      <4>1. CASE chatBusy' = chatBusy  BY <1>1, <1>4, <2>2, <4>1 DEF OneStreams
      <4>2. CASE ~Streams(q.pc)
        <5>1. \A u \in ChatTurns : u # t => ~Streams(chatTurn[u].pc)
          BY <1>1, <2>2 DEF OneStreams
        <5> QED BY <1>2, <4>2, <5>1
      <4> QED BY <4>1, <4>2
    <3> QED BY <1>1, <2>2, <3>1, <3>2 DEF OneStreams
  <2> QED BY <2>1, <2>2
<1>17. chatBusy' \in BOOLEAN  BY <1>1
<1> QED BY <1>2, <1>6, <1>9, <1>10, <1>12, <1>13, <1>14, <1>15, <1>16, <1>17, ChatTypes, ChatTyped

\* What a patch may leave as it was.
LEMMA LastTyped ==
  ASSUME ChatInv
  PROVE  LastDone \in BOOLEAN /\ LastReceipt \in SUBSET Acts
<1>1. bubbles \in Seq(BubbleType)  BY ChatTypes
<1>2. CASE bubbles = <<>>  BY <1>2 DEF LastDone, LastReceipt
<1>3. CASE bubbles # <<>>
  <2>1. bubbles[Len(bubbles)] \in BubbleType  BY <1>1, <1>3
  <2> QED BY <1>3, <2>1 DEF LastDone, LastReceipt, BubbleType
<1> QED BY <1>2, <1>3

LEMMA GoesIs ==
  ASSUME ChatInv, NEW t \in ChatTurns, NEW pc \in {"new", "asked", "open", "renewing", "complete",
         "failing", "closing", "ended", "failed", "cut"}
  PROVE  \E q \in TurnType :
           /\ q.pc = pc /\ q.role = chatTurn[t].role /\ q.session = chatTurn[t].session
           /\ q.acts = chatTurn[t].acts
           /\ Goes(t, pc) => chatTurn' = [chatTurn EXCEPT ![t] = q]
<1> DEFINE q == [chatTurn[t] EXCEPT !.pc = pc]
<1>1. chatTurn[t] \in TurnType  BY ChatTypes
<1>2. /\ q \in TurnType /\ q.pc = pc /\ q.role = chatTurn[t].role
      /\ q.session = chatTurn[t].session /\ q.acts = chatTurn[t].acts
  BY <1>1 DEF TurnType
<1>3. Goes(t, pc) => chatTurn' = [chatTurn EXCEPT ![t] = q]  BY DEF Goes
<1> HIDE DEF q
<1> QED BY <1>2, <1>3

LEMMA DoesActIs ==
  ASSUME ChatInv, NEW t \in ChatTurns, NEW act \in Acts
  PROVE  \E q \in TurnType :
           /\ q.pc = chatTurn[t].pc /\ q.role = chatTurn[t].role
           /\ q.session = chatTurn[t].session
           /\ DoesAct(t, act) => chatTurn' = [chatTurn EXCEPT ![t] = q]
<1> DEFINE q == [chatTurn[t] EXCEPT !.acts = @ \cup {act}]
<1>1. chatTurn[t] \in TurnType  BY ChatTypes
<1>2. /\ q \in TurnType /\ q.pc = chatTurn[t].pc /\ q.role = chatTurn[t].role
      /\ q.session = chatTurn[t].session
  BY <1>1 DEF TurnType
<1>3. DoesAct(t, act) => chatTurn' = [chatTurn EXCEPT ![t] = q]  BY DEF DoesAct
<1> HIDE DEF q
<1> QED BY <1>2, <1>3

\* The session's name; the ticket that has died.
LEMMA HeadersKeep ==
  ASSUME ChatInv, NEW t \in ChatTurns, SessionEvent(t) \/ ExpiredEvent(t)
  PROVE  ChatInv'
<1>1. /\ chatRole' = chatRole /\ toggling' = toggling /\ forgetCall' = forgetCall
      /\ limitCall' = limitCall /\ presses' = presses /\ chatHistory' = chatHistory
      /\ chatBusy' = chatBusy /\ bubbles' = bubbles
  BY DEF SessionEvent, ExpiredEvent
<1>2. CASE SessionEvent(t)
  <2>1. /\ chatTurn[t].pc = "asked" /\ Goes(t, "open")
        /\ sessionHeld' = [id |-> chatTurn[t].session, by |-> t]
    BY <1>2 DEF SessionEvent
  <2>2. PICK q \in TurnType :
          /\ q.pc = "open" /\ q.role = chatTurn[t].role /\ q.session = chatTurn[t].session
          /\ chatTurn' = [chatTurn EXCEPT ![t] = q]
    BY <2>1, GoesIs
  <2>3. Streams(chatTurn[t].pc)  BY <2>1 DEF Streams
  <2> QED BY <1>1, <2>1, <2>2, <2>3, TurnMoves
<1>3. CASE ExpiredEvent(t)
  <2>1. chatTurn[t].pc = "open" /\ Goes(t, "renewing") /\ sessionHeld' = sessionHeld
    BY <1>3 DEF ExpiredEvent
  <2>2. PICK q \in TurnType :
          /\ q.pc = "renewing" /\ q.role = chatTurn[t].role /\ q.session = chatTurn[t].session
          /\ chatTurn' = [chatTurn EXCEPT ![t] = q]
    BY <2>1, GoesIs
  <2>3. Streams(chatTurn[t].pc)  BY <2>1 DEF Streams
  <2> QED BY <1>1, <2>1, <2>2, <2>3, TurnMoves
<1> QED BY <1>2, <1>3

\* Events that patch the bubble and close nothing.
LEMMA PiecesKeep ==
  ASSUME ChatInv, NEW t \in ChatTurns,
         \/ TextEvent(t) \/ ProductsEvent(t) \/ MemoryEvent(t) \/ ErrorEvent(t)
         \/ RenewalAnswered(t)
  PROVE  ChatInv'
<1>1. /\ chatRole' = chatRole /\ toggling' = toggling /\ forgetCall' = forgetCall
      /\ limitCall' = limitCall /\ presses' = presses /\ chatHistory' = chatHistory
      /\ chatBusy' = chatBusy /\ sessionHeld' = sessionHeld
  BY DEF TextEvent, ProductsEvent, MemoryEvent, ErrorEvent, RenewalAnswered
<1>2. PICK d \in BOOLEAN, r \in SUBSET Acts : bubbles' = Patched(t, d, r)
  <2>1. /\ LastDone \in BOOLEAN /\ LastReceipt \in SUBSET Acts  BY LastTyped
  <2>2. PICK d \in BOOLEAN, r \in SUBSET Acts : d = LastDone /\ r = LastReceipt  BY <2>1
  <2>3. bubbles' = Patched(t, LastDone, LastReceipt) \/ bubbles' = Patched(t, TRUE, LastReceipt)
    BY DEF TextEvent, ProductsEvent, MemoryEvent, ErrorEvent, RenewalAnswered
  <2>4. bubbles' = Patched(t, d, r) \/ bubbles' = Patched(t, TRUE, r)  BY <2>2, <2>3
  <2> QED BY <2>4
<1>3. /\ chatTurn[t].pc \in {"open", "complete", "renewing"} /\ Streams(chatTurn[t].pc)
      /\ chatTurn[t].pc \notin {"new", "asked", "closing", "ended", "cut"}
  BY DEF TextEvent, ProductsEvent, MemoryEvent, ErrorEvent, RenewalAnswered, Streams
<1>4. ASSUME NEW q \in TurnType, q.role = chatTurn[t].role, q.session = chatTurn[t].session,
             chatTurn' = [chatTurn EXCEPT ![t] = q],
             q.pc \notin {"new", "asked", "closing", "ended", "cut"}
      PROVE  ChatInv'
  BY <1>1, <1>2, <1>3, <1>4, TurnMoves
<1>5. CASE TextEvent(t)
  <2>1. chatTurn[t] \in TurnType /\ chatTurn \in [ChatTurns -> TurnType]  BY ChatTypes
  <2>2. chatTurn' = [chatTurn EXCEPT ![t] = chatTurn[t]]  BY <1>5, <2>1 DEF TextEvent
  <2>3. PICK q \in TurnType : q = chatTurn[t]  BY <2>1
  <2> QED BY <1>3, <1>4, <2>2, <2>3
<1>6. CASE ProductsEvent(t) \/ MemoryEvent(t)
  <2>1. PICK act \in Acts : DoesAct(t, act)  BY <1>6 DEF ProductsEvent, MemoryEvent, Acts
  <2>2. PICK q \in TurnType :
          /\ q.pc = chatTurn[t].pc /\ q.role = chatTurn[t].role
          /\ q.session = chatTurn[t].session /\ chatTurn' = [chatTurn EXCEPT ![t] = q]
    BY <2>1, DoesActIs
  <2> QED BY <1>3, <1>4, <2>2
<1>7. CASE ErrorEvent(t) \/ RenewalAnswered(t)
  <2>1. PICK pc \in {"failing", "complete"} : Goes(t, pc)
    BY <1>7 DEF ErrorEvent, RenewalAnswered
  <2>2. PICK q \in TurnType :
          /\ q.pc = pc /\ q.role = chatTurn[t].role
          /\ q.session = chatTurn[t].session /\ chatTurn' = [chatTurn EXCEPT ![t] = q]
    BY <2>1, GoesIs
  <2> QED BY <1>4, <2>2
<1> QED BY <1>5, <1>6, <1>7

LEMMA ClosedKeeps ==
  ASSUME ChatInv, NEW t \in ChatTurns, TurnClosed(t)
  PROVE  ChatInv'
<1>1. /\ chatRole' = chatRole /\ toggling' = toggling /\ forgetCall' = forgetCall
      /\ limitCall' = limitCall /\ presses' = presses /\ chatHistory' = chatHistory
      /\ chatBusy' = chatBusy /\ sessionHeld' = sessionHeld
      /\ bubbles' = Patched(t, TRUE, chatTurn[t].acts)
  BY DEF TurnClosed
<1>2. PICK pc \in {"complete", "closing"} : Goes(t, pc)  BY DEF TurnClosed
<1>3. PICK q \in TurnType :
        /\ q.pc = pc /\ q.role = chatTurn[t].role /\ q.acts = chatTurn[t].acts
        /\ q.session = chatTurn[t].session /\ chatTurn' = [chatTurn EXCEPT ![t] = q]
  BY <1>2, GoesIs
<1>4. q.acts \in SUBSET Acts  BY DEF TurnType
<1>5. \E d \in BOOLEAN, r \in SUBSET Acts :
        /\ bubbles' = Patched(t, d, r)
        /\ q.pc \in {"closing", "ended", "cut"} => d /\ r = q.acts
  BY <1>1, <1>3, <1>4
<1>6. Streams(chatTurn[t].pc)  BY DEF TurnClosed, Streams
<1>7. q.pc \notin {"new", "asked"}  BY <1>3
<1> QED BY <1>1, <1>3, <1>5, <1>6, <1>7, TurnMoves

LEMMA EndsKeeps ==
  ASSUME ChatInv, NEW t \in ChatTurns, StreamEnds(t)
  PROVE  ChatInv'
<1>1. /\ chatRole' = chatRole /\ toggling' = toggling /\ forgetCall' = forgetCall
      /\ limitCall' = limitCall /\ presses' = presses /\ chatHistory' = chatHistory
      /\ chatBusy' = FALSE /\ sessionHeld' = sessionHeld /\ bubbles' = bubbles
      /\ chatTurn[t].pc \in {"closing", "failing"}
  BY DEF StreamEnds
<1>2. PICK pc \in {"ended", "failed"} :
        Goes(t, pc) /\ (pc = "ended" => chatTurn[t].pc = "closing")
  BY <1>1 DEF StreamEnds
<1>3. PICK q \in TurnType :
        /\ q.pc = pc /\ q.role = chatTurn[t].role /\ q.acts = chatTurn[t].acts
        /\ q.session = chatTurn[t].session /\ chatTurn' = [chatTurn EXCEPT ![t] = q]
  BY <1>2, GoesIs
<1>4. Streams(chatTurn[t].pc) /\ ~Streams(q.pc)  BY <1>1, <1>3 DEF Streams
<1>5. q.pc \in {"closing", "ended", "cut"} =>
        chatTurn[t].pc \in {"closing", "ended", "cut"} /\ q.acts = chatTurn[t].acts
  BY <1>2, <1>3
<1>6. q.pc \notin {"new", "asked"}  BY <1>3
<1> QED BY <1>1, <1>3, <1>4, <1>5, <1>6, TurnMoves

LEMMA BreaksKeeps ==
  ASSUME ChatInv, NEW t \in ChatTurns, StreamBreaks(t)
  PROVE  ChatInv'
<1>1. /\ chatRole' = chatRole /\ toggling' = toggling /\ forgetCall' = forgetCall
      /\ limitCall' = limitCall /\ presses' = presses /\ chatHistory' = chatHistory
      /\ chatBusy' = FALSE /\ sessionHeld' = sessionHeld
      /\ bubbles' = Patched(t, TRUE, chatTurn[t].acts) /\ Goes(t, "cut")
      /\ chatTurn[t].pc \in {"asked", "open", "complete", "closing", "failing"}
  BY DEF StreamBreaks
<1>2. PICK q \in TurnType :
        /\ q.pc = "cut" /\ q.role = chatTurn[t].role /\ q.acts = chatTurn[t].acts
        /\ q.session = chatTurn[t].session /\ chatTurn' = [chatTurn EXCEPT ![t] = q]
  BY <1>1, GoesIs
<1>3. Streams(chatTurn[t].pc) /\ ~Streams(q.pc)  BY <1>1, <1>2 DEF Streams
<1>4. q.acts \in SUBSET Acts  BY DEF TurnType
<1>5. \E d \in BOOLEAN, r \in SUBSET Acts :
        /\ bubbles' = Patched(t, d, r)
        /\ q.pc \in {"closing", "ended", "cut"} => d /\ r = q.acts
  BY <1>1, <1>2, <1>4
<1>6. q.pc \notin {"new", "asked"}  BY <1>2
<1> QED BY <1>1, <1>2, <1>3, <1>5, <1>6, TurnMoves

-----------------------------------------------------------------------------
(* The page's other buttons.                                                *)

\* The page is cleared: what streams by then has strayed.
LEMMA ClearsKeep ==
  ASSUME ChatInv, NEW F \in SUBSET ChatTurns,
         \A f \in F : chatTurn[f].pc # "new", chatRole' \in Roles, bubbles' = <<>>,
         sessionHeld' = NoSession, chatHistory' = [Strays EXCEPT !.forgotten = F],
         chatHistory.forgotten \subseteq F,
         chatBusy' = chatBusy, chatTurn' = chatTurn, toggling' = toggling,
         limitCall' = limitCall, presses' \in 0 .. MaxPresses,
         forgetCall' \in {NoTurn} \cup ChatTurns,
         forgetCall' # NoTurn => chatTurn[forgetCall'].pc # "new"
  PROVE  ChatInv'
<1>1. chatHistory \in HistoryType  BY ChatTypes
<1>2. PICK S : S = chatHistory.stray \cup Streaming  OBVIOUS
<1>3. S \subseteq ChatTurns  BY <1>1, <1>2, WhoStreams DEF HistoryType
<1>4. /\ chatHistory' \in HistoryType /\ chatHistory'.crossed = chatHistory.crossed
      /\ chatHistory'.stray = S /\ chatHistory'.noted = chatHistory.noted
      /\ chatHistory'.stale = chatHistory.stale /\ chatHistory'.forgotten = F
  <2>1. chatHistory' = [chatHistory EXCEPT !.stray = S, !.forgotten = F]
    BY <1>2 DEF Strays
  <2> QED BY <1>1, <1>3, <2>1 DEF HistoryType
<1>5. bubbles' \in Seq(BubbleType) /\ Len(bubbles') = 0  OBVIOUS
<1>6. \A k \in 1 .. Len(bubbles') : BubbleFine(k)'  BY <1>5
<1>7. ASSUME NEW t \in ChatTurns PROVE LastFine(t)' /\ AskedFine(t)' /\ AlongFine(t)'
  <2>1. LastFine(t)'  BY DEF LastFine
  <2>2. AskedFine(t)'
    <3>1. chatTurn[t].pc = "asked" => t \in S  BY <1>2, WhoStreams DEF Streams
    <3> QED BY <1>4, <3>1 DEF AskedFine
  <2>3. AlongFine(t)'
    <3>1. AlongFine(t)  BY ChatTypes
    <3> QED BY <3>1 DEF AlongFine
  <2> QED BY <2>1, <2>2, <2>3
<1>8. sessionHeld' \in HeldType /\ sessionHeld'.id = NoTurn  BY DEF NoSession, HeldType
<1>9. HeldFine'  BY <1>8 DEF HeldFine
<1>10. ForgetFine'  BY <1>4 DEF ForgetFine
<1>11. OneStreams'
  <2>1. OneStreams  BY ChatTypes
  <2> QED BY <1>4, <2>1 DEF OneStreams
<1> QED BY <1>4, <1>5, <1>6, <1>7, <1>8, <1>9, <1>10, <1>11, ChatTypes, ChatTyped

LEMMA SwitchKeeps ==
  ASSUME ChatInv, NEW role \in Roles, SwitchRole(role)
  PROVE  ChatInv'
<1>1. /\ Press /\ chatRole' = role /\ bubbles' = <<>> /\ sessionHeld' = NoSession
      /\ chatHistory' = Strays /\ chatBusy' = chatBusy /\ chatTurn' = chatTurn
      /\ toggling' = toggling /\ forgetCall' = forgetCall /\ limitCall' = limitCall
  BY DEF SwitchRole
<1>2. presses' \in 0 .. MaxPresses  BY <1>1, PressTyped
<1>3. chatHistory \in HistoryType /\ ForgetFine /\ forgetCall \in {NoTurn} \cup ChatTurns
  BY ChatTypes
<1>4. PICK F \in SUBSET ChatTurns : F = chatHistory.forgotten  BY <1>3 DEF HistoryType
<1>5. chatHistory' = [Strays EXCEPT !.forgotten = F]
  BY <1>1, <1>3, <1>4 DEF Strays, HistoryType
<1>6. /\ \A f \in F : chatTurn[f].pc # "new"
      /\ forgetCall' \in {NoTurn} \cup ChatTurns
      /\ (forgetCall' # NoTurn => chatTurn[forgetCall'].pc # "new")
  BY <1>1, <1>3, <1>4 DEF ForgetFine
<1>7. chatRole' \in Roles  BY <1>1
<1> QED BY <1>1, <1>2, <1>4, <1>5, <1>6, <1>7, ClearsKeep

LEMMA ForgottenKeeps ==
  ASSUME ChatInv, ForgetAnswered
  PROVE  ChatInv'
<1>1. /\ forgetCall # NoTurn /\ forgetCall' = NoTurn /\ chatRole' = chatRole
      /\ chatBusy' = chatBusy /\ chatTurn' = chatTurn /\ toggling' = toggling
      /\ limitCall' = limitCall /\ presses' = presses
  BY DEF ForgetAnswered
<1>2. chatHistory \in HistoryType /\ ForgetFine /\ forgetCall \in {NoTurn} \cup ChatTurns
  BY ChatTypes
<1>3. CASE /\ sessionHeld' = NoSession /\ bubbles' = <<>>
           /\ chatHistory' = [Strays EXCEPT !.forgotten = @ \cup {forgetCall}]
  <2>1. Strays.forgotten = chatHistory.forgotten  BY <1>2 DEF Strays, HistoryType
  <2>2. PICK F \in SUBSET ChatTurns : F = chatHistory.forgotten \cup {forgetCall}
    BY <1>1, <1>2 DEF HistoryType
  <2>3. chatHistory' = [Strays EXCEPT !.forgotten = F]  BY <1>3, <2>1, <2>2
  <2>4. \A f \in F : chatTurn[f].pc # "new"  BY <1>1, <1>2, <2>2 DEF ForgetFine
  <2>5. chatHistory.forgotten \subseteq F  BY <2>2
  <2>6. /\ forgetCall' \in {NoTurn} \cup ChatTurns
        /\ (forgetCall' # NoTurn => chatTurn[forgetCall'].pc # "new")
    BY <1>1
  <2>7. chatRole' \in Roles /\ presses' \in 0 .. MaxPresses  BY <1>1, ChatTypes
  <2> QED BY <1>1, <1>3, <2>3, <2>4, <2>5, <2>6, <2>7, ClearsKeep
<1>4. CASE sessionHeld' = sessionHeld /\ bubbles' = bubbles /\ chatHistory' = chatHistory
  BY <1>1, <1>4, ChatTypes, ButtonOnly
<1> QED BY <1>3, <1>4 DEF ForgetAnswered

\* A refusal becomes the last bubble.
LEMMA NoticeKeeps ==
  ASSUME ChatInv, DelegationAnswered
  PROVE  ChatInv'
<1>1. /\ toggling' = FALSE /\ chatRole' = chatRole /\ chatBusy' = chatBusy
      /\ sessionHeld' = sessionHeld /\ chatTurn' = chatTurn /\ forgetCall' = forgetCall
      /\ limitCall' = limitCall /\ presses' = presses
  BY DEF DelegationAnswered
<1>2. /\ chatHistory \in HistoryType /\ ForgetFine /\ HeldFine /\ OneStreams
      /\ bubbles \in Seq(BubbleType)
  BY ChatTypes
<1>3. CASE bubbles' = bubbles /\ chatHistory' = chatHistory
  BY <1>1, <1>2, <1>3, ChatTypes, ButtonOnly DEF ForgetFine
<1>4. CASE /\ bubbles' = Append(bubbles,
                [turn |-> NoTurn, from |-> {}, done |-> TRUE, receipt |-> {}])
           /\ chatHistory' = [chatHistory EXCEPT !.noted = @ \cup Streaming]
  <2> DEFINE b == [turn |-> NoTurn, from |-> {}, done |-> TRUE, receipt |-> {}]
  <2>1. b \in BubbleType /\ b.turn = NoTurn  BY DEF BubbleType
  <2>2. bubbles' = Append(bubbles, b)  BY <1>4
  <2> HIDE DEF b
  <2>3. PICK n \in Nat : n = Len(bubbles)  BY <1>2
  <2>4. /\ bubbles' \in Seq(BubbleType) /\ Len(bubbles') = n + 1 /\ bubbles'[n + 1] = b
        /\ \A k \in 1 .. n : bubbles'[k] = bubbles[k]
    BY <1>2, <2>1, <2>2, <2>3
  <2>5. PICK N : N = chatHistory.noted \cup Streaming  OBVIOUS
  <2>6. N \subseteq ChatTurns  BY <1>2, <2>5, WhoStreams DEF HistoryType
  <2>7. /\ chatHistory' \in HistoryType /\ chatHistory'.crossed = chatHistory.crossed
        /\ chatHistory'.stray = chatHistory.stray /\ chatHistory'.noted = N
        /\ chatHistory'.stale = chatHistory.stale
        /\ chatHistory'.forgotten = chatHistory.forgotten
    <3>1. chatHistory' = [chatHistory EXCEPT !.noted = N]  BY <1>4, <2>5
    <3> QED BY <1>2, <2>6, <3>1 DEF HistoryType
  <2>8. ASSUME NEW k \in 1 .. Len(bubbles') PROVE BubbleFine(k)'
    <3>1. CASE k = n + 1  BY <2>1, <2>4, <3>1 DEF BubbleFine
    <3>2. CASE k # n + 1
      <4>1. k \in 1 .. n  BY <2>4, <3>2
      <4>2. BubbleFine(k) /\ bubbles[k] \in BubbleType /\ bubbles'[k] = bubbles[k]
        BY <2>3, <2>4, <4>1, ChatTypes
      <4>3. PICK u \in {NoTurn} \cup ChatTurns : u = bubbles[k].turn  BY <4>2 DEF BubbleType
      <4>4. u # NoTurn => (Streams(chatTurn[u].pc) => u \in N)  BY <2>5, <4>3, WhoStreams
      <4>5. u \notin N => u \notin chatHistory.noted  BY <2>5
      <4> QED BY <1>1, <2>7, <4>2, <4>3, <4>4, <4>5 DEF BubbleFine
    <3> QED BY <3>1, <3>2
  <2>9. ASSUME NEW t \in ChatTurns PROVE LastFine(t)' /\ AskedFine(t)' /\ AlongFine(t)'
    <3>1. LastFine(t)'  BY <2>1, <2>4 DEF LastFine
    <3>2. AskedFine(t) /\ AlongFine(t)  BY ChatTypes
    <3> QED BY <1>1, <2>7, <3>1, <3>2 DEF AskedFine, AlongFine, Lives
  <2>10. HeldFine' /\ ForgetFine' /\ OneStreams'
    BY <1>1, <1>2, <2>7 DEF HeldFine, ForgetFine, OneStreams, Lives
  <2> QED BY <1>1, <2>4, <2>7, <2>8, <2>9, <2>10, ChatTypes, ChatTyped
<1> QED BY <1>3, <1>4 DEF DelegationAnswered

-----------------------------------------------------------------------------
LEMMA ChatBegins ==
  ASSUME ChatInit
  PROVE  ChatInv
<1>1. /\ chatRole = "shop" /\ chatBusy = FALSE /\ bubbles = <<>> /\ sessionHeld = NoSession
      /\ chatTurn = [t \in ChatTurns |-> NewTurn] /\ toggling = FALSE /\ forgetCall = NoTurn
      /\ limitCall = NoLimitCall /\ presses = 0 /\ chatHistory = NoChatHistory
  BY DEF ChatInit
<1>2. /\ NewTurn \in TurnType /\ NewTurn.pc = "new" /\ NoSession \in HeldType
      /\ NoSession.id = NoTurn /\ NoLimitCall \in LimitCallType
      /\ NoChatHistory \in HistoryType /\ NoChatHistory.crossed = {}
      /\ NoChatHistory.forgotten = {} /\ chatRole \in Roles
  BY <1>1 DEF NewTurn, TurnType, NoSession, HeldType, NoLimitCall, LimitCallType, NoChatHistory,
              HistoryType, Roles
<1>3. bubbles \in Seq(BubbleType) /\ Len(bubbles) = 0 /\ DOMAIN bubbles = {}  BY <1>1
<1>4. chatTurn \in [ChatTurns -> TurnType] /\ \A t \in ChatTurns : chatTurn[t].pc = "new"
  BY <1>1, <1>2
<1>5. presses \in 0 .. MaxPresses  BY <1>1, ChatAssumption
<1>6. ChatTypeOK
  BY <1>1, <1>2, <1>3, <1>4, <1>5 DEF ChatTypeOK, TurnType, HeldType, LimitCallType
<1>7. \A t \in ChatTurns : LastFine(t) /\ AskedFine(t) /\ AlongFine(t)
  BY <1>4 DEF LastFine, AskedFine, AlongFine, Streams
<1>8. HeldFine /\ ForgetFine /\ OneStreams
  BY <1>1, <1>2, <1>4 DEF HeldFine, ForgetFine, OneStreams, Streams
<1> QED BY <1>1, <1>2, <1>3, <1>6, <1>7, <1>8 DEF ChatInv

LEMMA ChatStep ==
  ASSUME ChatInv, ChatNext
  PROVE  ChatInv'
<1>1. ASSUME NEW t \in ChatTurns,
             \/ Send(t) \/ SessionEvent(t) \/ TextEvent(t) \/ ProductsEvent(t) \/ MemoryEvent(t)
             \/ TurnClosed(t) \/ ErrorEvent(t) \/ ExpiredEvent(t) \/ RenewalAnswered(t)
             \/ StreamEnds(t) \/ StreamBreaks(t)
      PROVE  ChatInv'
  BY <1>1, SendKeeps, HeadersKeep, PiecesKeep, ClosedKeeps, EndsKeeps, BreaksKeeps
<1>2. CASE AskLimit \/ AskDelegation \/ AskForget  BY <1>2, AsksKeep
<1>3. CASE LimitAnswered  BY <1>3, LimitKeeps
<1>4. CASE \E role \in Roles : SwitchRole(role)  BY <1>4, SwitchKeeps
<1>5. CASE DelegationAnswered \/ ForgetAnswered  BY <1>5, NoticeKeeps, ForgottenKeeps
<1> QED BY <1>1, <1>2, <1>3, <1>4, <1>5 DEF ChatNext

LEMMA ChatRests ==
  ASSUME ChatInv, UNCHANGED chatVars
  PROVE  ChatInv'
<1>1. /\ chatRole' = chatRole /\ chatBusy' = chatBusy /\ bubbles' = bubbles
      /\ sessionHeld' = sessionHeld /\ chatTurn' = chatTurn /\ chatHistory' = chatHistory
      /\ toggling' = toggling /\ limitCall' = limitCall /\ presses' = presses
      /\ forgetCall' = forgetCall
  BY DEF chatVars
<1>2. ForgetFine  BY ChatTypes
<1> QED BY <1>1, <1>2, ChatTypes, ButtonOnly DEF ForgetFine

LEMMA ChatMeansSound ==
  ASSUME ChatInv
  PROVE  ChatTypeOK /\ ChatSound
<1>1. ChatTypeOK  BY DEF ChatInv
<1>2. /\ bubbles \in Seq(BubbleType) /\ OneStreams /\ HeldFine
      /\ \A k \in DOMAIN bubbles : BubbleFine(k) /\ bubbles[k] \in BubbleType
  BY ChatTypes
<1>3. AnswersApart  BY <1>2 DEF AnswersApart, BubbleFine, OneStreams
<1>4. AnswersClosed
  <2>1. ASSUME NEW k \in DOMAIN bubbles, NEW t \in ChatTurns, t = bubbles[k].turn,
               t \notin chatHistory.crossed, t \notin chatHistory.noted
        PROVE  /\ chatTurn[t].pc \in {"ended", "cut"} =>
                    bubbles[k].done /\ bubbles[k].receipt = chatTurn[t].acts
               /\ ~bubbles[k].done => t \in Streaming \/ chatTurn[t].pc = "failed"
    <3>1. BubbleFine(k) /\ t # NoTurn  BY <1>2, <2>1, TurnsAreNumbers
    <3>2. /\ chatTurn[t].pc # "new"
          /\ chatTurn[t].pc \in {"closing", "ended", "cut"} =>
               bubbles[k].done /\ bubbles[k].receipt = chatTurn[t].acts
      BY <2>1, <3>1 DEF BubbleFine
    <3> QED BY <3>2 DEF Streaming
  <2>2. \A k \in DOMAIN bubbles : bubbles[k].turn # NoTurn => bubbles[k].turn \in ChatTurns
    BY <1>2 DEF BubbleType
  <2> QED BY <2>1, <2>2 DEF AnswersClosed
<1>5. SessionFits  BY <1>2 DEF SessionFits, HeldFine, Lives
<1> QED BY <1>1, <1>3, <1>4, <1>5 DEF ChatSound

\* The state of the page /agent keeps its types: its tab, bubbles, session and calls under way
\* (useAgentChat.tsx, page.tsx), whichever stream an event comes from.
THEOREM ChatKeepsTypes == ChatSpec => []ChatTypeOK
<1>1. ChatInit => ChatInv  BY ChatBegins
<1>2. ChatInv /\ [ChatNext]_chatVars => ChatInv'  BY ChatStep, ChatRests
<1>3. ChatInv => ChatTypeOK  BY ChatMeansSound
<1> QED BY <1>1, <1>2, <1>3, PTL DEF ChatSpec

\* In the chat of useAgentChat.tsx, which patches whatever bubble is last: an answer holds events of
\* its own turn only, unless a limit's message of an older render let two turns stream; it ends
\* closed, with a receipt of all the turn did, unless a notice or another turn came between; and
\* the session held is one of the tab shown and not forgotten, but for turns the page was switched
\* or cleared under.  For any number of turns and presses.
THEOREM ChatIsSound == ChatSpec => []ChatSound
<1>1. ChatInit => ChatInv  BY ChatBegins
<1>2. ChatInv /\ [ChatNext]_chatVars => ChatInv'  BY ChatStep, ChatRests
<1>3. ChatInv => ChatSound  BY ChatMeansSound
<1> QED BY <1>1, <1>2, <1>3, PTL DEF ChatSpec

-----------------------------------------------------------------------------
(***************************************************************************)
(* Invoices (Invoices).                                                    *)
(***************************************************************************)
UnderWay(c) == issuing[c].pc \in {"asked", "drawn"}

\* A mark to be made says which, and ISSUED has a number.
MarkFits(page) == page.to = "FAILED" \/ (page.to = "ISSUED" /\ page.num # NoNumber)

\* Numbers come from the provider; who issues is in the call, and there is a row.
InvoiceBooks ==
  /\ invoiceRow.number <= legal /\ (invoiceRow.status = "ISSUED" => legal > 0)
  /\ \A c \in IssueCallers :
       /\ issuing[c].num <= legal /\ (issuing[c].pc = "drawn" => legal > 0)
       /\ issuing[c].pc # "idle" => invoiceRow.status # "none"
  /\ \A k \in Clerks :
       /\ clerk[k].num <= legal
       /\ clerk[k].pc \in {"mark", "write"} => MarkFits(clerk[k])
       /\ issuing[k].pc # "idle" => clerk[k].pc = "issue"
       /\ clerk[k].pc # "loading" => invoiceRow.status # "none"

\* One invoice, that one caller is after or has, or a clerk, or the row.
OneOnItsWay ==
  /\ legal <= 1
  /\ \A c \in IssueCallers : issuing[c].pc = "asked" => legal = 0
  /\ \A c, d \in IssueCallers : UnderWay(c) /\ UnderWay(d) => c = d
  /\ legal > 0 /\ ~IssueUnderWay /\ ~InHand => invoiceRow.status = "ISSUED"

InvoiceInv == InvoiceTypeOK /\ InvoiceBooks /\ (~excused => OneOnItsWay)

-----------------------------------------------------------------------------
Issues == [pc : {"idle", "begin", "asked", "drawn"}, num : 0 .. MaxLegal]
ClerkPages == [pc : {"loading", "open", "retry", "issue", "mark", "write"},
               shown : InvoiceStatus, num : 0 .. MaxLegal, to : {"none", "ISSUED", "FAILED"}]

LEMMA InvoiceTypes ==
  ASSUME InvoiceTypeOK
  PROVE  /\ MaxLegal \in Nat /\ MaxLegal > 0 /\ legal \in Nat /\ legal <= MaxLegal
         /\ provider \in BOOLEAN /\ excused \in BOOLEAN
         /\ invoiceRow.status \in InvoiceStatus /\ invoiceRow.number \in 0 .. MaxLegal
         /\ issuing \in [IssueCallers -> Issues] /\ clerk \in [Clerks -> ClerkPages]
         /\ \A c \in IssueCallers : issuing[c] \in Issues /\ issuing[c].num \in Nat
                                    /\ issuing[c].pc \in {"idle", "begin", "asked", "drawn"}
         /\ \A k \in Clerks : k \in IssueCallers /\ clerk[k] \in ClerkPages /\ clerk[k].num \in Nat
                              /\ clerk[k].to \in {"none", "ISSUED", "FAILED"}
         /\ \A c \in InvCallbacks : c \in IssueCallers /\ c \notin Clerks
BY InvoicesAssumption DEF InvoiceTypeOK, Issues, ClerkPages, IssueCallers, InvoiceStatus

LEMMA NewPageFacts ==
  /\ NewPage \in ClerkPages /\ NewPage.pc = "loading" /\ NewPage.num = 0
  /\ NotIssuing \in Issues /\ NotIssuing.pc = "idle" /\ NotIssuing.num = 0
BY InvoicesAssumption DEF NewPage, NotIssuing, ClerkPages, Issues, InvoiceStatus, NoNumber

\* One caller's issue is set, one clerk's page.
IssueSet(c, r) ==
  /\ issuing' \in [IssueCallers -> Issues] /\ issuing'[c] = r
  /\ \A d \in IssueCallers : d # c => issuing'[d] = issuing[d]
PageSet(k, r) ==
  /\ clerk' \in [Clerks -> ClerkPages] /\ clerk'[k] = r
  /\ \A j \in Clerks : j # k => clerk'[j] = clerk[j]

LEMMA IssueIsSet ==
  ASSUME InvoiceTypeOK, NEW c \in IssueCallers, NEW r \in Issues,
         issuing' = [issuing EXCEPT ![c] = r]
  PROVE  IssueSet(c, r)
BY InvoiceTypes DEF IssueSet

LEMMA PageIsPut ==
  ASSUME InvoiceTypeOK, NEW k \in Clerks, NEW r \in ClerkPages, clerk' = [clerk EXCEPT ![k] = r]
  PROVE  PageSet(k, r)
BY InvoiceTypes DEF PageSet

\* The books, and the way of the one invoice, as facts of the next state.
LEMMA InvoiceKept ==
  ASSUME provider' \in BOOLEAN, excused' \in BOOLEAN,
         invoiceRow' \in [status : InvoiceStatus, number : 0 .. MaxLegal], legal' \in 0 .. MaxLegal,
         ensuring' \in [InvCallbacks -> {"idle", "absent", "issue", "done"}],
         issuing' \in [IssueCallers -> Issues], clerk' \in [Clerks -> ClerkPages],
         InvoiceBooks', ~excused' => OneOnItsWay'
  PROVE  InvoiceInv'
BY DEF InvoiceInv, InvoiceTypeOK, Issues, ClerkPages

\* A call ends.
LEMMA IssueIsOver ==
  ASSUME InvoiceInv, NEW c \in IssueCallers, IssueEnds(c)
  PROVE  /\ IssueSet(c, NotIssuing)
         /\ clerk' \in [Clerks -> ClerkPages]
         /\ \A k \in Clerks :
              /\ clerk'[k].num = clerk[k].num
              /\ k # c => clerk'[k] = clerk[k]
              /\ k = c => clerk'[k].pc = "loading"
         /\ ensuring' \in [InvCallbacks -> {"idle", "absent", "issue", "done"}]
<1>1. InvoiceTypeOK  BY DEF InvoiceInv
<1>2. IssueSet(c, NotIssuing)  BY <1>1, IssueIsSet, NewPageFacts DEF IssueEnds
<1>3. ensuring' \in [InvCallbacks -> {"idle", "absent", "issue", "done"}]
  BY <1>1 DEF IssueEnds, InvoiceTypeOK
<1>4. CASE c \in Clerks
  <2> DEFINE r == [clerk[c] EXCEPT !.pc = "loading"]
  <2>1. r \in ClerkPages /\ r.pc = "loading" /\ r.num = clerk[c].num
    BY <1>1, <1>4, InvoiceTypes DEF ClerkPages
  <2>2. clerk' = [clerk EXCEPT ![c] = r]  BY <1>4 DEF IssueEnds
  <2> HIDE DEF r
  <2>3. PageSet(c, r)  BY <1>1, <1>4, <2>1, <2>2, PageIsPut
  <2> QED BY <1>2, <1>3, <2>1, <2>3 DEF PageSet
<1>5. CASE c \notin Clerks
  <2>1. clerk' = clerk  BY <1>5 DEF IssueEnds
  <2> QED BY <1>1, <1>2, <1>3, <1>5, <2>1, InvoiceTypes
<1> QED BY <1>4, <1>5

LEMMA FindKeeps ==
  ASSUME InvoiceInv, NEW c \in InvCallbacks, FindInvoice(c)
  PROVE  InvoiceInv'
<1>1. /\ provider' = provider /\ invoiceRow' = invoiceRow /\ legal' = legal /\ issuing' = issuing
      /\ clerk' = clerk /\ excused' = excused
      /\ ensuring' \in [InvCallbacks -> {"idle", "absent", "issue", "done"}]
  BY DEF FindInvoice, InvoiceInv, InvoiceTypeOK
<1> QED
  BY <1>1 DEF InvoiceInv, InvoiceTypeOK, InvoiceBooks, OneOnItsWay, UnderWay, IssueUnderWay, InHand

LEMMA CreateKeeps ==
  ASSUME InvoiceInv, NEW c \in InvCallbacks, CreateInvoice(c)
  PROVE  InvoiceInv'
<1>1. /\ provider' = provider /\ legal' = legal /\ clerk' = clerk /\ excused' = excused
      /\ ensuring' \in [InvCallbacks -> {"idle", "absent", "issue", "done"}]
  BY DEF CreateInvoice, InvoiceInv, InvoiceTypeOK
<1>2. CASE invoiceRow' = invoiceRow /\ issuing' = issuing
  BY <1>1, <1>2 DEF InvoiceInv, InvoiceTypeOK, InvoiceBooks, OneOnItsWay, UnderWay, IssueUnderWay,
                    InHand
<1>3. CASE /\ invoiceRow.status = "none"
           /\ invoiceRow' = [status |-> "PENDING_ISSUE", number |-> NoNumber]
           /\ issuing' = [issuing EXCEPT ![c].pc = "begin"] \/ issuing' = issuing
  <2>1. InvoiceTypeOK /\ InvoiceBooks  BY DEF InvoiceInv
  <2>2. \A d \in IssueCallers : issuing[d].pc = "idle" /\ issuing[d].num <= legal
    BY <1>3, <2>1 DEF InvoiceBooks
  <2>3. /\ issuing' \in [IssueCallers -> Issues]
        /\ \A d \in IssueCallers :
             issuing'[d].num <= legal /\ issuing'[d].pc \in {"idle", "begin"}
             /\ (d # c => issuing'[d] = issuing[d])
    <3>1. CASE issuing' = issuing  BY <2>1, <2>2, <3>1, InvoiceTypes
    <3>2. CASE issuing' = [issuing EXCEPT ![c].pc = "begin"]
      <4> DEFINE r == [issuing[c] EXCEPT !.pc = "begin"]
      <4>1. c \in IssueCallers /\ issuing[c] \in Issues  BY <2>1, InvoiceTypes
      <4>2. r \in Issues /\ r.num = issuing[c].num /\ r.pc = "begin"  BY <4>1 DEF Issues
      <4>3. issuing' = [issuing EXCEPT ![c] = r]  BY <3>2
      <4> HIDE DEF r
      <4>4. IssueSet(c, r)  BY <2>1, <4>1, <4>2, <4>3, IssueIsSet
      <4> QED BY <2>2, <4>1, <4>2, <4>4 DEF IssueSet
    <3> QED BY <1>3, <3>1, <3>2
  <2>4. /\ invoiceRow' \in [status : InvoiceStatus, number : 0 .. MaxLegal]
        /\ invoiceRow'.status = "PENDING_ISSUE" /\ invoiceRow'.number = 0
    BY <1>3, InvoicesAssumption DEF InvoiceStatus, NoNumber
  <2>5. InvoiceBooks'
    <3>1. ASSUME NEW k \in Clerks
          PROVE  /\ clerk[k].pc = "loading"
                 /\ issuing'[k].pc # "idle" => clerk'[k].pc = "issue"
      BY <1>1, <1>3, <2>1, <2>2, <2>3, InvoiceTypes DEF InvoiceBooks
    <3>2. legal \in Nat /\ \A d \in IssueCallers : issuing'[d].pc # "drawn"
      BY <2>1, <2>3, InvoiceTypes
    <3> QED BY <1>1, <2>1, <2>3, <2>4, <3>1, <3>2 DEF InvoiceBooks
  <2>6. ~excused => OneOnItsWay'
    <3>1. IssueUnderWay' <=> IssueUnderWay
      BY <2>2, <2>3 DEF IssueUnderWay
    <3>2. \A d \in IssueCallers : ~UnderWay(d)'  BY <2>3 DEF UnderWay
    <3>3. \A d \in IssueCallers : issuing'[d].pc # "asked"  BY <2>3
    <3>4. legal > 0 /\ ~IssueUnderWay /\ ~InHand => excused
      BY <1>3 DEF InvoiceInv, OneOnItsWay
    <3>5. InHand' <=> InHand  BY <1>1 DEF InHand
    <3> QED BY <1>1, <3>1, <3>2, <3>3, <3>4, <3>5 DEF OneOnItsWay, InvoiceInv
  <2> QED BY <1>1, <2>1, <2>3, <2>4, <2>5, <2>6, InvoiceKept, InvoiceTypes
        DEF InvoiceTypeOK
<1> QED BY <1>2, <1>3 DEF CreateInvoice

-----------------------------------------------------------------------------
(* issueViaProvider.                                                        *)

LEMMA CallEndKeeps ==
  ASSUME InvoiceInv, NEW c \in IssueCallers, IssueEnds(c), provider' = provider, legal' = legal,
         invoiceRow' \in [status : InvoiceStatus, number : 0 .. MaxLegal],
         invoiceRow' = invoiceRow \/
           (invoiceRow'.status = "ISSUED" /\ invoiceRow'.number <= legal /\ legal > 0),
         excused' \in BOOLEAN, excused => excused',
         ~excused' /\ issuing[c].pc = "drawn" => invoiceRow'.status = "ISSUED"
  PROVE  InvoiceInv'
<1>1. InvoiceTypeOK /\ InvoiceBooks /\ legal \in Nat  BY InvoiceTypes DEF InvoiceInv
<1>2. /\ IssueSet(c, NotIssuing) /\ clerk' \in [Clerks -> ClerkPages]
      /\ \A k \in Clerks :
           /\ clerk'[k].num = clerk[k].num
           /\ k # c => clerk'[k] = clerk[k]
           /\ k = c => clerk'[k].pc = "loading"
      /\ ensuring' \in [InvCallbacks -> {"idle", "absent", "issue", "done"}]
  BY IssueIsOver
<1>3. NotIssuing.pc = "idle" /\ NotIssuing.num = 0  BY NewPageFacts
<1>4. ASSUME NEW d \in IssueCallers
      PROVE  /\ d = c => issuing'[d].pc = "idle" /\ issuing'[d].num = 0
             /\ d # c => issuing'[d] = issuing[d]
  BY <1>2, <1>3 DEF IssueSet
<1>5. InvoiceBooks'
  <2>1. ASSUME NEW d \in IssueCallers
        PROVE  /\ issuing'[d].num <= legal' /\ (issuing'[d].pc = "drawn" => legal' > 0)
               /\ issuing'[d].pc # "idle" => invoiceRow'.status # "none"
    BY <1>1, <1>4 DEF InvoiceBooks
  <2>2. ASSUME NEW k \in Clerks
        PROVE  /\ clerk'[k].num <= legal'
               /\ clerk'[k].pc \in {"mark", "write"} => MarkFits(clerk'[k])
               /\ issuing'[k].pc # "idle" => clerk'[k].pc = "issue"
               /\ clerk'[k].pc # "loading" => invoiceRow'.status # "none"
    BY <1>1, <1>2, <1>4, InvoiceTypes DEF InvoiceBooks
  <2>3. invoiceRow'.number <= legal' /\ (invoiceRow'.status = "ISSUED" => legal' > 0)
    BY <1>1 DEF InvoiceBooks
  <2> QED BY <2>1, <2>2, <2>3 DEF InvoiceBooks
<1>6. ASSUME ~excused' PROVE OneOnItsWay'
  <2>1. OneOnItsWay  BY <1>6 DEF InvoiceInv
  <2>2. ASSUME NEW d \in IssueCallers, UnderWay(d)' PROVE UnderWay(d) /\ d # c
    BY <1>4, <2>2 DEF UnderWay
  <2>3. \A d \in IssueCallers : issuing'[d].pc = "asked" => issuing[d].pc = "asked"
    BY <1>4
  <2>4. \A d, e \in IssueCallers : UnderWay(d)' /\ UnderWay(e)' => d = e
    BY <2>1, <2>2 DEF OneOnItsWay
  <2>5. InHand' <=> InHand  BY <1>2 DEF InHand
  <2>6. ASSUME legal' > 0, ~IssueUnderWay', ~InHand' PROVE invoiceRow'.status = "ISSUED"
    <3>1. \A d \in IssueCallers : d # c => ~UnderWay(d)
      BY <1>4, <2>6 DEF IssueUnderWay, UnderWay
    <3>2. CASE issuing[c].pc = "drawn"  BY <1>6, <3>2
    <3>3. CASE issuing[c].pc = "asked"
      <4>1. legal = 0  BY <2>1, <3>3 DEF OneOnItsWay
      <4> QED BY <1>1, <2>6, <4>1
    <3>4. CASE issuing[c].pc \notin {"asked", "drawn"}
      <4>1. ~IssueUnderWay  BY <3>1, <3>4 DEF IssueUnderWay, UnderWay
      <4> QED BY <2>1, <2>5, <2>6, <4>1 DEF OneOnItsWay
    <3> QED BY <3>2, <3>3, <3>4
  <2> QED BY <2>1, <2>3, <2>4, <2>6 DEF OneOnItsWay
<1> QED BY <1>1, <1>2, <1>5, <1>6, InvoiceKept DEF InvoiceTypeOK, IssueSet

LEMMA EndsKeep ==
  ASSUME InvoiceInv, NEW c \in IssueCallers, ProviderFails(c) \/ RecordIssued(c) \/ AnswerLost(c)
  PROVE  InvoiceInv'
<1>1. InvoiceTypeOK /\ InvoiceBooks  BY DEF InvoiceInv
<1>2. CASE ProviderFails(c) \/ AnswerLost(c)
  <2>1. /\ provider' = provider /\ legal' = legal /\ invoiceRow' = invoiceRow /\ IssueEnds(c)
        /\ excused' = excused \/ excused' = TRUE
        /\ issuing[c].pc = "asked" \/ excused' = TRUE
    BY <1>2 DEF ProviderFails, AnswerLost
  <2>2. excused' \in BOOLEAN /\ (excused => excused')
    <3>1. excused \in BOOLEAN  BY <1>1, InvoiceTypes
    <3>2. CASE excused' = excused  BY <3>1, <3>2
    <3>3. CASE excused' = TRUE  BY <3>3
    <3> QED BY <2>1, <3>2, <3>3
  <2>3. ~excused' /\ issuing[c].pc = "drawn" => invoiceRow'.status = "ISSUED"  BY <2>1
  <2>4. invoiceRow' \in [status : InvoiceStatus, number : 0 .. MaxLegal]
    BY <1>1, <2>1 DEF InvoiceTypeOK
  <2> QED BY <2>1, <2>2, <2>3, <2>4, CallEndKeeps
<1>3. CASE RecordIssued(c)
  <2>1. PICK n \in {issuing[c].num, NoNumber} : invoiceRow' = [status |-> "ISSUED", number |-> n]
    BY <1>3 DEF RecordIssued
  <2>2. /\ provider' = provider /\ legal' = legal /\ excused' = excused /\ IssueEnds(c)
        /\ issuing[c].pc = "drawn"
    BY <1>3 DEF RecordIssued
  <2>3. issuing[c].num <= legal /\ legal > 0 /\ issuing[c] \in Issues /\ legal \in Nat
    BY <1>1, <2>2, InvoiceTypes DEF InvoiceBooks
  <2>4. n \in 0 .. MaxLegal /\ n <= legal
    BY <2>1, <2>3, InvoicesAssumption DEF Issues, NoNumber
  <2>5. /\ invoiceRow' \in [status : InvoiceStatus, number : 0 .. MaxLegal]
        /\ invoiceRow'.status = "ISSUED" /\ invoiceRow'.number = n
    BY <2>1, <2>4 DEF InvoiceStatus
  <2>6. excused' \in BOOLEAN /\ (excused => excused')  BY <1>1, <2>2, InvoiceTypes
  <2> QED BY <2>2, <2>3, <2>4, <2>5, <2>6, CallEndKeeps
<1> QED BY <1>2, <1>3

LEMMA BeginKeeps ==
  ASSUME InvoiceInv, NEW c \in IssueCallers, BeginIssue(c)
  PROVE  InvoiceInv'
<1>1. /\ InvoiceTypeOK /\ InvoiceBooks /\ legal \in Nat /\ issuing[c] \in Issues
      /\ issuing[c].pc = "begin"
  BY InvoiceTypes DEF InvoiceInv, BeginIssue
<1>2. /\ provider' = provider /\ invoiceRow' = invoiceRow /\ legal' = legal
  BY DEF BeginIssue
<1>3. CASE IssueEnds(c) /\ excused' = excused
  <2>1. excused' \in BOOLEAN /\ (excused => excused')  BY <1>1, <1>3, InvoiceTypes
  <2>2. invoiceRow' \in [status : InvoiceStatus, number : 0 .. MaxLegal]
    BY <1>1, <1>2 DEF InvoiceTypeOK
  <2> QED BY <1>1, <1>2, <1>3, <2>1, <2>2, CallEndKeeps
<1>4. CASE /\ invoiceRow.status # "ISSUED"
           /\ issuing' = [issuing EXCEPT ![c].pc = "asked"]
           /\ excused' = (excused \/ IssueUnderWay \/ InHand)
           /\ UNCHANGED <<ensuring, clerk>>
  <2> DEFINE r == [issuing[c] EXCEPT !.pc = "asked"]
  <2>1. r \in Issues /\ r.pc = "asked" /\ r.num = issuing[c].num  BY <1>1 DEF Issues
  <2>2. issuing' = [issuing EXCEPT ![c] = r]  BY <1>4
  <2> HIDE DEF r
  <2>3. /\ issuing' \in [IssueCallers -> Issues] /\ issuing'[c] = r
        /\ \A d \in IssueCallers : d # c => issuing'[d] = issuing[d]
    BY <1>1, <2>1, <2>2, IssueIsSet DEF IssueSet
  <2>4. ensuring' = ensuring /\ clerk' = clerk  BY <1>4
  <2>5. InvoiceBooks'
    <3>1. ASSUME NEW d \in IssueCallers
          PROVE  /\ issuing'[d].num <= legal /\ (issuing'[d].pc = "drawn" => legal > 0)
                 /\ issuing'[d].pc # "idle" => issuing[d].pc # "idle"
      BY <1>1, <2>1, <2>3 DEF InvoiceBooks
    <3> QED BY <1>1, <1>2, <2>4, <3>1, InvoiceTypes DEF InvoiceBooks
  <2>6. ASSUME ~excused' PROVE OneOnItsWay'
    <3>1. ~excused /\ ~IssueUnderWay /\ ~InHand  BY <1>1, <1>4, <2>6, InvoiceTypes
    <3>2. OneOnItsWay  BY <3>1 DEF InvoiceInv
    <3>3. legal = 0  BY <1>1, <1>4, <3>1, <3>2 DEF OneOnItsWay
    <3>4. \A d \in IssueCallers : UnderWay(d)' => d = c
      BY <2>3, <3>1 DEF UnderWay, IssueUnderWay
    <3> QED BY <1>2, <3>3, <3>4 DEF OneOnItsWay
  <2>7. excused' \in BOOLEAN  BY <1>4
  <2> QED BY <1>1, <1>2, <2>3, <2>4, <2>5, <2>6, <2>7, InvoiceKept, InvoiceTypes DEF InvoiceTypeOK
<1> QED BY <1>2, <1>3, <1>4 DEF BeginIssue

LEMMA DrawsKeeps ==
  ASSUME InvoiceInv, NEW c \in IssueCallers, ProviderDraws(c)
  PROVE  InvoiceInv'
<1> DEFINE r == [pc |-> "drawn", num |-> legal + 1]
<1>1. /\ InvoiceTypeOK /\ InvoiceBooks /\ legal \in Nat /\ MaxLegal \in Nat
  BY InvoiceTypes DEF InvoiceInv
<1>2. /\ issuing[c].pc = "asked" /\ legal < MaxLegal /\ legal' = legal + 1
      /\ issuing' = [issuing EXCEPT ![c] = r]
      /\ provider' = provider /\ invoiceRow' = invoiceRow /\ ensuring' = ensuring
      /\ clerk' = clerk /\ excused' = excused
  BY DEF ProviderDraws
<1>3. r \in Issues /\ r.pc = "drawn" /\ r.num = legal + 1  BY <1>1, <1>2 DEF Issues
<1> HIDE DEF r
<1>4. /\ issuing' \in [IssueCallers -> Issues] /\ issuing'[c] = r
      /\ \A d \in IssueCallers : d # c => issuing'[d] = issuing[d]
  BY <1>1, <1>2, <1>3, IssueIsSet DEF IssueSet
<1>5. InvoiceBooks'
  <2>1. ASSUME NEW d \in IssueCallers
        PROVE  /\ issuing'[d].num <= legal' /\ legal' > 0
               /\ issuing'[d].pc # "idle" => issuing[d].pc # "idle"
    BY <1>1, <1>2, <1>3, <1>4, InvoiceTypes DEF InvoiceBooks
  <2>2. \A n \in Nat : n <= legal => n <= legal'  BY <1>1, <1>2
  <2>3. invoiceRow.number \in Nat  BY <1>1, InvoiceTypes
  <2>4. \A k \in Clerks : clerk[k].num <= legal' /\ k \in IssueCallers
    BY <1>1, <2>2, InvoiceTypes DEF InvoiceBooks
  <2>5. invoiceRow.number <= legal' /\ legal' > 0  BY <1>1, <1>2, <2>2, <2>3 DEF InvoiceBooks
  <2> QED BY <1>1, <1>2, <2>1, <2>4, <2>5 DEF InvoiceBooks
<1>6. ASSUME ~excused' PROVE OneOnItsWay'
  <2>1. OneOnItsWay  BY <1>2, <1>6 DEF InvoiceInv
  <2>2. legal = 0  BY <1>2, <2>1 DEF OneOnItsWay
  <2>3. \A d \in IssueCallers : UnderWay(d) => d = c  BY <1>2, <2>1 DEF OneOnItsWay, UnderWay
  <2>4. \A d \in IssueCallers : UnderWay(d)' => d = c  BY <1>4, <2>3 DEF UnderWay
  <2>5. \A d \in IssueCallers : issuing'[d].pc # "asked"
    BY <1>3, <1>4, <2>3 DEF UnderWay
  <2>6. IssueUnderWay'  BY <1>3, <1>4 DEF IssueUnderWay
  <2> QED BY <1>2, <2>2, <2>4, <2>5, <2>6 DEF OneOnItsWay
<1> QED BY <1>1, <1>2, <1>4, <1>5, <1>6, InvoiceKept, InvoiceTypes DEF InvoiceTypeOK

-----------------------------------------------------------------------------
(* The accountant's page.                                                   *)

\* A page goes on with the number it has; it lays it down when the row is ISSUED.
GoesOn(k, r) ==
  /\ r.num = clerk[k].num \/ (invoiceRow.status = "ISSUED" /\ r.num = 0)
  /\ r.pc \in {"mark", "write"} => MarkFits(r)
  /\ r.pc # "loading" => invoiceRow.status # "none"

LEMMA PageKeeps ==
  ASSUME InvoiceInv, NEW k \in Clerks, NEW r \in ClerkPages, clerk' = [clerk EXCEPT ![k] = r],
         clerk[k].pc # "issue", GoesOn(k, r),
         provider' = provider, invoiceRow' = invoiceRow, legal' = legal, ensuring' = ensuring,
         issuing' = issuing, excused' = excused
  PROVE  InvoiceInv'
<1>1. /\ InvoiceTypeOK /\ InvoiceBooks /\ legal \in Nat  BY InvoiceTypes DEF InvoiceInv
<1>2. /\ clerk' \in [Clerks -> ClerkPages] /\ clerk'[k] = r
      /\ \A j \in Clerks : j # k => clerk'[j] = clerk[j]
  BY <1>1, PageIsPut DEF PageSet
<1>3. ASSUME NEW j \in Clerks
      PROVE  /\ clerk'[j].num <= legal
             /\ clerk'[j].pc \in {"mark", "write"} => MarkFits(clerk'[j])
             /\ issuing[j].pc # "idle" => clerk'[j].pc = "issue"
             /\ clerk'[j].pc # "loading" => invoiceRow.status # "none"
  BY <1>1, <1>2, InvoiceTypes DEF InvoiceBooks, GoesOn
<1>4. InvoiceBooks'  BY <1>1, <1>3 DEF InvoiceBooks
<1>5. ASSUME ~excused' PROVE OneOnItsWay'
  <2>1. OneOnItsWay  BY <1>5 DEF InvoiceInv
  <2>2. IssueUnderWay' <=> IssueUnderWay  BY DEF IssueUnderWay
  <2>3. ~InHand' => ~InHand \/ invoiceRow.status = "ISSUED"  BY <1>2 DEF InHand, NoNumber, GoesOn
  <2> QED BY <2>1, <2>2, <2>3 DEF OneOnItsWay, UnderWay
<1> QED BY <1>1, <1>2, <1>4, <1>5, InvoiceKept, InvoiceTypes DEF InvoiceTypeOK

LEMMA ClerkKeeps ==
  ASSUME InvoiceInv, NEW k \in Clerks,
         LoadPage(k) \/ PressRetry(k) \/ PressMark(k) \/ MarkReads(k)
  PROVE  InvoiceInv'
<1>1. /\ InvoiceTypeOK /\ InvoiceBooks /\ clerk[k] \in ClerkPages
      /\ invoiceRow.status \in InvoiceStatus
  BY InvoiceTypes DEF InvoiceInv
<1>2. /\ provider' = provider /\ invoiceRow' = invoiceRow /\ legal' = legal
      /\ ensuring' = ensuring /\ issuing' = issuing /\ excused' = excused
  BY DEF LoadPage, PressRetry, PressMark, MarkReads
<1>3. CASE LoadPage(k)
  <2> DEFINE r == [clerk[k] EXCEPT !.pc = "open", !.shown = invoiceRow.status]
  <2>1. /\ clerk' = [clerk EXCEPT ![k] = r] /\ clerk[k].pc # "issue"  BY <1>3 DEF LoadPage
  <2>2. r \in ClerkPages /\ r.pc = "open" /\ r.num = clerk[k].num  BY <1>1 DEF ClerkPages
  <2> HIDE DEF r
  <2>3. GoesOn(k, r)  BY <1>3, <2>2 DEF GoesOn, LoadPage
  <2> QED BY <1>2, <2>1, <2>2, <2>3, PageKeeps
<1>4. CASE PressRetry(k)
  <2> DEFINE r == [clerk[k] EXCEPT !.pc = "retry"]
  <2>1. /\ clerk' = [clerk EXCEPT ![k] = r] /\ clerk[k].pc # "issue"
    BY <1>4 DEF PressRetry, Offered
  <2>2. r \in ClerkPages /\ r.pc = "retry" /\ r.num = clerk[k].num  BY <1>1 DEF ClerkPages
  <2> HIDE DEF r
  <2>3. GoesOn(k, r)  BY <1>1, <1>4, <2>2 DEF GoesOn, InvoiceBooks, PressRetry, Offered
  <2> QED BY <1>2, <2>1, <2>2, <2>3, PageKeeps
<1>5. CASE PressMark(k)
  <2>1. PICK to \in {"ISSUED", "FAILED"} :
          /\ to = "ISSUED" => clerk[k].num # NoNumber
          /\ clerk' = [clerk EXCEPT ![k].pc = "mark", ![k].to = to]
    BY <1>5 DEF PressMark
  <2> DEFINE r == [clerk[k] EXCEPT !.pc = "mark", !.to = to]
  <2>2. /\ clerk' = [clerk EXCEPT ![k] = r] /\ clerk[k].pc # "issue"
    BY <1>5, <2>1 DEF PressMark, Offered
  <2>3. r \in ClerkPages /\ r.pc = "mark" /\ r.num = clerk[k].num /\ r.to = to
    BY <1>1 DEF ClerkPages
  <2> HIDE DEF r
  <2>4. GoesOn(k, r)
    BY <1>1, <1>5, <2>1, <2>3 DEF GoesOn, MarkFits, InvoiceBooks, PressMark, Offered
  <2> QED BY <1>2, <2>2, <2>3, <2>4, PageKeeps
<1>6. CASE MarkReads(k)
  <2>1. clerk[k].pc = "mark"  BY <1>6 DEF MarkReads
  <2>2. CASE invoiceRow.status = "ISSUED" /\ clerk' = [clerk EXCEPT ![k] = NewPage]
    <3>1. GoesOn(k, NewPage)  BY <2>2, NewPageFacts DEF GoesOn
    <3> HIDE DEF NewPage
    <3> QED BY <1>2, <2>1, <2>2, <3>1, NewPageFacts, PageKeeps
  <2>3. CASE clerk' = [clerk EXCEPT ![k] = [clerk[k] EXCEPT !.pc = "write"]]
    <3> DEFINE r == [clerk[k] EXCEPT !.pc = "write"]
    <3>1. r \in ClerkPages /\ r.pc = "write" /\ r.num = clerk[k].num /\ r.to = clerk[k].to
      BY <1>1 DEF ClerkPages
    <3>2. GoesOn(k, r)  BY <1>1, <2>1, <3>1 DEF InvoiceBooks, GoesOn, MarkFits
    <3>3. clerk' = [clerk EXCEPT ![k] = r]  BY <2>3
    <3> HIDE DEF r
    <3> QED BY <1>2, <2>1, <3>1, <3>2, <3>3, PageKeeps
  <2> QED BY <1>6, <2>2, <2>3 DEF MarkReads
<1> QED BY <1>3, <1>4, <1>5, <1>6

LEMMA PortalKeeps ==
  ASSUME InvoiceInv, NEW k \in Clerks, UsePortal(k)
  PROVE  InvoiceInv'
<1>1. /\ InvoiceTypeOK /\ InvoiceBooks /\ legal \in Nat /\ clerk[k] \in ClerkPages
      /\ MaxLegal \in Nat /\ MaxLegal > 0 /\ legal <= MaxLegal
  BY InvoiceTypes DEF InvoiceInv
<1> DEFINE r == [clerk[k] EXCEPT !.num = legal']
<1>2. /\ clerk' = [clerk EXCEPT ![k] = r] /\ clerk[k].pc = "open" /\ clerk[k].num = 0
      /\ legal' = IF legal = 0 THEN 1 ELSE legal
      /\ excused' = (excused \/ (legal = 0 /\ \E c \in IssueCallers : issuing[c].pc = "asked"))
      /\ provider' = provider /\ invoiceRow' = invoiceRow /\ ensuring' = ensuring
      /\ issuing' = issuing
  BY DEF UsePortal, Offered, NoNumber
<1>3. legal' \in 0 .. MaxLegal /\ legal' > 0 /\ (legal > 0 => legal' = legal)  BY <1>1, <1>2
<1>4. r \in ClerkPages /\ r.pc = "open" /\ r.num = legal'  BY <1>1, <1>2, <1>3 DEF ClerkPages
<1> HIDE DEF r
<1>5. /\ clerk' \in [Clerks -> ClerkPages] /\ clerk'[k] = r
      /\ \A j \in Clerks : j # k => clerk'[j] = clerk[j]
  BY <1>1, <1>2, <1>4, PageIsPut DEF PageSet
<1>6. InvoiceBooks'
  <2>1. \A n \in Nat : n <= legal => n <= legal'  BY <1>1, <1>2
  <2>2. invoiceRow.number \in Nat  BY <1>1, InvoiceTypes
  <2>3. ASSUME NEW c \in IssueCallers
        PROVE  /\ issuing'[c].num <= legal' /\ (issuing'[c].pc = "drawn" => legal' > 0)
               /\ issuing'[c].pc # "idle" => invoiceRow'.status # "none"
    BY <1>1, <1>2, <1>3, <2>1, InvoiceTypes DEF InvoiceBooks
  <2>4. ASSUME NEW j \in Clerks
        PROVE  /\ clerk'[j].num <= legal'
               /\ clerk'[j].pc \in {"mark", "write"} => MarkFits(clerk'[j])
               /\ issuing'[j].pc # "idle" => clerk'[j].pc = "issue"
               /\ clerk'[j].pc # "loading" => invoiceRow'.status # "none"
    <3>1. CASE j = k  BY <1>1, <1>2, <1>3, <1>4, <1>5, <3>1 DEF InvoiceBooks
    <3>2. CASE j # k  BY <1>1, <1>2, <1>5, <2>1, <3>2, InvoiceTypes DEF InvoiceBooks
    <3> QED BY <3>1, <3>2
  <2>5. invoiceRow'.number <= legal' /\ (invoiceRow'.status = "ISSUED" => legal' > 0)
    BY <1>1, <1>2, <1>3, <2>1, <2>2 DEF InvoiceBooks
  <2> QED BY <2>3, <2>4, <2>5 DEF InvoiceBooks
<1>7. ASSUME ~excused' PROVE OneOnItsWay'
  <2>1. ~excused /\ (legal = 0 => ~\E c \in IssueCallers : issuing[c].pc = "asked")
    BY <1>2, <1>7
  <2>2. OneOnItsWay  BY <2>1 DEF InvoiceInv
  <2>3. legal' <= 1  BY <1>1, <1>2, <2>2 DEF OneOnItsWay
  <2>4. \A c \in IssueCallers : issuing[c].pc # "asked"
    BY <1>1, <2>1, <2>2 DEF OneOnItsWay
  <2>5. InHand'  BY <1>3, <1>4, <1>5 DEF InHand, NoNumber
  <2>6. \A c, d \in IssueCallers : UnderWay(c)' /\ UnderWay(d)' => c = d
    BY <1>2, <2>2 DEF OneOnItsWay, UnderWay
  <2> QED BY <1>2, <2>3, <2>4, <2>5, <2>6 DEF OneOnItsWay
<1>8. excused' \in BOOLEAN  BY <1>2
<1> QED BY <1>1, <1>2, <1>3, <1>5, <1>6, <1>7, <1>8, InvoiceKept, InvoiceTypes DEF InvoiceTypeOK

LEMMA RetryKeeps ==
  ASSUME InvoiceInv, NEW k \in Clerks, RetryInvoice(k)
  PROVE  InvoiceInv'
<1>1. /\ InvoiceTypeOK /\ InvoiceBooks /\ clerk[k] \in ClerkPages /\ legal \in Nat
      /\ k \in IssueCallers /\ issuing[k] \in Issues /\ invoiceRow.status \in InvoiceStatus
  BY InvoiceTypes DEF InvoiceInv
<1>2. /\ provider' = provider /\ invoiceRow' = invoiceRow /\ legal' = legal
      /\ ensuring' = ensuring /\ excused' = excused /\ clerk[k].pc = "retry"
  BY DEF RetryInvoice
<1>3. CASE clerk' = [clerk EXCEPT ![k].pc = "loading"] /\ issuing' = issuing
  <2> DEFINE r == [clerk[k] EXCEPT !.pc = "loading"]
  <2>1. r \in ClerkPages /\ r.pc = "loading" /\ r.num = clerk[k].num  BY <1>1 DEF ClerkPages
  <2>2. clerk' = [clerk EXCEPT ![k] = r]  BY <1>3
  <2> HIDE DEF r
  <2>3. GoesOn(k, r)  BY <2>1 DEF GoesOn
  <2> QED BY <1>2, <1>3, <2>1, <2>2, <2>3, PageKeeps
<1>4. CASE /\ clerk' = [clerk EXCEPT ![k].pc = "issue"]
           /\ issuing' = [issuing EXCEPT ![k].pc = "begin"]
           /\ invoiceRow.status # "none"
  <2> DEFINE r == [clerk[k] EXCEPT !.pc = "issue"]
             i == [issuing[k] EXCEPT !.pc = "begin"]
  <2>1. r \in ClerkPages /\ r.pc = "issue" /\ r.num = clerk[k].num  BY <1>1 DEF ClerkPages
  <2>2. i \in Issues /\ i.pc = "begin" /\ i.num = issuing[k].num  BY <1>1 DEF Issues
  <2>3. clerk' = [clerk EXCEPT ![k] = r] /\ issuing' = [issuing EXCEPT ![k] = i]  BY <1>4
  <2> HIDE DEF r, i
  <2>4. /\ clerk' \in [Clerks -> ClerkPages] /\ clerk'[k] = r
        /\ \A j \in Clerks : j # k => clerk'[j] = clerk[j]
    BY <1>1, <2>1, <2>3, PageIsPut DEF PageSet
  <2>5. /\ issuing' \in [IssueCallers -> Issues] /\ issuing'[k] = i
        /\ \A d \in IssueCallers : d # k => issuing'[d] = issuing[d]
    BY <1>1, <2>2, <2>3, IssueIsSet DEF IssueSet
  <2>6. issuing[k].pc = "idle"  BY <1>1, <1>2 DEF InvoiceBooks
  <2>7. ASSUME NEW c \in IssueCallers
        PROVE  /\ issuing'[c].num <= legal /\ (issuing'[c].pc = "drawn" => legal > 0)
               /\ issuing'[c].pc # "idle" => invoiceRow.status # "none"
    BY <1>1, <1>4, <2>2, <2>5 DEF InvoiceBooks
  <2>8. ASSUME NEW j \in Clerks
        PROVE  /\ clerk'[j].num <= legal
               /\ clerk'[j].pc \in {"mark", "write"} => MarkFits(clerk'[j])
               /\ issuing'[j].pc # "idle" => clerk'[j].pc = "issue"
               /\ clerk'[j].pc # "loading" => invoiceRow.status # "none"
    BY <1>1, <1>4, <2>1, <2>4, <2>5, InvoiceTypes DEF InvoiceBooks
  <2>9. InvoiceBooks'  BY <1>1, <1>2, <2>7, <2>8 DEF InvoiceBooks
  <2>10. ASSUME ~excused' PROVE OneOnItsWay'
    <3>1. OneOnItsWay  BY <1>2, <2>10 DEF InvoiceInv
    <3>2. ASSUME NEW c \in IssueCallers
          PROVE  /\ issuing'[c].pc = "asked" => issuing[c].pc = "asked"
                 /\ issuing'[c].pc \in {"asked", "drawn"} <=> issuing[c].pc \in {"asked", "drawn"}
      <4>1. CASE c = k  BY <2>2, <2>5, <2>6, <4>1
      <4>2. CASE c # k  BY <2>5, <4>2
      <4> QED BY <4>1, <4>2
    <3>3. (IssueUnderWay' <=> IssueUnderWay)  BY <3>2 DEF IssueUnderWay
    <3>4. InHand' <=> InHand  BY <2>1, <2>4 DEF InHand
    <3>5. \A c, d \in IssueCallers : UnderWay(c)' /\ UnderWay(d)' => c = d
      BY <3>1, <3>2 DEF OneOnItsWay, UnderWay
    <3> QED BY <1>2, <3>1, <3>2, <3>3, <3>4, <3>5 DEF OneOnItsWay
  <2> QED BY <1>1, <1>2, <2>4, <2>5, <2>9, <2>10, InvoiceKept, InvoiceTypes DEF InvoiceTypeOK
<1>5. invoiceRow.status # "none"
  BY <1>1, <1>2 DEF InvoiceBooks
<1> QED BY <1>3, <1>4, <1>5 DEF RetryInvoice

LEMMA MarkKeeps ==
  ASSUME InvoiceInv, NEW k \in Clerks, MarkWrites(k)
  PROVE  InvoiceInv'
<1>1. /\ InvoiceTypeOK /\ InvoiceBooks /\ clerk[k] \in ClerkPages /\ legal \in Nat
      /\ excused \in BOOLEAN /\ k \in IssueCallers
  BY InvoiceTypes DEF InvoiceInv
<1>2. /\ provider' = provider /\ legal' = legal /\ ensuring' = ensuring /\ issuing' = issuing
      /\ clerk[k].pc = "write" /\ clerk' = [clerk EXCEPT ![k] = NewPage]
      /\ invoiceRow' = [status |-> clerk[k].to,
                        number |-> IF clerk[k].to = "ISSUED" THEN clerk[k].num ELSE NoNumber]
      /\ excused' = (excused \/ (clerk[k].to = "FAILED" /\ (legal > 0 \/ IssueUnderWay)))
  BY DEF MarkWrites
<1>3. MarkFits(clerk[k]) /\ clerk[k].num <= legal /\ clerk[k].num \in 0 .. MaxLegal
  BY <1>1, <1>2 DEF InvoiceBooks, ClerkPages
<1>4. /\ invoiceRow' \in [status : InvoiceStatus, number : 0 .. MaxLegal]
      /\ invoiceRow'.status \in {"ISSUED", "FAILED"} /\ invoiceRow'.number <= legal
      /\ invoiceRow'.status = "ISSUED" => legal > 0
      /\ invoiceRow'.status = "FAILED" => clerk[k].to = "FAILED"
  BY <1>1, <1>2, <1>3, InvoicesAssumption DEF MarkFits, InvoiceStatus, NoNumber
<1>5. /\ clerk' \in [Clerks -> ClerkPages] /\ clerk'[k] = NewPage
      /\ \A j \in Clerks : j # k => clerk'[j] = clerk[j]
  BY <1>1, <1>2, NewPageFacts, PageIsPut DEF PageSet
<1>6. NewPage.pc = "loading" /\ NewPage.num = 0  BY NewPageFacts
<1>7. InvoiceBooks'
  <2>1. ASSUME NEW j \in Clerks
        PROVE  /\ clerk'[j].num <= legal'
               /\ clerk'[j].pc \in {"mark", "write"} => MarkFits(clerk'[j])
               /\ issuing'[j].pc # "idle" => clerk'[j].pc = "issue"
               /\ clerk'[j].pc # "loading" => invoiceRow'.status # "none"
    BY <1>1, <1>2, <1>4, <1>5, <1>6 DEF InvoiceBooks
  <2>2. legal' = legal /\ issuing' = issuing /\ invoiceRow'.status # "none"  BY <1>2, <1>4
  <2>3. ASSUME NEW c \in IssueCallers
        PROVE  /\ issuing'[c].num <= legal' /\ (issuing'[c].pc = "drawn" => legal' > 0)
               /\ issuing'[c].pc # "idle" => invoiceRow'.status # "none"
    BY <1>1, <2>2 DEF InvoiceBooks
  <2>4. invoiceRow'.number <= legal' /\ (invoiceRow'.status = "ISSUED" => legal' > 0)
    BY <1>4, <2>2
  <2> QED BY <2>1, <2>3, <2>4 DEF InvoiceBooks
<1>8. ASSUME ~excused' PROVE OneOnItsWay'
  <2>1. ~excused /\ (clerk[k].to = "FAILED" => ~(legal > 0))  BY <1>2, <1>8
  <2>2. OneOnItsWay  BY <2>1 DEF InvoiceInv
  <2>3. legal > 0 => invoiceRow'.status = "ISSUED"  BY <1>4, <2>1
  <2> QED BY <1>2, <2>2, <2>3 DEF OneOnItsWay, UnderWay
<1>9. excused' \in BOOLEAN  BY <1>2
<1> QED BY <1>1, <1>2, <1>4, <1>5, <1>7, <1>8, <1>9, InvoiceKept, InvoiceTypes DEF InvoiceTypeOK

LEMMA InvoiceBegins == InvoiceInit => InvoiceInv
<1> SUFFICES ASSUME InvoiceInit PROVE InvoiceInv  OBVIOUS
<1>1. /\ provider \in BOOLEAN /\ legal = 0 /\ excused = FALSE
      /\ invoiceRow = [status |-> "none", number |-> 0]
      /\ issuing \in [IssueCallers -> Issues] /\ clerk \in [Clerks -> ClerkPages]
      /\ ensuring \in [InvCallbacks -> {"idle", "absent", "issue", "done"}]
      /\ \A c \in IssueCallers : issuing[c].pc = "idle" /\ issuing[c].num = 0
      /\ \A k \in Clerks : clerk[k].pc = "loading" /\ clerk[k].num = 0
  BY NewPageFacts DEF InvoiceInit, NoNumber
<1>2. InvoiceTypeOK
  <2>1. 0 \in 0 .. MaxLegal /\ "none" \in InvoiceStatus  BY InvoicesAssumption DEF InvoiceStatus
  <2>2. invoiceRow \in [status : InvoiceStatus, number : 0 .. MaxLegal]  BY <1>1, <2>1
  <2> QED BY <1>1, <2>1, <2>2 DEF InvoiceTypeOK, Issues, ClerkPages
<1>3. \A k \in Clerks : k \in IssueCallers  BY DEF IssueCallers
<1>4. InvoiceBooks  BY <1>1, <1>3 DEF InvoiceBooks
<1>5. OneOnItsWay  BY <1>1 DEF OneOnItsWay, UnderWay
<1> QED BY <1>2, <1>4, <1>5 DEF InvoiceInv

LEMMA InvoiceStep == InvoiceInv /\ [InvoiceNext]_invoiceVars => InvoiceInv'
<1> SUFFICES ASSUME InvoiceInv, [InvoiceNext]_invoiceVars PROVE InvoiceInv'  OBVIOUS
<1>1. CASE UNCHANGED invoiceVars
  BY <1>1 DEF invoiceVars, InvoiceInv, InvoiceTypeOK, InvoiceBooks, OneOnItsWay, UnderWay,
              IssueUnderWay, InHand
<1>2. CASE InvoiceNext
  BY <1>2, FindKeeps, CreateKeeps, BeginKeeps, DrawsKeeps, EndsKeep, ClerkKeeps, PortalKeeps,
     RetryKeeps, MarkKeeps
     DEF InvoiceNext
<1> QED BY <1>1, <1>2

LEMMA InvoiceMeansSound == InvoiceInv => InvoiceTypeOK /\ InvoiceSound
<1> SUFFICES ASSUME InvoiceInv PROVE InvoiceTypeOK /\ InvoiceSound  OBVIOUS
<1>1. InvoiceTypeOK /\ InvoiceBooks /\ legal \in Nat  BY InvoiceTypes DEF InvoiceInv
<1>2. NumberWasDrawn  BY <1>1 DEF InvoiceBooks, NumberWasDrawn
<1>3. CASE excused  BY <1>1, <1>2, <1>3 DEF InvoiceSound, OneLegalInvoice, DrawnIsRecorded
<1>4. CASE ~excused
  <2>1. OneOnItsWay  BY <1>4 DEF InvoiceInv
  <2>2. OneLegalInvoice  BY <1>1, <2>1 DEF OneOnItsWay, OneLegalInvoice
  <2>3. DrawnIsRecorded  BY <2>1 DEF OneOnItsWay, DrawnIsRecorded
  <2> QED BY <1>1, <1>2, <2>2, <2>3 DEF InvoiceSound
<1> QED BY <1>3, <1>4

\* The type of every part of an invoice's story: the row, the provider's count, the
\* calls of issueViaProvider and the pages of the accountants.
THEOREM InvoicesKeepTypes == InvoiceSpec => []InvoiceTypeOK
<1> QED BY InvoiceBegins, InvoiceStep, InvoiceMeansSound, PTL DEF InvoiceSpec

\* One legal invoice for an order unless issues overlapped, an answer was lost or an
\* existing invoice was marked rejected; an invoice drawn up is on the row once nobody
\* has it in hand; and the number on the row came from the provider: issueViaProvider,
\* retryInvoice and setInvoiceStatus of invoice.service.ts, for any number of
\* callbacks and accountants.
THEOREM InvoicesAreSound == InvoiceSpec => []InvoiceSound
<1> QED BY InvoiceBegins, InvoiceStep, InvoiceMeansSound, PTL DEF InvoiceSpec

-----------------------------------------------------------------------------
(***************************************************************************)
(* The catalogue and its search (Catalog).                                 *)
(***************************************************************************)
-----------------------------------------------------------------------------
\* A request whose row is written and whose document is not sent yet.
Carries(q, l) == q.l = l /\ q.pc \in {"written", "audited", "snapped"}

\* What a query asks of a listing, of the rows as they are.
Fits(l, face) == row[l].face = face /\ row[l].shown

\* The index agrees with a listing's row, or a document of the row is on its way to it, of one
\* request; what a bootstrap has read of it is the row; unless the listing is adrift.
IndexFine(l) ==
  /\ bootstrapped => (l \in adrift \/ Undelivered(l) \/ search[l] = CardOf(row[l]))
  /\ l \notin adrift =>
       /\ \A w \in Requests : Carries(write[w], l) => CardOf(write[w].row) = CardOf(row[l])
       /\ \A v, w \in Requests : (Carries(write[v], l) /\ Carries(write[w], l)) => v = w
       /\ \A b \in Snapped : snapshot[b][l] = CardOf(row[l])

Fine(q) ==
  /\ q.pc = "answered" => \A l \in q.items : row[l].shown \/ l \in q.since
  /\ q.pc = "answered" =>
       \A l \in Listings : l \notin q.loose => (l \in q.items <=> Fits(l, q.q))
  /\ q.pc = "slugs" =>
       \A l \in Listings : l \notin q.loose => (l \in q.hits <=> Fits(l, q.q))
QueryFine(s) == Fine(query[s])

CatalogInv ==
  /\ CatalogTypeOK
  /\ \A a \in Admins : draft[a] # NoDraft => draft[a].l \in Listings
  /\ \A w \in Requests : write[w].pc # "idle" => write[w].l \in Listings
  /\ \A l \in Listings : IndexFine(l)
  /\ \A s \in Searches : QueryFine(s)

DraftType == [l : Listings \cup {NoListing}, new : BOOLEAN, row : RowType]
WriteType == [pc : {"idle", "sent", "found", "written", "audited", "snapped"},
              l : Listings \cup {NoListing}, new : BOOLEAN, row : RowType]
QueryType == [pc : {"idle", "asked", "snapped", "slugs", "contains", "answered"},
              q : Faces \cup {"none"}, hits : SUBSET Listings, items : SUBSET Listings,
              loose : SUBSET Listings, since : SUBSET Listings]

LEMMA CatalogTypes ==
  ASSUME CatalogInv
  PROVE  /\ row \in [Listings -> RowType] /\ search \in [Listings -> Card]
         /\ bootstrapped \in BOOLEAN /\ shelf \in [Admins -> [Listings -> Card]]
         /\ draft \in [Admins -> DraftType] /\ write \in [Requests -> WriteType]
         /\ query \in [Searches -> QueryType] /\ snapshot \in [Booters -> [Listings -> Card]]
         /\ adrift \subseteq Listings /\ saves \in 0 .. MaxSaves /\ restarts \in 0 .. MaxRestarts
         /\ MaxSaves \in Nat /\ MaxRestarts \in Nat
         /\ \A a \in Admins : draft[a] # NoDraft => draft[a].l \in Listings
         /\ \A w \in Requests :
              write[w] \in WriteType /\ (write[w].pc # "idle" => write[w].l \in Listings)
         /\ \A l \in Listings : IndexFine(l)
         /\ \A s \in Searches : QueryFine(s) /\ query[s] \in QueryType
BY CatalogAssumption DEF CatalogInv, CatalogTypeOK, DraftType, WriteType, QueryType

LEMMA CatalogTyped ==
  ASSUME row' \in [Listings -> RowType], search' \in [Listings -> Card],
         bootstrapped' \in BOOLEAN, shelf' \in [Admins -> [Listings -> Card]],
         draft' \in [Admins -> DraftType], write' \in [Requests -> WriteType],
         query' \in [Searches -> QueryType], snapshot' \in [Booters -> [Listings -> Card]],
         adrift' \subseteq Listings, saves' \in 0 .. MaxSaves, restarts' \in 0 .. MaxRestarts,
         \A a \in Admins : draft'[a] # NoDraft => draft'[a].l \in Listings,
         \A w \in Requests : write'[w].pc # "idle" => write'[w].l \in Listings,
         \A l \in Listings : IndexFine(l)', \A s \in Searches : QueryFine(s)'
  PROVE  CatalogInv'
BY DEF CatalogInv, CatalogTypeOK, DraftType, WriteType, QueryType

LEMMA NothingsTyped ==
  /\ NoRowYet \in RowType /\ NoRowYet.face = "none" /\ NoCard \in Card
  /\ NoDraft \in DraftType /\ NoWrite \in WriteType /\ NoWrite.pc = "idle"
  /\ NoQuery \in QueryType /\ NoQuery.pc = "idle" /\ NoQuery.loose = {} /\ NoQuery.since = {}
  /\ NoSnapshot \in [Listings -> Card]
BY DEF NoRowYet, RowType, NoCard, CardOf, Card, NoDraft, DraftType, NoWrite, WriteType, NoQuery,
       QueryType, NoSnapshot

LEMMA CardsTyped ==
  ASSUME NEW r \in RowType
  PROVE  CardOf(r) \in Card /\ CardOf(r).face = r.face /\ CardOf(r).shown = r.shown
BY DEF CardOf, Card, RowType

LEMMA AllCardsTyped ==
  ASSUME CatalogInv
  PROVE  Cards \in [Listings -> Card] /\ \A l \in Listings : Cards[l] = CardOf(row[l])
BY CatalogTypes, CardsTyped DEF Cards

LEMMA WhoBoots ==
  ASSUME NEW b
  PROVE  b \in Snapped <=> \/ b \in Requests /\ write[b].pc = "snapped"
                           \/ b \in Searches /\ query[b].pc = "snapped"
BY DEF Snapped

LEMMA WhoBootsNext ==
  ASSUME NEW b
  PROVE  b \in Snapped' <=> \/ b \in Requests /\ write'[b].pc = "snapped"
                            \/ b \in Searches /\ query'[b].pc = "snapped"
BY DEF Snapped

LEMMA WhatIsUndelivered ==
  ASSUME NEW l
  PROVE  Undelivered(l) <=> \E w \in Requests : Carries(write[w], l)
BY DEF Undelivered, Carries

LEMMA WhatIsUndeliveredNext ==
  ASSUME NEW l
  PROVE  Undelivered(l)' <=> \E w \in Requests : Carries(write'[w], l)
BY DEF Undelivered, Carries

\* A listing that a step does not touch, or sets adrift, stays in order.
LEMMA IndexKept ==
  ASSUME CatalogInv, NEW l \in Listings, row'[l] = row[l], search'[l] = search[l],
         bootstrapped' => bootstrapped, l \in adrift => l \in adrift',
         l \notin adrift' =>
           \A w \in Requests : Carries(write'[w], l) =>
             Carries(write[w], l) /\ write'[w].row = write[w].row,
         l \notin adrift' => (Undelivered(l) => Undelivered(l)'),
         l \notin adrift' => \A b \in Snapped' : b \in Snapped /\ snapshot'[b][l] = snapshot[b][l]
  PROVE  IndexFine(l)'
<1>1. IndexFine(l)  BY CatalogTypes
<1>2. CASE l \in adrift'  BY <1>2 DEF IndexFine
<1>3. CASE l \notin adrift'
  <2>1. l \notin adrift  BY <1>3
  <2>2. bootstrapped' => (Undelivered(l)' \/ search'[l] = CardOf(row'[l]))
    BY <1>1, <1>3, <2>1 DEF IndexFine
  <2>3. ASSUME NEW w \in Requests, Carries(write'[w], l)
        PROVE  /\ CardOf(write'[w].row) = CardOf(row'[l])
               /\ \A v \in Requests : Carries(write'[v], l) => v = w
    BY <1>1, <1>3, <2>1, <2>3 DEF IndexFine
  <2>4. ASSUME NEW b \in Snapped' PROVE snapshot'[b][l] = CardOf(row'[l])
    BY <1>1, <1>3, <2>1, <2>4 DEF IndexFine
  <2>5. \A w \in Requests : Carries(write'[w], l) => CardOf(write'[w].row) = CardOf(row'[l])
    BY <2>3
  <2>6. \A v, w \in Requests : (Carries(write'[v], l) /\ Carries(write'[w], l)) => v = w
    BY <2>3
  <2> HIDE DEF CardOf
  <2> QED BY <2>2, <2>4, <2>5, <2>6 DEF IndexFine, Carries, CardOf
<1> QED BY <1>2, <1>3

\* The queries, when no row changes.
LEMMA QueriesKept ==
  ASSUME CatalogInv, row' = row, query' = query
  PROVE  \A s \in Searches : QueryFine(s)'
<1>1. ASSUME NEW s \in Searches PROVE QueryFine(s)'
  <2>1. QueryFine(s)  BY CatalogTypes
  <2> QED BY <2>1 DEF QueryFine, Fine, Fits
<1> QED BY <1>1

-----------------------------------------------------------------------------
(* The admin's page.                                                        *)

\* Steps of a page that write nothing.
LEMMA PageOnly ==
  ASSUME CatalogInv, row' = row, search' = search, bootstrapped' = bootstrapped, write' = write,
         query' = query, snapshot' = snapshot, adrift' = adrift, saves' = saves,
         restarts' = restarts, shelf' \in [Admins -> [Listings -> Card]],
         draft' \in [Admins -> DraftType],
         \A a \in Admins : draft'[a] # NoDraft => draft'[a].l \in Listings
  PROVE  CatalogInv'
<1>1. ASSUME NEW l \in Listings PROVE IndexFine(l)'
  <2>1. IndexFine(l)  BY CatalogTypes
  <2>2. Undelivered(l)' <=> Undelivered(l)  BY DEF Undelivered
  <2>3. \A b : b \in Snapped' <=> b \in Snapped  BY WhoBoots, WhoBootsNext
  <2> QED BY IndexKept, <2>2, <2>3
<1>2. \A s \in Searches : QueryFine(s)'  BY QueriesKept
<1> QED BY <1>1, <1>2, CatalogTypes, CatalogTyped

LEMMA ShelfKeeps ==
  ASSUME CatalogInv, NEW a \in Admins, LoadShelf(a)
  PROVE  CatalogInv'
<1>1. /\ shelf' = [shelf EXCEPT ![a] = Cards] /\ row' = row /\ search' = search
      /\ bootstrapped' = bootstrapped /\ draft' = draft /\ write' = write /\ query' = query
      /\ snapshot' = snapshot /\ adrift' = adrift /\ saves' = saves /\ restarts' = restarts
  BY DEF LoadShelf
<1>2. shelf' \in [Admins -> [Listings -> Card]]  BY <1>1, CatalogTypes, AllCardsTyped
<1> QED BY <1>1, <1>2, CatalogTypes, PageOnly

LEMMA DraftKeeps ==
  ASSUME CatalogInv, NEW a \in Admins, OpenNew(a) \/ OpenEdit(a) \/ TypeFace(a) \/ CloseDraft(a)
  PROVE  CatalogInv'
<1>1. /\ shelf' = shelf /\ row' = row /\ search' = search
      /\ bootstrapped' = bootstrapped /\ write' = write /\ query' = query
      /\ snapshot' = snapshot /\ adrift' = adrift /\ saves' = saves /\ restarts' = restarts
  BY DEF OpenNew, OpenEdit, TypeFace, CloseDraft
<1>2. /\ draft \in [Admins -> DraftType] /\ draft[a] \in DraftType
      /\ \A c \in Admins : draft[c] # NoDraft => draft[c].l \in Listings
      /\ shelf \in [Admins -> [Listings -> Card]]
  BY CatalogTypes
<1>3. ASSUME NEW d \in DraftType, d # NoDraft => d.l \in Listings,
             draft' = [draft EXCEPT ![a] = d]
      PROVE  CatalogInv'
  <2>1. draft' \in [Admins -> DraftType]  BY <1>2, <1>3
  <2>2. \A c \in Admins : draft'[c] # NoDraft => draft'[c].l \in Listings  BY <1>2, <1>3
  <2> QED BY <1>1, <2>1, <2>2, CatalogTypes, PageOnly
<1>4. CASE OpenNew(a)
  <2>1. PICK l \in Listings, f \in Faces :
          draft' = [draft EXCEPT ![a] =
            [l |-> l, new |-> TRUE, row |-> [face |-> f, shown |-> TRUE, told |-> TRUE]]]
    BY <1>4 DEF OpenNew
  <2> DEFINE d == [l |-> l, new |-> TRUE, row |-> [face |-> f, shown |-> TRUE, told |-> TRUE]]
  <2>2. d \in DraftType /\ d.l = l  BY DEF DraftType, RowType
  <2>3. draft' = [draft EXCEPT ![a] = d]  BY <2>1
  <2> HIDE DEF d
  <2> QED BY <1>3, <2>2, <2>3
<1>5. CASE OpenEdit(a)
  <2>1. PICK l \in Listings :
          draft' = [draft EXCEPT ![a] =
            [l |-> l, new |-> FALSE,
             row |-> [face |-> shelf[a][l].face, shown |-> shelf[a][l].shown, told |-> FALSE]]]
    BY <1>5 DEF OpenEdit
  <2> DEFINE r == [face |-> shelf[a][l].face, shown |-> shelf[a][l].shown, told |-> FALSE]
             d == [l |-> l, new |-> FALSE, row |-> r]
  <2>2. shelf[a][l] \in Card  BY <1>2
  <2>3. r \in RowType  BY <2>2 DEF Card, RowType
  <2>4. draft' = [draft EXCEPT ![a] = d]  BY <2>1
  <2> HIDE DEF r
  <2>5. d \in DraftType /\ d.l = l  BY <2>3 DEF DraftType
  <2> HIDE DEF d
  <2> QED BY <1>3, <2>4, <2>5
<1>6. CASE TypeFace(a)
  <2>1. PICK f \in Faces : draft' = [draft EXCEPT ![a].row.face = f]  BY <1>6 DEF TypeFace
  <2> DEFINE r == [draft[a].row EXCEPT !.face = f]
             d == [draft[a] EXCEPT !.row = r]
  <2>2. r \in RowType  BY <1>2 DEF DraftType, RowType
  <2>3. draft' = [draft EXCEPT ![a] = d]  BY <2>1
  <2> HIDE DEF r
  <2>4. d \in DraftType /\ d.l = draft[a].l  BY <1>2, <2>2 DEF DraftType
  <2>5. draft[a].l \in Listings  BY <1>2, <1>6 DEF TypeFace
  <2> HIDE DEF d
  <2> QED BY <1>3, <2>3, <2>4, <2>5
<1>7. CASE CloseDraft(a)  BY <1>3, <1>7, NothingsTyped DEF CloseDraft
<1> QED BY <1>4, <1>5, <1>6, <1>7

-----------------------------------------------------------------------------
(* createProduct and updateProduct.                                         *)

LEMMA NoWriteCarries ==
  ASSUME NEW l
  PROVE  ~Carries(NoWrite, l)
BY DEF Carries, NoWrite

LEMMA WritePut ==
  ASSUME CatalogInv, NEW w \in Requests, NEW q \in WriteType, q.pc # "idle" => q.l \in Listings,
         write' = [write EXCEPT ![w] = q]
  PROVE  /\ write' \in [Requests -> WriteType] /\ write'[w] = q
         /\ \A v \in Requests : v # w => write'[v] = write[v]
         /\ \A v \in Requests : write'[v].pc # "idle" => write'[v].l \in Listings
<1>1. write \in [Requests -> WriteType]
      /\ \A v \in Requests : write[v].pc # "idle" => write[v].l \in Listings
  BY CatalogTypes
<1>2. /\ write' \in [Requests -> WriteType] /\ write'[w] = q
      /\ \A v \in Requests : v # w => write'[v] = write[v]
  BY <1>1
<1> QED BY <1>1, <1>2

\* A request goes on; what it carries, if anything, it goes on carrying, or it is let drift.
LEMMA WriteMoves ==
  ASSUME CatalogInv, NEW w \in Requests, NEW q \in WriteType, q.pc # "idle" => q.l \in Listings,
         write' = [write EXCEPT ![w] = q],
         row' = row, search' = search, bootstrapped' = bootstrapped, shelf' = shelf,
         query' = query, restarts' = restarts, saves' \in 0 .. MaxSaves,
         draft' \in [Admins -> DraftType],
         \A a \in Admins : draft'[a] # NoDraft => draft'[a].l \in Listings,
         snapshot' \in [Booters -> [Listings -> Card]],
         \A b \in Booters : b # w => snapshot'[b] = snapshot[b],
         q.pc # "snapped", adrift \subseteq adrift', adrift' \subseteq Listings,
         \A l \in Listings : l \notin adrift' =>
           /\ Carries(write[w], l) => Carries(q, l)
           /\ Carries(q, l) => Carries(write[w], l) /\ q.row = write[w].row
  PROVE  CatalogInv'
<1>1. /\ write' \in [Requests -> WriteType] /\ write'[w] = q
      /\ \A v \in Requests : v # w => write'[v] = write[v]
      /\ \A v \in Requests : write'[v].pc # "idle" => write'[v].l \in Listings
  BY WritePut
<1>2. ASSUME NEW b \in Snapped' PROVE b \in Snapped /\ b # w /\ b \in Booters
  BY <1>1, WhoBoots, WhoBootsNext, CatalogAssumption DEF Booters
<1>3. ASSUME NEW l \in Listings PROVE IndexFine(l)'
  <2>1. ASSUME l \notin adrift', NEW v \in Requests, Carries(write'[v], l)
        PROVE  Carries(write[v], l) /\ write'[v].row = write[v].row
    BY <1>1, <2>1
  <2>2. ASSUME l \notin adrift', Undelivered(l) PROVE Undelivered(l)'
    BY <1>1, <2>2, WhatIsUndelivered, WhatIsUndeliveredNext
  <2>3. \A b \in Snapped' : b \in Snapped /\ snapshot'[b][l] = snapshot[b][l]  BY <1>2
  <2> QED BY <2>1, <2>2, <2>3, IndexKept
<1>4. \A s \in Searches : QueryFine(s)'  BY QueriesKept
<1> QED BY <1>1, <1>3, <1>4, CatalogTypes, CatalogTyped

LEMMA PressKeeps ==
  ASSUME CatalogInv, NEW a \in Admins, PressSave(a) \/ PressToggle(a)
  PROVE  CatalogInv'
<1>1. /\ row' = row /\ search' = search /\ bootstrapped' = bootstrapped /\ shelf' = shelf
      /\ draft' = draft /\ query' = query /\ snapshot' = snapshot /\ adrift' = adrift
      /\ restarts' = restarts /\ saves < MaxSaves /\ saves' = saves + 1
  BY DEF PressSave, PressToggle
<1>2. /\ draft[a] \in DraftType /\ (draft[a] # NoDraft => draft[a].l \in Listings)
      /\ saves \in 0 .. MaxSaves /\ MaxSaves \in Nat /\ shelf[a] \in [Listings -> Card]
  BY CatalogTypes
<1>3. saves' \in 0 .. MaxSaves  BY <1>1, <1>2
<1>4. /\ <<a, "save">> \in Requests /\ <<a, "toggle">> \in Requests  BY DEF Requests
<1>5. ASSUME NEW w \in Requests, write[w] = NoWrite, NEW q \in WriteType, q.pc = "sent",
             q.l \in Listings, write' = [write EXCEPT ![w] = q]
      PROVE  CatalogInv'
  <2>1. \A l : ~Carries(q, l) /\ ~Carries(write[w], l)  BY <1>5, NoWriteCarries DEF Carries
  <2> QED BY <1>1, <1>3, <1>5, <2>1, CatalogTypes, WriteMoves
<1>6. CASE PressSave(a)
  <2> DEFINE q == [pc |-> "sent", l |-> draft[a].l, new |-> draft[a].new, row |-> draft[a].row]
  <2>1. /\ write[<<a, "save">>] = NoWrite /\ draft[a] # NoDraft
        /\ write' = [write EXCEPT ![<<a, "save">>] = q]
    BY <1>6 DEF PressSave
  <2>2. q \in WriteType /\ q.pc = "sent" /\ q.l \in Listings
    BY <1>2, <2>1 DEF DraftType, WriteType
  <2> HIDE DEF q
  <2> QED BY <1>4, <1>5, <2>1, <2>2
<1>7. CASE PressToggle(a)
  <2>1. PICK l \in Listings :
          write' = [write EXCEPT ![<<a, "toggle">>] =
            [pc |-> "sent", l |-> l, new |-> FALSE,
             row |-> [NoRowYet EXCEPT !.shown = ~shelf[a][l].shown]]]
    BY <1>7 DEF PressToggle
  <2> DEFINE r == [NoRowYet EXCEPT !.shown = ~shelf[a][l].shown]
             q == [pc |-> "sent", l |-> l, new |-> FALSE, row |-> r]
  <2>2. r \in RowType  BY DEF NoRowYet, RowType
  <2>3. write' = [write EXCEPT ![<<a, "toggle">>] = q] /\ write[<<a, "toggle">>] = NoWrite
    BY <1>7, <2>1 DEF PressToggle
  <2> HIDE DEF r
  <2>4. q \in WriteType /\ q.pc = "sent" /\ q.l = l  BY <2>2 DEF WriteType
  <2> HIDE DEF q
  <2> QED BY <1>4, <1>5, <2>3, <2>4
<1> QED BY <1>6, <1>7

\* A draft that is closed, or not.
LEMMA AnswerTyped ==
  ASSUME CatalogInv, NEW w \in Requests, NEW ok, Answers(w, ok)
  PROVE  /\ write' = [write EXCEPT ![w] = NoWrite] /\ draft' \in [Admins -> DraftType]
         /\ \A a \in Admins : draft'[a] # NoDraft => draft'[a].l \in Listings
<1>1. /\ draft \in [Admins -> DraftType] /\ NoDraft \in DraftType
      /\ \A a \in Admins : draft[a] # NoDraft => draft[a].l \in Listings
  BY CatalogTypes, NothingsTyped
<1>2. draft' = draft \/ draft' = [draft EXCEPT ![Admin(w)] = NoDraft]  BY DEF Answers
<1> QED BY <1>1, <1>2 DEF Answers

LEMMA LooksKeeps ==
  ASSUME CatalogInv, NEW w \in Requests, Looks(w)
  PROVE  CatalogInv'
<1>1. /\ row' = row /\ search' = search /\ bootstrapped' = bootstrapped /\ shelf' = shelf
      /\ query' = query /\ snapshot' = snapshot /\ adrift' = adrift
      /\ restarts' = restarts /\ saves' = saves /\ write[w].pc = "sent"
  BY DEF Looks
<1>2. write[w] \in WriteType /\ write[w].l \in Listings  BY <1>1, CatalogTypes
<1>3. \A l : ~Carries(write[w], l)  BY <1>1 DEF Carries
<1>4. CASE write' = [write EXCEPT ![w].pc = "found"] /\ draft' = draft
  <2> DEFINE q == [write[w] EXCEPT !.pc = "found"]
  <2>1. q \in WriteType /\ q.l = write[w].l /\ q.pc = "found"  BY <1>2 DEF WriteType
  <2>2. write' = [write EXCEPT ![w] = q]  BY <1>4
  <2> HIDE DEF q
  <2>3. \A l : ~Carries(q, l)  BY <2>1 DEF Carries
  <2> QED BY <1>1, <1>2, <1>3, <1>4, <2>1, <2>2, <2>3, CatalogTypes, WriteMoves
<1>5. CASE Answers(w, FALSE)
  <2>1. /\ write' = [write EXCEPT ![w] = NoWrite] /\ draft' \in [Admins -> DraftType]
        /\ \A a \in Admins : draft'[a] # NoDraft => draft'[a].l \in Listings
    BY <1>5, AnswerTyped
  <2> QED BY <1>1, <1>3, <2>1, NothingsTyped, NoWriteCarries, CatalogTypes, WriteMoves
<1> QED BY <1>4, <1>5 DEF Looks

LEMMA AuditsKeeps ==
  ASSUME CatalogInv, NEW w \in Requests, Audits(w)
  PROVE  CatalogInv'
<1>1. /\ row' = row /\ search' = search /\ bootstrapped' = bootstrapped /\ shelf' = shelf
      /\ query' = query /\ snapshot' = snapshot
      /\ restarts' = restarts /\ saves' = saves /\ write[w].pc = "written"
  BY DEF Audits
<1>2. write[w] \in WriteType /\ write[w].l \in Listings  BY <1>1, CatalogTypes
<1>3. CASE write' = [write EXCEPT ![w].pc = "audited"] /\ draft' = draft /\ adrift' = adrift
  <2> DEFINE q == [write[w] EXCEPT !.pc = "audited"]
  <2>1. /\ q \in WriteType /\ q.l = write[w].l /\ q.pc = "audited" /\ q.row = write[w].row
    BY <1>2 DEF WriteType
  <2>2. write' = [write EXCEPT ![w] = q]  BY <1>3
  <2> HIDE DEF q
  <2>3. \A l : Carries(q, l) <=> Carries(write[w], l)  BY <1>1, <2>1 DEF Carries
  <2> QED BY <1>1, <1>2, <1>3, <2>1, <2>2, <2>3, CatalogTypes, WriteMoves
<1>4. CASE Answers(w, FALSE) /\ adrift' = adrift \cup {write[w].l}
  <2>1. /\ write' = [write EXCEPT ![w] = NoWrite] /\ draft' \in [Admins -> DraftType]
        /\ \A a \in Admins : draft'[a] # NoDraft => draft'[a].l \in Listings
    BY <1>4, AnswerTyped
  <2>2. \A l : l \notin adrift' => ~Carries(write[w], l)  BY <1>4 DEF Carries
  <2>3. adrift \subseteq adrift' /\ adrift' \subseteq Listings  BY <1>2, <1>4, CatalogTypes
  <2> QED BY <1>1, <2>1, <2>2, <2>3, NothingsTyped, NoWriteCarries, CatalogTypes, WriteMoves
<1> QED BY <1>3, <1>4 DEF Audits

LEMMA UpsertFailsKeeps ==
  ASSUME CatalogInv, NEW w \in Requests, UpsertFails(w)
  PROVE  CatalogInv'
<1>1. /\ row' = row /\ search' = search /\ bootstrapped' = bootstrapped /\ shelf' = shelf
      /\ query' = query /\ snapshot' = [snapshot EXCEPT ![w] = NoSnapshot]
      /\ restarts' = restarts /\ saves' = saves /\ write[w].pc \in {"audited", "snapped"}
      /\ adrift' = adrift \cup {write[w].l} /\ Answers(w, TRUE)
  BY DEF UpsertFails
<1>2. write[w] \in WriteType /\ write[w].l \in Listings  BY <1>1, CatalogTypes
<1>3. /\ write' = [write EXCEPT ![w] = NoWrite] /\ draft' \in [Admins -> DraftType]
      /\ \A a \in Admins : draft'[a] # NoDraft => draft'[a].l \in Listings
  BY <1>1, AnswerTyped
<1>4. \A l : l \notin adrift' => ~Carries(write[w], l)  BY <1>1 DEF Carries
<1>5. adrift \subseteq adrift' /\ adrift' \subseteq Listings  BY <1>1, <1>2, CatalogTypes
<1>6. /\ snapshot' \in [Booters -> [Listings -> Card]]
      /\ \A b \in Booters : b # w => snapshot'[b] = snapshot[b]
  BY <1>1, CatalogTypes, NothingsTyped
<1>7. saves' \in 0 .. MaxSaves  BY <1>1, CatalogTypes
<1>8. NoWrite \in WriteType /\ NoWrite.pc = "idle"  BY NothingsTyped
<1>9. \A l : ~Carries(NoWrite, l)  BY NoWriteCarries
<1>10. \A l \in Listings : l \notin adrift' =>
          /\ Carries(write[w], l) => Carries(NoWrite, l)
          /\ Carries(NoWrite, l) => Carries(write[w], l) /\ NoWrite.row = write[w].row
  BY <1>4, <1>9
<1>11. /\ row' = row /\ search' = search /\ bootstrapped' = bootstrapped /\ shelf' = shelf
       /\ query' = query /\ restarts' = restarts
  BY <1>1
<1>12. NoWrite.pc # "snapped" /\ (NoWrite.pc # "idle" => NoWrite.l \in Listings)  BY <1>8
<1> QED BY <1>3, <1>5, <1>6, <1>7, <1>8, <1>10, <1>11, <1>12, WriteMoves

\* The row is written: it is adrift if another document, or a bootstrap, is under way.
LEMMA WritesKeeps ==
  ASSUME CatalogInv, NEW w \in Requests, WritesRow(w)
  PROVE  CatalogInv'
<1>1. /\ search' = search /\ bootstrapped' = bootstrapped /\ shelf' = shelf
      /\ snapshot' = snapshot /\ saves' = saves /\ restarts' = restarts
      /\ write[w].pc = "found"
  BY DEF WritesRow
<1>2. write[w] \in WriteType /\ write[w].l \in Listings  BY <1>1, CatalogTypes
<1>3. \A l : ~Carries(write[w], l)  BY <1>1 DEF Carries
<1>4. CASE Answers(w, FALSE) /\ row' = row /\ query' = query /\ adrift' = adrift
  <2>1. /\ write' = [write EXCEPT ![w] = NoWrite] /\ draft' \in [Admins -> DraftType]
        /\ \A a \in Admins : draft'[a] # NoDraft => draft'[a].l \in Listings
    BY <1>4, AnswerTyped
  <2> QED BY <1>1, <1>3, <1>4, <2>1, NothingsTyped, NoWriteCarries, CatalogTypes, WriteMoves
<1>5. CASE LET l == write[w].l IN
           /\ row' = [row EXCEPT ![l] = NewRow(w)]
           /\ write' = [write EXCEPT ![w].pc = "written", ![w].row = NewRow(w)]
           /\ adrift' = IF Undelivered(l) \/ Snapped # {} THEN adrift \cup {l} ELSE adrift
           /\ query' = [s \in Searches |-> [query[s] EXCEPT !.loose = @ \cup {l},
                                                              !.since = @ \cup {l}]]
           /\ UNCHANGED draft
  <2>1. PICK l \in Listings : l = write[w].l  BY <1>2
  <2>2. PICK r : r = NewRow(w)  OBVIOUS
  <2>3. row \in [Listings -> RowType] /\ row[l] \in RowType /\ write[w].row \in RowType
    BY <1>2, CatalogTypes DEF WriteType
  <2>4. r \in RowType
    <3>1. [row[l] EXCEPT !.shown = write[w].row.shown] \in RowType  BY <2>3 DEF RowType
    <3> QED BY <2>1, <2>2, <2>3, <3>1 DEF NewRow
  <2> DEFINE q == [write[w] EXCEPT !.pc = "written", !.row = r]
             Q(s) == [query[s] EXCEPT !.loose = @ \cup {l}, !.since = @ \cup {l}]
  <2>5. /\ row' = [row EXCEPT ![l] = r] /\ write' = [write EXCEPT ![w] = q]
        /\ adrift' = IF Undelivered(l) \/ Snapped # {} THEN adrift \cup {l} ELSE adrift
        /\ query' = [s \in Searches |-> Q(s)] /\ draft' = draft
    BY <1>5, <2>1, <2>2
  <2>6. q \in WriteType /\ q.pc = "written" /\ q.row = r /\ q.l = l
    BY <1>2, <2>1, <2>4 DEF WriteType
  <2>7. ASSUME NEW s \in Searches
        PROVE  /\ Q(s) \in QueryType /\ Q(s).pc = query[s].pc /\ Q(s).q = query[s].q
               /\ Q(s).hits = query[s].hits /\ Q(s).items = query[s].items
               /\ Q(s).loose = query[s].loose \cup {l} /\ Q(s).since = query[s].since \cup {l}
    <3>1. query[s] \in QueryType  BY CatalogTypes
    <3> QED BY <3>1 DEF QueryType
  <2> HIDE DEF q, Q
  <2>8. /\ write' \in [Requests -> WriteType] /\ write'[w] = q
        /\ \A v \in Requests : v # w => write'[v] = write[v]
        /\ \A v \in Requests : write'[v].pc # "idle" => write'[v].l \in Listings
    BY <2>1, <2>5, <2>6, WritePut
  <2>9. /\ row' \in [Listings -> RowType] /\ row'[l] = r
        /\ \A k \in Listings : k # l => row'[k] = row[k]
    BY <2>3, <2>4, <2>5
  <2>10. query' \in [Searches -> QueryType] /\ \A s \in Searches : query'[s] = Q(s)
    BY <2>5, <2>7
  <2>11. \A b : b \in Snapped' <=> b \in Snapped
    BY <1>1, <2>6, <2>7, <2>8, <2>10, WhoBoots, WhoBootsNext
  <2>12. ASSUME NEW k \in Listings PROVE IndexFine(k)'
    <3>1. CASE k # l
      <4>1. \A v \in Requests : Carries(write'[v], k) =>
              Carries(write[v], k) /\ write'[v].row = write[v].row
        BY <2>6, <2>8, <3>1 DEF Carries
      <4>2. Undelivered(k) => Undelivered(k)'
        BY <1>3, <2>8, WhatIsUndelivered, WhatIsUndeliveredNext
      <4>3. k \in adrift => k \in adrift'  BY <2>5
      <4> QED BY <1>1, <2>9, <2>11, <3>1, <4>1, <4>2, <4>3, IndexKept
    <3>2. CASE k = l /\ l \in adrift'  BY <3>2 DEF IndexFine
    <3>3. CASE k = l /\ l \notin adrift'
      <4>1. ~Undelivered(l) /\ Snapped = {}  BY <2>5, <3>3
      <4>2. \A v \in Requests : Carries(write'[v], l) => v = w
        BY <2>8, <4>1, WhatIsUndelivered
      <4>3. Carries(write'[w], l)  BY <2>6, <2>8 DEF Carries
      <4>4. Undelivered(l)'  BY <4>3, WhatIsUndeliveredNext
      <4>5. \A v \in Requests : Carries(write'[v], l) => CardOf(write'[v].row) = CardOf(row'[l])
        BY <2>6, <2>8, <2>9, <4>2
      <4>6. \A u, v \in Requests : (Carries(write'[u], l) /\ Carries(write'[v], l)) => u = v
        BY <4>2
      <4>7. \A b : b \notin Snapped'  BY <2>11, <4>1
      <4> QED BY <3>3, <4>4, <4>5, <4>6, <4>7 DEF IndexFine, Carries, CardOf
    <3> QED BY <3>1, <3>2, <3>3
  <2>13. ASSUME NEW s \in Searches PROVE QueryFine(s)'
    <3>1. QueryFine(s)  BY CatalogTypes
    <3>2. query[s].items \subseteq Listings
      <4>1. query[s] \in QueryType  BY CatalogTypes
      <4> QED BY <4>1 DEF QueryType
    <3>3. \A k \in Listings : k # l => \A f : Fits(k, f)' <=> Fits(k, f)  BY <2>9 DEF Fits
    <3> QED BY <2>7, <2>9, <2>10, <3>1, <3>2, <3>3 DEF QueryFine, Fine, Fits
  <2>14. adrift' \subseteq Listings  BY <2>5, CatalogTypes
  <2> QED BY <1>1, <2>5, <2>8, <2>9, <2>10, <2>12, <2>13, <2>14, CatalogTypes, CatalogTyped
<1> QED BY <1>4, <1>5 DEF WritesRow

\* The document is sent.
LEMMA UpsertsKeeps ==
  ASSUME CatalogInv, NEW w \in Requests, Upserts(w)
  PROVE  CatalogInv'
<1>1. /\ row' = row /\ bootstrapped' = bootstrapped /\ shelf' = shelf
      /\ query' = query /\ snapshot' = snapshot /\ restarts' = restarts /\ saves' = saves
      /\ write[w].pc = "audited" /\ Answers(w, TRUE)
      /\ search' = [search EXCEPT ![write[w].l] = CardOf(write[w].row)]
      /\ adrift' = {l \in adrift : l # write[w].l \/ ~Settles(l, w, CardOf(write[w].row))}
  BY DEF Upserts
<1>2. write[w] \in WriteType /\ write[w].l \in Listings  BY <1>1, CatalogTypes
<1>3. PICK l \in Listings : l = write[w].l  BY <1>2
<1>4. PICK card \in Card : card = CardOf(write[w].row)
  BY <1>2, CardsTyped DEF WriteType
<1>5. /\ write' = [write EXCEPT ![w] = NoWrite] /\ draft' \in [Admins -> DraftType]
      /\ \A a \in Admins : draft'[a] # NoDraft => draft'[a].l \in Listings
  BY <1>1, AnswerTyped
<1>6. /\ write' \in [Requests -> WriteType] /\ write'[w] = NoWrite
      /\ \A v \in Requests : v # w => write'[v] = write[v]
      /\ \A v \in Requests : write'[v].pc # "idle" => write'[v].l \in Listings
  BY <1>5, NothingsTyped, WritePut
<1>7. /\ search' \in [Listings -> Card] /\ search'[l] = card
      /\ \A k \in Listings : k # l => search'[k] = search[k]
  BY <1>1, <1>3, <1>4, CatalogTypes
<1>8. \A b : b \in Snapped' <=> b \in Snapped
  BY <1>1, <1>6, NothingsTyped, WhoBoots, WhoBootsNext
<1>9. ASSUME NEW k \in Listings PROVE IndexFine(k)'
  <2>1. \A v \in Requests : Carries(write'[v], k) => v # w /\ Carries(write[v], k)
    BY <1>6, NoWriteCarries
  <2>2. CASE k # l
    <3>1. \A v \in Requests : Carries(write'[v], k) => write'[v].row = write[v].row
      BY <1>6, <2>1
    <3>2. Undelivered(k) => Undelivered(k)'
      <4>1. ~Carries(write[w], k)  BY <1>3, <2>2 DEF Carries
      <4> QED BY <1>6, <4>1, WhatIsUndelivered, WhatIsUndeliveredNext
    <3>3. k \in adrift => k \in adrift'  BY <1>1, <1>3, <2>2
    <3> QED BY <1>1, <1>7, <1>8, <2>1, <2>2, <3>1, <3>2, <3>3, IndexKept
  <2>3. CASE k = l /\ l \in adrift'  BY <2>3 DEF IndexFine
  <2>4. CASE k = l /\ l \notin adrift' /\ l \in adrift
    <3>1. Settles(l, w, card)  BY <1>1, <1>3, <1>4, <2>4
    <3>2. card = CardOf(row'[l])  BY <1>1, <3>1 DEF Settles
    <3>3. \A v \in Requests : ~Carries(write'[v], l)
      BY <1>6, <2>1, <2>4, <3>1 DEF Settles, Carries
    <3>4. w \notin Snapped  BY <1>1, WhoBoots, CatalogAssumption
    <3>5. \A b : b \notin Snapped'  BY <1>8, <3>1, <3>4 DEF Settles
    <3> QED BY <1>7, <2>4, <3>2, <3>3, <3>5 DEF IndexFine, Carries, CardOf
  <2>5. CASE k = l /\ l \notin adrift' /\ l \notin adrift
    <3>1. IndexFine(l) /\ Carries(write[w], l)  BY <1>1, <1>3, CatalogTypes DEF Carries
    <3>2. card = CardOf(row[l])  BY <1>4, <2>5, <3>1 DEF IndexFine
    <3>3. \A v \in Requests : ~Carries(write'[v], l)  BY <2>1, <2>5, <3>1 DEF IndexFine
    <3>4. \A b \in Snapped' : snapshot'[b][l] = CardOf(row[l])
      BY <1>1, <1>8, <2>5, <3>1 DEF IndexFine
    <3>5. row'[l] = row[l]  BY <1>1
    <3> QED BY <1>7, <2>5, <3>2, <3>3, <3>4, <3>5 DEF IndexFine, Carries, CardOf
  <2> QED BY <2>2, <2>3, <2>4, <2>5
<1>10. \A s \in Searches : QueryFine(s)'  BY <1>1, QueriesKept
<1>11. adrift' \subseteq Listings  BY <1>1, CatalogTypes
<1> QED BY <1>1, <1>5, <1>6, <1>7, <1>9, <1>10, <1>11, CatalogTypes, CatalogTyped

-----------------------------------------------------------------------------
(* The index as a whole.                                                    *)

\* A request, or a search, begins or ends its bootstrap: nothing else of it changes.
LEMMA StepsKeep ==
  ASSUME CatalogInv, NEW b \in Booters, NEW pc, Steps(b, pc), row' = row,
         b \in Requests => /\ write[b].pc \in {"audited", "snapped"}
                           /\ pc \in {"audited", "snapped"},
         b \in Searches => /\ query[b].pc \in {"asked", "snapped"}
                           /\ pc \in {"asked", "snapped"}
  PROVE  /\ write' \in [Requests -> WriteType] /\ query' \in [Searches -> QueryType]
         /\ \A v \in Requests : write'[v].pc # "idle" => write'[v].l \in Listings
         /\ \A v \in Requests : write'[v].row = write[v].row
         /\ \A v \in Requests : \A l : Carries(write'[v], l) <=> Carries(write[v], l)
         /\ \A s \in Searches : QueryFine(s)'
         /\ \A c : c # b => (c \in Snapped' <=> c \in Snapped)
         /\ b \in Snapped' => pc = "snapped"
<1>1. CASE b \in Requests
  <2> DEFINE q == [write[b] EXCEPT !.pc = pc]
  <2>1. write[b] \in WriteType /\ write[b].l \in Listings  BY <1>1, CatalogTypes
  <2>2. q \in WriteType /\ q.l = write[b].l /\ q.pc = pc /\ q.row = write[b].row
    BY <1>1, <2>1 DEF WriteType
  <2>3. write' = [write EXCEPT ![b] = q] /\ query' = query  BY <1>1 DEF Steps
  <2> HIDE DEF q
  <2>4. /\ write' \in [Requests -> WriteType] /\ write'[b] = q
        /\ \A v \in Requests : v # b => write'[v] = write[v]
        /\ \A v \in Requests : write'[v].pc # "idle" => write'[v].l \in Listings
    BY <1>1, <2>1, <2>2, <2>3, WritePut
  <2>5. \A v \in Requests : write'[v].row = write[v].row  BY <2>2, <2>4
  <2>6. \A v \in Requests : \A l : Carries(write'[v], l) <=> Carries(write[v], l)
    BY <1>1, <2>2, <2>4 DEF Carries
  <2>7. \A s \in Searches : QueryFine(s)'  BY <2>3, QueriesKept
  <2>8. b \notin Searches  BY <1>1, CatalogAssumption
  <2>9. \A c : c # b => (c \in Snapped' <=> c \in Snapped)
    BY <2>3, <2>4, WhoBoots, WhoBootsNext
  <2>10. b \in Snapped' => pc = "snapped"  BY <2>2, <2>4, <2>8, WhoBootsNext
  <2> QED BY <2>3, <2>4, <2>5, <2>6, <2>7, <2>9, <2>10, CatalogTypes
<1>2. CASE b \in Searches
  <2> DEFINE q == [query[b] EXCEPT !.pc = pc]
  <2>1. b \notin Requests  BY <1>2, CatalogAssumption
  <2>2. query \in [Searches -> QueryType] /\ query[b] \in QueryType  BY <1>2, CatalogTypes
  <2>3. q \in QueryType /\ q.pc = pc  BY <1>2, <2>2 DEF QueryType
  <2>4. query' = [query EXCEPT ![b] = q] /\ write' = write  BY <2>1 DEF Steps
  <2> HIDE DEF q
  <2>5. /\ query' \in [Searches -> QueryType] /\ query'[b] = q
        /\ \A s \in Searches : s # b => query'[s] = query[s]
    BY <1>2, <2>2, <2>3, <2>4
  <2>6. ASSUME NEW s \in Searches PROVE QueryFine(s)'
    <3>1. QueryFine(s)  BY CatalogTypes
    <3>2. CASE s = b  BY <1>2, <2>3, <2>5, <3>2 DEF QueryFine, Fine
    <3>3. CASE s # b  BY <2>5, <3>1, <3>3 DEF QueryFine, Fine, Fits
    <3> QED BY <3>2, <3>3
  <2>7. \A c : c # b => (c \in Snapped' <=> c \in Snapped)
    BY <2>4, <2>5, WhoBoots, WhoBootsNext
  <2>8. b \in Snapped' => pc = "snapped"  BY <2>1, <2>3, <2>5, WhoBootsNext
  <2> QED BY <2>4, <2>5, <2>6, <2>7, <2>8, CatalogTypes
<1> QED BY <1>1, <1>2 DEF Booters

LEMMA BootReadsKeeps ==
  ASSUME CatalogInv, NEW b \in Booters, BootReads(b)
  PROVE  CatalogInv'
<1>1. /\ row' = row /\ search' = search /\ bootstrapped' = bootstrapped /\ shelf' = shelf
      /\ draft' = draft /\ adrift' = adrift /\ restarts' = restarts /\ saves' = saves
      /\ Waits(b) /\ Steps(b, "snapped") /\ snapshot' = [snapshot EXCEPT ![b] = Cards]
  BY DEF BootReads
<1>2. /\ b \in Requests => write[b].pc = "audited"
      /\ b \in Searches => query[b].pc = "asked"
  BY <1>1, CatalogAssumption DEF Waits
<1>3. /\ write' \in [Requests -> WriteType] /\ query' \in [Searches -> QueryType]
      /\ \A v \in Requests : write'[v].pc # "idle" => write'[v].l \in Listings
      /\ \A v \in Requests : write'[v].row = write[v].row
      /\ \A v \in Requests : \A l : Carries(write'[v], l) <=> Carries(write[v], l)
      /\ \A s \in Searches : QueryFine(s)'
      /\ \A c : c # b => (c \in Snapped' <=> c \in Snapped)
  BY <1>1, <1>2, StepsKeep
<1>4. /\ snapshot' \in [Booters -> [Listings -> Card]] /\ snapshot'[b] = Cards
      /\ \A c \in Booters : c # b => snapshot'[c] = snapshot[c]
  BY <1>1, CatalogTypes, AllCardsTyped
<1>5. \A c \in Snapped : c \in Booters  BY WhoBoots DEF Booters
<1>6. ASSUME NEW l \in Listings PROVE IndexFine(l)'
  <2>1. IndexFine(l)  BY CatalogTypes
  <2>2. Undelivered(l)' <=> Undelivered(l)  BY <1>3, WhatIsUndelivered, WhatIsUndeliveredNext
  <2>3. CASE l \in adrift  BY <1>1, <2>3 DEF IndexFine
  <2>4. CASE l \notin adrift
    <3>1. ASSUME NEW c \in Snapped' PROVE snapshot'[c][l] = CardOf(row'[l])
      <4>1. CASE c = b  BY <1>1, <1>4, <4>1, AllCardsTyped DEF CardOf
      <4>2. CASE c # b  BY <1>1, <1>3, <1>4, <1>5, <2>1, <2>4, <4>2 DEF IndexFine
      <4> QED BY <4>1, <4>2
    <3>2. \A v \in Requests : Carries(write'[v], l) => CardOf(write'[v].row) = CardOf(row'[l])
      BY <1>1, <1>3, <2>1, <2>4 DEF IndexFine
    <3>3. \A u, v \in Requests : (Carries(write'[u], l) /\ Carries(write'[v], l)) => u = v
      BY <1>3, <2>1, <2>4 DEF IndexFine
    <3>4. bootstrapped' => (Undelivered(l)' \/ search'[l] = CardOf(row'[l]))
      BY <1>1, <2>1, <2>2, <2>4 DEF IndexFine
    <3> QED BY <3>1, <3>2, <3>3, <3>4 DEF IndexFine, Carries, CardOf
  <2> QED BY <2>3, <2>4
<1> QED BY <1>1, <1>3, <1>4, <1>6, CatalogTypes, CatalogTyped

LEMMA PostsKeeps ==
  ASSUME CatalogInv, NEW b \in Booters, BootPosts(b)
  PROVE  CatalogInv'
<1>0. PICK pc : pc = IF b \in Requests THEN "audited" ELSE "asked"  OBVIOUS
<1>1. /\ row' = row /\ bootstrapped' = TRUE /\ shelf' = shelf /\ draft' = draft
      /\ search' = snapshot[b] /\ restarts' = restarts /\ saves' = saves
      /\ adrift' = {l \in adrift : Undelivered(l) \/ ~Settles(l, b, snapshot[b][l])}
      /\ b \in Snapped /\ Steps(b, pc) /\ snapshot' = [snapshot EXCEPT ![b] = NoSnapshot]
  BY <1>0 DEF BootPosts
<1>2. /\ b \in Requests => write[b].pc = "snapped" /\ b \notin Searches /\ pc = "audited"
      /\ b \in Searches => query[b].pc = "snapped" /\ b \notin Requests /\ pc = "asked"
  BY <1>0, <1>1, WhoBoots, CatalogAssumption
<1>3. /\ write' \in [Requests -> WriteType] /\ query' \in [Searches -> QueryType]
      /\ \A v \in Requests : write'[v].pc # "idle" => write'[v].l \in Listings
      /\ \A v \in Requests : write'[v].row = write[v].row
      /\ \A v \in Requests : \A l : Carries(write'[v], l) <=> Carries(write[v], l)
      /\ \A s \in Searches : QueryFine(s)'
      /\ \A c : c # b => (c \in Snapped' <=> c \in Snapped)
      /\ b \in Snapped' => pc = "snapped"
  <2>1. b \in Requests => /\ write[b].pc \in {"audited", "snapped"}
                          /\ pc \in {"audited", "snapped"}
    BY <1>2
  <2>2. b \in Searches => /\ query[b].pc \in {"asked", "snapped"}
                          /\ pc \in {"asked", "snapped"}
    BY <1>2
  <2>3. Steps(b, pc) /\ row' = row  BY <1>1
  <2> QED BY <2>1, <2>2, <2>3, StepsKeep
<1>4. b \notin Snapped'  BY <1>2, <1>3 DEF Booters
<1>5. /\ snapshot' \in [Booters -> [Listings -> Card]] /\ search' \in [Listings -> Card]
      /\ \A c \in Booters : c # b => snapshot'[c] = snapshot[c]
  BY <1>1, CatalogTypes, NothingsTyped
<1>6. \A c \in Snapped : c \in Booters  BY WhoBoots DEF Booters
<1>7. ASSUME NEW l \in Listings PROVE IndexFine(l)'
  <2>1. IndexFine(l)  BY CatalogTypes
  <2>2. CASE l \in adrift'  BY <2>2 DEF IndexFine
  <2>3. CASE l \notin adrift' /\ l \in adrift
    <3>1. ~Undelivered(l) /\ Settles(l, b, snapshot[b][l])  BY <1>1, <2>3
    <3>2. search'[l] = CardOf(row'[l])  BY <1>1, <3>1 DEF Settles
    <3>3. \A c : c \notin Snapped'  BY <1>3, <1>4, <3>1 DEF Settles
    <3>4. \A v \in Requests : ~Carries(write'[v], l)  BY <1>3, <3>1, WhatIsUndelivered
    <3> QED BY <3>2, <3>3, <3>4 DEF IndexFine, Carries, CardOf
  <2>4. CASE l \notin adrift' /\ l \notin adrift
    <3>1. search'[l] = CardOf(row'[l])  BY <1>1, <2>1, <2>4 DEF IndexFine
    <3>2. \A c \in Snapped' : snapshot'[c][l] = CardOf(row'[l])
      BY <1>1, <1>3, <1>4, <1>5, <1>6, <2>1, <2>4 DEF IndexFine
    <3>3. \A v \in Requests : Carries(write'[v], l) => CardOf(write'[v].row) = CardOf(row'[l])
      BY <1>1, <1>3, <2>1, <2>4 DEF IndexFine
    <3>4. \A u, v \in Requests : (Carries(write'[u], l) /\ Carries(write'[v], l)) => u = v
      BY <1>3, <2>1, <2>4 DEF IndexFine
    <3> QED BY <3>1, <3>2, <3>3, <3>4 DEF IndexFine, Carries, CardOf
  <2> QED BY <2>2, <2>3, <2>4
<1>8. adrift' \subseteq Listings /\ bootstrapped' \in BOOLEAN  BY <1>1, CatalogTypes
<1> QED BY <1>1, <1>3, <1>5, <1>7, <1>8, CatalogTypes, CatalogTyped

\* The rows are what is left.
LEMMA RestartKeeps ==
  ASSUME CatalogInv, Restart
  PROVE  CatalogInv'
<1>1. /\ row' = row /\ shelf' = shelf /\ draft' = draft /\ saves' = saves
      /\ restarts < MaxRestarts /\ restarts' = restarts + 1
      /\ write' = [w \in Requests |-> NoWrite] /\ query' = [s \in Searches |-> NoQuery]
      /\ snapshot' = [b \in Booters |-> NoSnapshot]
  BY DEF Restart
<1>2. \/ search' = Cards /\ bootstrapped' = TRUE /\ adrift' = {}
      \/ bootstrapped' = FALSE /\ search' = search /\ adrift' = adrift
  BY DEF Restart
<1>3. /\ search' \in [Listings -> Card] /\ bootstrapped' \in BOOLEAN /\ adrift' \subseteq Listings
  BY <1>2, CatalogTypes, AllCardsTyped
<1>4. /\ write' \in [Requests -> WriteType] /\ query' \in [Searches -> QueryType]
      /\ \A w \in Requests : write'[w] = NoWrite
      /\ \A s \in Searches : query'[s] = NoQuery
      /\ snapshot' \in [Booters -> [Listings -> Card]]
  BY <1>1, NothingsTyped
<1>5. restarts' \in 0 .. MaxRestarts  BY <1>1, CatalogTypes
<1>6. \A b : b \notin Snapped'  BY <1>4, NothingsTyped, WhoBootsNext
<1>7. \A l : \A w \in Requests : ~Carries(write'[w], l)  BY <1>4, NoWriteCarries
<1>8. ASSUME NEW l \in Listings PROVE IndexFine(l)'
  <2>1. bootstrapped' => search'[l] = CardOf(row'[l])
    BY <1>1, <1>2, AllCardsTyped DEF CardOf
  <2> QED BY <1>6, <1>7, <2>1 DEF IndexFine, Carries, CardOf
<1>9. \A s \in Searches : QueryFine(s)'  BY <1>4, NothingsTyped DEF QueryFine, Fine
<1>10. \A w \in Requests : write'[w].pc # "idle" => write'[w].l \in Listings
  BY <1>4, NothingsTyped
<1> QED BY <1>1, <1>3, <1>4, <1>5, <1>8, <1>9, <1>10, CatalogTypes, CatalogTyped

-----------------------------------------------------------------------------
(* ProductsService.list, with a query.                                      *)

LEMMA QueryMoves ==
  ASSUME CatalogInv, NEW s \in Searches, NEW q \in QueryType,
         query' = [query EXCEPT ![s] = q], row' = row, search' = search,
         bootstrapped' = bootstrapped, shelf' = shelf, draft' = draft, write' = write,
         adrift' = adrift, saves' = saves, restarts' = restarts, q.pc # "snapped",
         snapshot' \in [Booters -> [Listings -> Card]],
         \A b \in Booters : b # s => snapshot'[b] = snapshot[b], Fine(q)
  PROVE  CatalogInv'
<1>1. /\ query' \in [Searches -> QueryType] /\ query'[s] = q
      /\ \A t \in Searches : t # s => query'[t] = query[t]
  BY CatalogTypes
<1>2. ASSUME NEW t \in Searches PROVE QueryFine(t)'
  <2>1. QueryFine(t)  BY CatalogTypes
  <2> QED BY <1>1, <2>1 DEF QueryFine, Fine, Fits
<1>3. s \notin Requests /\ s \in Booters  BY CatalogAssumption DEF Booters
<1>4. ASSUME NEW b \in Snapped' PROVE b \in Snapped /\ b # s /\ b \in Booters
  BY <1>1, <1>3, WhoBoots, WhoBootsNext DEF Booters
<1>5. ASSUME NEW l \in Listings PROVE IndexFine(l)'
  <2>1. Undelivered(l) => Undelivered(l)'  BY DEF Undelivered
  <2>2. \A b \in Snapped' : b \in Snapped /\ snapshot'[b][l] = snapshot[b][l]  BY <1>4
  <2> QED BY <2>1, <2>2, IndexKept
<1> QED BY <1>1, <1>2, <1>5, CatalogTypes, CatalogTyped

LEMMA AsksShopKeeps ==
  ASSUME CatalogInv, NEW s \in Searches, AsksShop(s)
  PROVE  CatalogInv'
<1>1. /\ row' = row /\ search' = search /\ bootstrapped' = bootstrapped /\ shelf' = shelf
      /\ draft' = draft /\ write' = write /\ adrift' = adrift /\ saves' = saves
      /\ restarts' = restarts /\ snapshot' = snapshot
  BY DEF AsksShop
<1>2. PICK f \in Faces : query' = [query EXCEPT ![s] = [NoQuery EXCEPT !.pc = "asked", !.q = f]]
  BY DEF AsksShop
<1> DEFINE q == [NoQuery EXCEPT !.pc = "asked", !.q = f]
<1>3. q \in QueryType /\ q.pc = "asked"  BY DEF NoQuery, QueryType
<1>4. query' = [query EXCEPT ![s] = q]  BY <1>2
<1> HIDE DEF q
<1>5. Fine(q)  BY <1>3 DEF Fine
<1> QED BY <1>1, <1>3, <1>4, <1>5, CatalogTypes, QueryMoves

LEMMA SlugsKeeps ==
  ASSUME CatalogInv, NEW s \in Searches, SlugsRead(s)
  PROVE  CatalogInv'
<1>1. /\ row' = row /\ search' = search /\ bootstrapped' = bootstrapped /\ shelf' = shelf
      /\ draft' = draft /\ write' = write /\ adrift' = adrift /\ saves' = saves
      /\ restarts' = restarts /\ snapshot' = snapshot /\ bootstrapped
  BY DEF SlugsRead
<1>2. query[s] \in QueryType  BY CatalogTypes
<1>3. PICK H : H = {l \in Listings : search[l].face = query[s].q /\ search[l].shown}  OBVIOUS
<1>4. PICK L : L = {l \in Listings : l \in adrift \/ Undelivered(l) \/ Snapped # {}}  OBVIOUS
<1> DEFINE q == [query[s] EXCEPT !.pc = "slugs", !.hits = H, !.loose = L]
<1>5. /\ q \in QueryType /\ q.pc = "slugs" /\ q.hits = H /\ q.loose = L /\ q.q = query[s].q
  BY <1>2, <1>3, <1>4 DEF QueryType
<1>6. query' = [query EXCEPT ![s] = q]  BY <1>3, <1>4 DEF SlugsRead
<1> HIDE DEF q
<1>7. ASSUME NEW l \in Listings, l \notin L PROVE l \in H <=> Fits(l, query[s].q)
  <2>1. IndexFine(l) /\ row[l] \in RowType  BY CatalogTypes
  <2>2. search[l] = CardOf(row[l])  BY <1>1, <1>4, <1>7, <2>1 DEF IndexFine
  <2>3. search[l].face = row[l].face /\ search[l].shown = row[l].shown  BY <2>1, <2>2, CardsTyped
  <2> QED BY <1>3, <2>3 DEF Fits
<1>8. Fine(q)  BY <1>5, <1>7 DEF Fine
<1> QED BY <1>1, <1>5, <1>6, <1>8, CatalogTypes, QueryMoves

LEMMA FallsKeeps ==
  ASSUME CatalogInv, NEW s \in Searches, FallsBack(s)
  PROVE  CatalogInv'
<1>1. /\ row' = row /\ search' = search /\ bootstrapped' = bootstrapped /\ shelf' = shelf
      /\ draft' = draft /\ write' = write /\ adrift' = adrift /\ saves' = saves
      /\ restarts' = restarts /\ snapshot' = [snapshot EXCEPT ![s] = NoSnapshot]
  BY DEF FallsBack
<1>2. query[s] \in QueryType  BY CatalogTypes
<1> DEFINE q == [query[s] EXCEPT !.pc = "contains", !.loose = {}]
<1>3. q \in QueryType /\ q.pc = "contains"  BY <1>2 DEF QueryType
<1>4. query' = [query EXCEPT ![s] = q]  BY DEF FallsBack
<1> HIDE DEF q
<1>5. Fine(q)  BY <1>3 DEF Fine
<1>6. /\ snapshot' \in [Booters -> [Listings -> Card]]
      /\ \A b \in Booters : b # s => snapshot'[b] = snapshot[b]
  BY <1>1, CatalogTypes, NothingsTyped
<1> QED BY <1>1, <1>3, <1>4, <1>5, <1>6, CatalogTypes, QueryMoves

\* Either way of listing: what it found is what the rows show.
LEMMA ListsKeeps ==
  ASSUME CatalogInv, NEW s \in Searches, ListsBySlugs(s) \/ ListsContaining(s)
  PROVE  CatalogInv'
<1>1. query[s] \in QueryType /\ QueryFine(s)  BY CatalogTypes
<1>2. PICK I \in SUBSET Listings :
        /\ Answered(s, I) /\ \A l \in I : row[l].shown
        /\ \A l \in Listings : l \notin query[s].loose => (l \in I <=> Fits(l, query[s].q))
  <2>1. CASE ListsBySlugs(s)
    <3>1. PICK I : I = {l \in query[s].hits : row[l].shown}  OBVIOUS
    <3>2. I \in SUBSET Listings /\ \A l \in I : row[l].shown  BY <1>1, <3>1 DEF QueryType
    <3>3. \A l \in Listings : l \notin query[s].loose => (l \in I <=> Fits(l, query[s].q))
      BY <1>1, <2>1, <3>1 DEF ListsBySlugs, QueryFine, Fine, Fits
    <3> QED BY <2>1, <3>1, <3>2, <3>3 DEF ListsBySlugs
  <2>2. CASE ListsContaining(s)
    <3>1. PICK I : I = {l \in Listings : row[l].face = query[s].q /\ row[l].shown}  OBVIOUS
    <3>2. I \in SUBSET Listings /\ \A l \in I : row[l].shown  BY <3>1
    <3>3. \A l \in Listings : l \notin query[s].loose => (l \in I <=> Fits(l, query[s].q))
      BY <3>1 DEF Fits
    <3> QED BY <2>2, <3>1, <3>2, <3>3 DEF ListsContaining
  <2> QED BY <2>1, <2>2
<1>3. /\ row' = row /\ search' = search /\ bootstrapped' = bootstrapped /\ shelf' = shelf
      /\ draft' = draft /\ write' = write /\ adrift' = adrift /\ saves' = saves
      /\ restarts' = restarts /\ snapshot' = snapshot
  BY <1>2 DEF Answered
<1> DEFINE q == [query[s] EXCEPT !.pc = "answered", !.hits = {}, !.since = {}, !.items = I]
<1>4. /\ q \in QueryType /\ q.pc = "answered" /\ q.items = I /\ q.loose = query[s].loose
      /\ q.q = query[s].q
  BY <1>1 DEF QueryType
<1>5. query' = [query EXCEPT ![s] = q]  BY <1>2 DEF Answered
<1> HIDE DEF q
<1>6. Fine(q)  BY <1>2, <1>4 DEF Fine
<1> QED BY <1>3, <1>4, <1>5, <1>6, CatalogTypes, QueryMoves

-----------------------------------------------------------------------------
LEMMA CatalogBegins ==
  ASSUME CatalogInit
  PROVE  CatalogInv
<1>1. /\ row \in [Listings -> {NoRowYet} \cup [face : Faces, shown : {TRUE}, told : {TRUE}]]
      /\ bootstrapped = TRUE /\ search = Cards /\ shelf = [a \in Admins |-> Cards]
      /\ draft = [a \in Admins |-> NoDraft] /\ write = [w \in Requests |-> NoWrite]
      /\ query = [s \in Searches |-> NoQuery] /\ snapshot = [b \in Booters |-> NoSnapshot]
      /\ adrift = {} /\ saves = 0 /\ restarts = 0
  BY DEF CatalogInit
<1>2. row \in [Listings -> RowType]
  <2>1. {NoRowYet} \cup [face : Faces, shown : {TRUE}, told : {TRUE}] \subseteq RowType
    BY NothingsTyped DEF RowType
  <2> QED BY <1>1, <2>1
<1>3. Cards \in [Listings -> Card] /\ \A l \in Listings : Cards[l] = CardOf(row[l])
  BY <1>2, CardsTyped DEF Cards
<1>4. CatalogTypeOK
  <2>1. /\ draft \in [Admins -> DraftType] /\ write \in [Requests -> WriteType]
        /\ query \in [Searches -> QueryType] /\ snapshot \in [Booters -> [Listings -> Card]]
    BY <1>1, NothingsTyped
  <2>2. search \in [Listings -> Card] /\ shelf \in [Admins -> [Listings -> Card]]
    BY <1>1, <1>3
  <2>3. saves \in 0 .. MaxSaves /\ restarts \in 0 .. MaxRestarts  BY <1>1, CatalogAssumption
  <2> QED BY <1>1, <1>2, <2>1, <2>2, <2>3 DEF CatalogTypeOK, DraftType, WriteType, QueryType
<1>5. ASSUME NEW l \in Listings PROVE IndexFine(l)
  <2>1. search[l] = CardOf(row[l])  BY <1>1, <1>3
  <2>2. \A w \in Requests : ~Carries(write[w], l)  BY <1>1, NoWriteCarries
  <2>3. \A b : b \notin Snapped  BY <1>1, NothingsTyped, WhoBoots
  <2> QED BY <2>1, <2>2, <2>3 DEF IndexFine
<1>6. \A s \in Searches : QueryFine(s)  BY <1>1, NothingsTyped DEF QueryFine, Fine
<1>7. \A w \in Requests : write[w].pc = "idle"  BY <1>1, NothingsTyped
<1>8. \A a \in Admins : draft[a] = NoDraft  BY <1>1
<1> QED BY <1>4, <1>5, <1>6, <1>7, <1>8 DEF CatalogInv

LEMMA CatalogStep ==
  ASSUME CatalogInv, CatalogNext
  PROVE  CatalogInv'
<1>1. ASSUME NEW a \in Admins,
             \/ LoadShelf(a) \/ OpenNew(a) \/ OpenEdit(a) \/ TypeFace(a)
             \/ CloseDraft(a) \/ PressSave(a) \/ PressToggle(a)
      PROVE  CatalogInv'
  BY <1>1, ShelfKeeps, DraftKeeps, PressKeeps
<1>2. ASSUME NEW w \in Requests,
             Looks(w) \/ WritesRow(w) \/ Audits(w) \/ Upserts(w) \/ UpsertFails(w)
      PROVE  CatalogInv'
  BY <1>2, LooksKeeps, WritesKeeps, AuditsKeeps, UpsertsKeeps, UpsertFailsKeeps
<1>3. ASSUME NEW b \in Booters, BootReads(b) \/ BootPosts(b) PROVE CatalogInv'
  BY <1>3, BootReadsKeeps, PostsKeeps
<1>4. ASSUME NEW s \in Searches,
             \/ AsksShop(s) \/ SlugsRead(s) \/ FallsBack(s) \/ ListsBySlugs(s)
             \/ ListsContaining(s)
      PROVE  CatalogInv'
  BY <1>4, AsksShopKeeps, SlugsKeeps, FallsKeeps, ListsKeeps
<1>5. CASE Restart  BY <1>5, RestartKeeps
<1> QED BY <1>1, <1>2, <1>3, <1>4, <1>5 DEF CatalogNext

LEMMA CatalogRests ==
  ASSUME CatalogInv, UNCHANGED catalogVars
  PROVE  CatalogInv'
<1>1. /\ row' = row /\ search' = search /\ bootstrapped' = bootstrapped /\ shelf' = shelf
      /\ draft' = draft /\ write' = write /\ query' = query /\ snapshot' = snapshot
      /\ adrift' = adrift /\ saves' = saves /\ restarts' = restarts
  BY DEF catalogVars
<1> QED BY <1>1, CatalogTypes, PageOnly

LEMMA CatalogMeansSound ==
  ASSUME CatalogInv
  PROVE  CatalogTypeOK /\ CatalogSound
<1>1. CatalogTypeOK  BY DEF CatalogInv
<1>2. DriftHasCause  BY CatalogTypes DEF DriftHasCause, IndexFine
<1>3. HiddenStaysHidden  BY CatalogTypes DEF HiddenStaysHidden, QueryFine, Fine
<1>4. SearchTrue  BY CatalogTypes DEF SearchTrue, QueryFine, Fine, Fits
<1> QED BY <1>1, <1>2, <1>3, <1>4 DEF CatalogSound

\* Rows, documents, drafts, requests and searches of the catalogue keep their types: the admin's
\* page (ProductManager.tsx), the writes of admin-listings.service.ts and the index of
\* meili.service.ts, however their steps interleave.
THEOREM CatalogKeepsTypes == CatalogSpec => []CatalogTypeOK
<1>1. CatalogInit => CatalogInv  BY CatalogBegins
<1>2. CatalogInv /\ [CatalogNext]_catalogVars => CatalogInv'  BY CatalogStep, CatalogRests
<1>3. CatalogInv => CatalogTypeOK  BY CatalogMeansSound
<1> QED BY <1>1, <1>2, <1>3, PTL DEF CatalogSpec

\* The index of meili.service.ts differs from the product rows only while a write is on its way or
\* for a listing known to be adrift; no search brings up a piece that is out of the boutique; and
\* a search finds exactly what the rows show of a query, listings written under it or adrift aside.
\* For any number of pages, listings, searches, saves and restarts.
THEOREM CatalogIsSound == CatalogSpec => []CatalogSound
<1>1. CatalogInit => CatalogInv  BY CatalogBegins
<1>2. CatalogInv /\ [CatalogNext]_catalogVars => CatalogInv'  BY CatalogStep, CatalogRests
<1>3. CatalogInv => CatalogSound  BY CatalogMeansSound
<1> QED BY <1>1, <1>2, <1>3, PTL DEF CatalogSpec

-----------------------------------------------------------------------------
(***************************************************************************)
(* The pages of an order (OrderPages).                                     *)
(***************************************************************************)
-----------------------------------------------------------------------------
\* A status that the order only gets to by leaving PENDING.
MovedOn(s) == s \in STATUSES /\ s # "PENDING"

\* Whatever has heard of another status than PENDING, the order is not PENDING any more; a page
\* that has been told is painted so, or a refresh that read it too early has another behind it.
PageBooks ==
  /\ told => MovedOn(orderStatus)
  /\ painted # "PENDING" => MovedOn(orderStatus) /\ repaint[Customer] # "PENDING"
  /\ \A a \in Questions : MovedOn(asking[a]) => MovedOn(orderStatus)
  /\ MovedOn(repaint[Customer]) => MovedOn(orderStatus)
  /\ cancelling = "ok" => MovedOn(orderStatus)
  /\ (told /\ painted = "PENDING") =>
       (repaint[Customer] # "none" /\ (repaint[Customer] = "PENDING" => Customer \in again))
  /\ PollsWhileSyncing

\* A select shows what it is moving to; at a desk that is sure, what it will go back to, or has
\* moved to, is the order's status.
DeskBooks(d) ==
  /\ moving[d] # NoMove => desk[d].value = moving[d].to
  /\ (d \notin unsure /\ moving[d] = NoMove) => desk[d].value = orderStatus
  /\ (d \notin unsure /\ moving[d].at = "ok") => moving[d].to = orderStatus
  /\ (d \notin unsure /\ moving[d].at \in {"sent", "refused"}) => moving[d].was = orderStatus

OrderPagesInv == OrderPagesTypeOK /\ PageBooks /\ \A d \in Desks : DeskBooks(d)

DeskRows == [status : STATUSES, value : STATUSES]

LEMMA StatusFacts ==
  /\ "none" \notin STATUSES /\ "asked" \notin STATUSES /\ "sent" \notin STATUSES
  /\ "PENDING" \in STATUSES /\ "CANCELLED" \in STATUSES
  /\ MovedOn("CANCELLED") /\ ~MovedOn("none") /\ ~MovedOn("asked") /\ ~MovedOn("sent")
  /\ ~MovedOn("PENDING")
BY DEF STATUSES, MovedOn

\* No edge of the status machine leads back to PENDING.
LEMMA EdgesLeavePending ==
  ASSUME NEW s \in STATUSES, NEW t \in Allowed[s]
  PROVE  MovedOn(t)
<1>1. CASE s = "PENDING"  BY <1>1 DEF Allowed, MovedOn, STATUSES
<1>2. CASE s = "CONFIRMED"  BY <1>2 DEF Allowed, MovedOn, STATUSES
<1>3. CASE s = "PAID"  BY <1>3 DEF Allowed, MovedOn, STATUSES
<1>4. CASE s = "SHIPPED"  BY <1>4 DEF Allowed, MovedOn, STATUSES
<1>5. CASE s \in {"COMPLETED", "CANCELLED", "REFUNDED"}  BY <1>5 DEF Allowed
<1> QED BY <1>1, <1>2, <1>3, <1>4, <1>5 DEF STATUSES

LEMMA OrderPagesTypes ==
  ASSUME OrderPagesTypeOK
  PROVE  /\ Customer \in Views /\ Customer \notin Desks
         /\ \A d \in Desks : d \in Views /\ d # Customer
         /\ MaxTries \in Nat /\ MaxTries > 0 /\ tries \in Nat /\ tries <= MaxTries
         /\ repaint \in [Views -> Painting] /\ desk \in [Desks -> DeskRows]
         /\ moving \in [Desks -> Move \cup {NoMove}]
         /\ \A a \in Questions : asking[a] \in STATUSES \cup {"none", "sent"}
         /\ \A v \in Views : repaint[v] \in Painting
         /\ \A d \in Desks : desk[d] \in DeskRows
                             /\ (moving[d] = NoMove \/ moving[d] \in Move)
BY PagesAssumption DEF OrderPagesTypeOK, Views, DeskRows, Painting

LEMMA MoveFacts ==
  /\ NoMove.at = "none" /\ NoMove \notin Move
  /\ \A m \in Move : m # NoMove /\ m.to \in STATUSES /\ m.was \in STATUSES
                     /\ m.at \in {"sent", "ok", "refused"}
BY DEF NoMove, Move

\* The types, as the proofs of the steps give them.
LEMMA OrderPagesTyped ==
  ASSUME orderStatus' \in STATUSES, painted' \in STATUSES, polling' \in BOOLEAN,
         tries' \in 0 .. MaxTries, asking' \in [Questions -> STATUSES \cup {"none", "sent"}],
         repaint' \in [Views -> Painting], again' \subseteq Views,
         cancelling' \in {"none", "sent", "ok", "refused"}, desk' \in [Desks -> DeskRows],
         moving' \in [Desks -> Move \cup {NoMove}], told' \in BOOLEAN, unsure' \subseteq Desks
  PROVE  OrderPagesTypeOK'
BY DEF OrderPagesTypeOK, DeskRows

\* A page is asked to be painted anew: its refresh is on its way, or another after it.
LEMMA RefreshFacts ==
  ASSUME OrderPagesTypeOK, NEW v \in Views, Refresh(v)
  PROVE  /\ repaint' \in [Views -> Painting] /\ again' \subseteq Views
         /\ repaint'[v] # "none"
         /\ repaint'[v] = "asked" \/ (repaint'[v] = repaint[v] /\ v \in again')
         /\ \A w \in Views : w # v => repaint'[w] = repaint[w] /\ (w \in again' <=> w \in again)
<1>1. /\ repaint \in [Views -> Painting] /\ again \subseteq Views /\ "asked" \in Painting
  BY DEF OrderPagesTypeOK, Painting
<1>2. CASE repaint[v] = "none"
  <2>1. repaint' = [repaint EXCEPT ![v] = "asked"] /\ again' = again  BY <1>2 DEF Refresh
  <2> QED BY <1>1, <2>1
<1>3. CASE repaint[v] # "none"
  <2>1. repaint' = repaint /\ again' = again \cup {v}  BY <1>3 DEF Refresh
  <2> QED BY <1>1, <1>3, <2>1
<1> QED BY <1>2, <1>3

LEMMA NextRefreshFacts ==
  ASSUME OrderPagesTypeOK, NEW v \in Views, NextRefresh(v)
  PROVE  /\ repaint' \in [Views -> Painting] /\ again' \subseteq Views
         /\ repaint'[v] \in {"asked", "none"} /\ (v \in again => repaint'[v] = "asked")
         /\ \A w \in Views : w # v => repaint'[w] = repaint[w] /\ (w \in again' <=> w \in again)
<1>1. repaint \in [Views -> Painting] /\ again \subseteq Views
      /\ "asked" \in Painting /\ "none" \in Painting
  BY DEF OrderPagesTypeOK, Painting
<1>2. CASE v \in again
  <2>1. repaint' = [repaint EXCEPT ![v] = "asked"] /\ again' = again \ {v}
    BY <1>2 DEF NextRefresh
  <2> QED BY <1>1, <1>2, <2>1
<1>3. CASE v \notin again
  <2>1. repaint' = [repaint EXCEPT ![v] = "none"] /\ again' = again \ {v}
    BY <1>3 DEF NextRefresh
  <2> QED BY <1>1, <1>3, <2>1
<1> QED BY <1>2, <1>3

\* What happens at a desk leaves the customer's page as it was, except that the order may move.
LEMMA DeskLeavesPage ==
  ASSUME OrderPagesInv, orderStatus' = orderStatus \/ MovedOn(orderStatus'),
         painted' = painted, polling' = polling, tries' = tries, asking' = asking,
         cancelling' = cancelling, told' = told, repaint'[Customer] = repaint[Customer],
         Customer \in again' <=> Customer \in again
  PROVE  PageBooks'
<1>1. MovedOn(orderStatus) => MovedOn(orderStatus')  OBVIOUS
<1>2. PageBooks  BY DEF OrderPagesInv
<1>3. PollsWhileSyncing'  BY <1>2 DEF PageBooks, PollsWhileSyncing
<1> HIDE DEF MovedOn
<1>4. MovedOn(orderStatus') <=> MovedOn(orderStatus)'  BY DEF MovedOn
<1>5. MovedOn(repaint[Customer])' <=> MovedOn(repaint[Customer])  BY DEF MovedOn
<1>6. \A a \in Questions : MovedOn(asking[a])' <=> MovedOn(asking[a])  BY DEF MovedOn
<1> QED BY <1>1, <1>2, <1>3, <1>4, <1>5, <1>6 DEF PageBooks

\* What happens at the customer's page leaves every desk as it was, or unsure.
LEMMA PageLeavesDesks ==
  ASSUME OrderPagesInv, desk' = desk, moving' = moving,
         unsure' = Desks \/ (unsure' = unsure /\ orderStatus' = orderStatus)
  PROVE  \A d \in Desks : DeskBooks(d)'
<1>1. ASSUME NEW d \in Desks PROVE DeskBooks(d)'
  BY <1>1 DEF OrderPagesInv, DeskBooks
<1> QED BY <1>1

-----------------------------------------------------------------------------
(* The customer's page and its poller.                                      *)

LEMMA MovesElsewhereKeeps ==
  ASSUME OrderPagesInv, MovesElsewhere
  PROVE  OrderPagesInv'
<1>1. /\ orderStatus' \in Allowed[orderStatus] /\ unsure' = Desks
      /\ painted' = painted /\ polling' = polling /\ tries' = tries /\ asking' = asking
      /\ desk' = desk /\ moving' = moving /\ repaint' = repaint /\ again' = again
      /\ cancelling' = cancelling /\ told' = told
  BY DEF MovesElsewhere, pollVars, deskVars
<1>2. OrderPagesTypeOK  BY DEF OrderPagesInv
<1>3. MovedOn(orderStatus')  BY <1>1, <1>2, EdgesLeavePending DEF OrderPagesTypeOK
<1>4. orderStatus' \in STATUSES  BY <1>3 DEF MovedOn
<1>5. PageBooks'  BY <1>1, <1>3, DeskLeavesPage
<1>6. \A d \in Desks : DeskBooks(d)'  BY <1>1, PageLeavesDesks
<1>7. OrderPagesTypeOK'  BY <1>1, <1>2, <1>4 DEF OrderPagesTypeOK
<1> QED BY <1>5, <1>6, <1>7 DEF OrderPagesInv

LEMMA OpenPageKeeps ==
  ASSUME OrderPagesInv, OpenOrderPage
  PROVE  OrderPagesInv'
<1>1. /\ painted' = orderStatus /\ polling' = (orderStatus = "PENDING") /\ tries' = 0
      /\ asking' = [a \in Questions |-> "none"] /\ again' = again \ {Customer}
      /\ repaint' = [repaint EXCEPT ![Customer] = "none"]
      /\ cancelling' = "none" /\ told' = FALSE
      /\ orderStatus' = orderStatus /\ desk' = desk /\ moving' = moving /\ unsure' = unsure
  BY DEF OpenOrderPage, deskVars
<1>2. OrderPagesTypeOK  BY DEF OrderPagesInv
<1>3. orderStatus \in STATUSES /\ MaxTries \in Nat /\ MaxTries > 0 /\ Customer \in Views
      /\ repaint \in [Views -> Painting] /\ "none" \in Painting
  BY <1>2, OrderPagesTypes DEF OrderPagesTypeOK, Painting
<1>4. repaint' \in [Views -> Painting] /\ repaint'[Customer] = "none"  BY <1>1, <1>3
<1>5. \A a \in Questions : asking'[a] = "none"  BY <1>1
<1>6. PollsWhileSyncing'  BY <1>1, <1>3 DEF PollsWhileSyncing
<1>7. PageBooks'
  <2>1. painted' # "PENDING" => MovedOn(orderStatus')  BY <1>1, <1>3 DEF MovedOn
  <2> QED BY <1>1, <1>4, <1>5, <1>6, <2>1, StatusFacts DEF PageBooks, MovedOn
<1>8. \A d \in Desks : DeskBooks(d)'  BY <1>1, PageLeavesDesks
<1>9. OrderPagesTypeOK'
  <2>1. polling' \in BOOLEAN /\ tries' \in 0 .. MaxTries  BY <1>1, <1>3
  <2> QED BY <1>1, <1>2, <1>3, <1>4, <2>1, OrderPagesTyped DEF OrderPagesTypeOK, DeskRows
<1> QED BY <1>7, <1>8, <1>9 DEF OrderPagesInv

\* The poller: one question changes; the order does not, and desks do not.
LEMMA PollKeeps ==
  ASSUME OrderPagesInv, NEW a \in Questions,
         PollTick(a) \/ AnswersAsk(a) \/ PollAnswered(a) \/ PollLost(a)
  PROVE  OrderPagesInv'
<1>1. OrderPagesTypeOK /\ PageBooks  BY DEF OrderPagesInv
<1>2. /\ orderStatus' = orderStatus /\ painted' = painted /\ desk' = desk /\ moving' = moving
      /\ unsure' = unsure /\ cancelling' = cancelling
  BY DEF PollTick, AnswersAsk, PollAnswered, PollLost, deskVars
<1>3. \A d \in Desks : DeskBooks(d)'  BY <1>2, PageLeavesDesks
<1>4. /\ polling \in BOOLEAN /\ told \in BOOLEAN /\ MaxTries \in Nat /\ tries \in Nat
      /\ tries <= MaxTries /\ asking \in [Questions -> STATUSES \cup {"none", "sent"}]
      /\ orderStatus \in STATUSES /\ Customer \in Views /\ again \subseteq Views
      /\ repaint \in [Views -> Painting]
  BY <1>1, OrderPagesTypes DEF OrderPagesTypeOK
\* The step's own part: what the question becomes, and the poller.
<1>5. ASSUME asking' \in [Questions -> STATUSES \cup {"none", "sent"}],
             \A b \in Questions : b # a => asking'[b] = asking[b],
             MovedOn(asking'[a]) => MovedOn(orderStatus),
             tries' \in 0 .. MaxTries, polling' \in BOOLEAN, told' \in BOOLEAN,
             PollsWhileSyncing',
             \/ repaint' = repaint /\ again' = again /\ told' = told
             \/ Refresh(Customer) /\ MovedOn(orderStatus)
      PROVE  OrderPagesInv'
  <2>1. /\ repaint' \in [Views -> Painting] /\ again' \subseteq Views
    BY <1>1, <1>4, <1>5, RefreshFacts
  <2>2. \A b \in Questions : MovedOn(asking'[b]) => MovedOn(orderStatus)
    BY <1>1, <1>5 DEF PageBooks
  <2>3. PageBooks'
    <3>1. CASE repaint' = repaint /\ again' = again /\ told' = told
      BY <1>1, <1>2, <1>5, <2>2, <3>1 DEF PageBooks, MovedOn
    <3>2. CASE Refresh(Customer) /\ MovedOn(orderStatus)
      <4>1. /\ repaint'[Customer] # "none"
            /\ repaint'[Customer] = "asked"
               \/ (repaint'[Customer] = repaint[Customer] /\ Customer \in again')
        BY <1>1, <1>4, <3>2, RefreshFacts
      <4>2. painted # "PENDING" => repaint'[Customer] # "PENDING"
        BY <1>1, <4>1 DEF PageBooks
      <4>3. repaint'[Customer] = "PENDING" => Customer \in again'  BY <4>1
      <4> QED BY <1>2, <1>5, <3>2, <4>1, <4>2, <4>3 DEF PageBooks, MovedOn
    <3> QED BY <1>5, <3>1, <3>2
  <2>4. OrderPagesTypeOK'
    BY <1>1, <1>2, <1>5, <2>1, OrderPagesTyped DEF OrderPagesTypeOK, DeskRows
  <2> QED BY <1>3, <2>3, <2>4 DEF OrderPagesInv
<1>6. PollsWhileSyncing  BY <1>1 DEF PageBooks
<1>7. CASE PollTick(a)
  <2>1. /\ polling /\ asking' = [asking EXCEPT ![a] = "sent"] /\ polling' = polling
        /\ tries' = IF tries < MaxTries THEN tries + 1 ELSE tries
        /\ repaint' = repaint /\ again' = again /\ told' = told
    BY <1>7 DEF PollTick
  <2>2. tries' \in 0 .. MaxTries  BY <1>4, <2>1
  <2>3. asking' \in [Questions -> STATUSES \cup {"none", "sent"}] /\ asking'[a] = "sent"
        /\ \A b \in Questions : b # a => asking'[b] = asking[b]
    BY <1>4, <2>1
  <2>4. PollsWhileSyncing'  BY <1>2, <1>6, <2>1, <2>3 DEF PollsWhileSyncing
  <2>5. polling' \in BOOLEAN /\ told' \in BOOLEAN  BY <1>4, <2>1
  <2> QED BY <1>5, <2>1, <2>2, <2>3, <2>4, <2>5, StatusFacts
<1>8. CASE AnswersAsk(a)
  <2>1. /\ asking' = [asking EXCEPT ![a] = orderStatus] /\ polling' = polling
        /\ tries' = tries /\ repaint' = repaint /\ again' = again /\ told' = told
    BY <1>8 DEF AnswersAsk
  <2>2. asking' \in [Questions -> STATUSES \cup {"none", "sent"}] /\ asking'[a] = orderStatus
        /\ \A b \in Questions : b # a => asking'[b] = asking[b]
    BY <1>4, <2>1
  <2>3. PollsWhileSyncing'
    BY <1>2, <1>4, <1>6, <2>1, <2>2, StatusFacts DEF PollsWhileSyncing
  <2>4. /\ polling' \in BOOLEAN /\ told' \in BOOLEAN /\ tries' \in 0 .. MaxTries
    BY <1>1, <2>1 DEF OrderPagesTypeOK
  <2> QED BY <1>5, <2>1, <2>2, <2>3, <2>4
<1>9. ASSUME asking' = [asking EXCEPT ![a] = "none"]
      PROVE  /\ asking' \in [Questions -> STATUSES \cup {"none", "sent"}] /\ asking'[a] = "none"
             /\ \A b \in Questions : b # a => asking'[b] = asking[b]
  BY <1>4, <1>9
<1>10. ASSUME polling' = (polling /\ tries < MaxTries) \/ polling' = FALSE, tries' = tries
       PROVE  polling' \in BOOLEAN /\ tries' \in 0 .. MaxTries /\ PollsWhileSyncing'
  <2>1. polling' => polling /\ tries' < MaxTries  BY <1>10
  <2>2. polling' \in BOOLEAN  BY <1>10
  <2>3. tries' \in 0 .. MaxTries  BY <1>1, <1>10 DEF OrderPagesTypeOK
  <2> QED BY <1>2, <1>6, <2>1, <2>2, <2>3 DEF PollsWhileSyncing
<1>11. CASE PollAnswered(a) /\ asking[a] # "PENDING"
  <2>1. /\ asking[a] \in STATUSES /\ asking' = [asking EXCEPT ![a] = "none"]
        /\ polling' = FALSE /\ told' = TRUE /\ Refresh(Customer) /\ tries' = tries
    BY <1>11 DEF PollAnswered
  <2>2. MovedOn(asking[a])  BY <1>11, <2>1 DEF MovedOn
  <2>3. MovedOn(orderStatus)  BY <1>1, <2>2 DEF PageBooks
  <2>4. polling' \in BOOLEAN /\ tries' \in 0 .. MaxTries /\ PollsWhileSyncing'  BY <1>10, <2>1
  <2>5. told' \in BOOLEAN  BY <2>1
  <2> QED BY <1>5, <1>9, <2>1, <2>3, <2>4, <2>5
<1>12. CASE PollLost(a) \/ (PollAnswered(a) /\ asking[a] = "PENDING")
  <2>1. /\ asking' = [asking EXCEPT ![a] = "none"] /\ polling' = (polling /\ tries < MaxTries)
        /\ tries' = tries /\ repaint' = repaint /\ again' = again /\ told' = told
    BY <1>12 DEF PollAnswered, PollLost
  <2>2. polling' \in BOOLEAN /\ tries' \in 0 .. MaxTries /\ PollsWhileSyncing'  BY <1>10, <2>1
  <2>3. told' \in BOOLEAN  BY <1>4, <2>1
  <2> QED BY <1>5, <1>9, <2>1, <2>2, <2>3, StatusFacts
<1> QED BY <1>7, <1>8, <1>11, <1>12

LEMMA PressCancelKeeps ==
  ASSUME OrderPagesInv, PressCancel
  PROVE  OrderPagesInv'
<1>1. /\ cancelling' = "sent" /\ orderStatus' = orderStatus /\ painted' = painted
      /\ polling' = polling /\ tries' = tries /\ asking' = asking /\ desk' = desk
      /\ moving' = moving /\ repaint' = repaint /\ again' = again /\ told' = told
      /\ unsure' = unsure
  BY DEF PressCancel, pollVars, deskVars
<1>2. PageBooks'  BY <1>1 DEF OrderPagesInv, PageBooks, MovedOn, PollsWhileSyncing
<1>3. \A d \in Desks : DeskBooks(d)'  BY <1>1, PageLeavesDesks
<1>4. OrderPagesTypeOK'  BY <1>1 DEF OrderPagesInv, OrderPagesTypeOK
<1> QED BY <1>2, <1>3, <1>4 DEF OrderPagesInv

LEMMA CancelGoesKeeps ==
  ASSUME OrderPagesInv, CancelGoes
  PROVE  OrderPagesInv'
<1>1. /\ painted' = painted /\ polling' = polling /\ tries' = tries /\ asking' = asking
      /\ desk' = desk /\ moving' = moving /\ repaint' = repaint /\ again' = again /\ told' = told
      /\ \/ orderStatus' = "CANCELLED" /\ cancelling' = "ok" /\ unsure' = Desks
         \/ cancelling' = "refused" /\ orderStatus' = orderStatus /\ unsure' = unsure
  BY DEF CancelGoes, pollVars, deskVars
<1>2. OrderPagesTypeOK /\ PageBooks  BY DEF OrderPagesInv
<1>3. MovedOn(orderStatus) => MovedOn(orderStatus')  BY <1>1, StatusFacts
<1>4. cancelling' = "ok" => MovedOn(orderStatus')  BY <1>1, StatusFacts
<1>5. PollsWhileSyncing'  BY <1>1, <1>2 DEF PageBooks, PollsWhileSyncing
<1>6. PageBooks'  BY <1>1, <1>2, <1>3, <1>4, <1>5 DEF PageBooks, MovedOn
<1>7. \A d \in Desks : DeskBooks(d)'  BY <1>1, PageLeavesDesks
<1>8. OrderPagesTypeOK'
  <2>1. orderStatus' \in STATUSES /\ unsure' \subseteq Desks
        /\ cancelling' \in {"none", "sent", "ok", "refused"}
    BY <1>1, <1>2, StatusFacts DEF OrderPagesTypeOK
  <2> QED BY <1>1, <1>2, <2>1 DEF OrderPagesTypeOK
<1> QED BY <1>6, <1>7, <1>8 DEF OrderPagesInv

LEMMA CancelArrivesKeeps ==
  ASSUME OrderPagesInv, CancelArrives
  PROVE  OrderPagesInv'
<1>1. /\ orderStatus' = orderStatus /\ painted' = painted /\ polling' = polling
      /\ tries' = tries /\ asking' = asking /\ desk' = desk /\ moving' = moving
      /\ unsure' = unsure /\ cancelling' = "none"
      /\ \/ cancelling = "ok" /\ told' = TRUE /\ Refresh(Customer)
         \/ told' = told /\ repaint' = repaint /\ again' = again
  BY DEF CancelArrives, pollVars, deskVars
<1>2. OrderPagesTypeOK /\ PageBooks /\ Customer \in Views
  BY OrderPagesTypes DEF OrderPagesInv
<1>3. PollsWhileSyncing'  BY <1>1, <1>2 DEF PageBooks, PollsWhileSyncing
<1>4. CASE cancelling = "ok" /\ told' = TRUE /\ Refresh(Customer)
  <2>1. MovedOn(orderStatus)  BY <1>2, <1>4 DEF PageBooks
  <2>2. /\ repaint' \in [Views -> Painting] /\ again' \subseteq Views
        /\ repaint'[Customer] # "none"
        /\ repaint'[Customer] = "asked"
           \/ (repaint'[Customer] = repaint[Customer] /\ Customer \in again')
    BY <1>2, <1>4, RefreshFacts
  <2>3. painted # "PENDING" => repaint'[Customer] # "PENDING"  BY <1>2, <2>2 DEF PageBooks
  <2>4. PageBooks'  BY <1>1, <1>3, <2>1, <2>2, <2>3 DEF PageBooks, MovedOn
  <2>5. OrderPagesTypeOK'
    BY <1>1, <1>2, <1>4, <2>2, OrderPagesTyped DEF OrderPagesTypeOK, DeskRows
  <2> QED BY <1>1, <2>4, <2>5, PageLeavesDesks DEF OrderPagesInv
<1>5. CASE told' = told /\ repaint' = repaint /\ again' = again
  <2>1. PageBooks'  BY <1>1, <1>2, <1>3, <1>5 DEF PageBooks, MovedOn
  <2>2. OrderPagesTypeOK'  BY <1>1, <1>2, <1>5 DEF OrderPagesTypeOK
  <2> QED BY <1>1, <2>1, <2>2, PageLeavesDesks DEF OrderPagesInv
<1> QED BY <1>1, <1>4, <1>5

-----------------------------------------------------------------------------
(* Refreshes.                                                               *)

LEMMA PageReadsKeeps ==
  ASSUME OrderPagesInv, NEW v \in Views, RefreshReads(v)
  PROVE  OrderPagesInv'
<1>1. /\ repaint[v] = "asked" /\ repaint' = [repaint EXCEPT ![v] = orderStatus]
      /\ orderStatus' = orderStatus /\ painted' = painted /\ polling' = polling
      /\ tries' = tries /\ asking' = asking /\ desk' = desk /\ moving' = moving
      /\ again' = again /\ cancelling' = cancelling /\ told' = told /\ unsure' = unsure
  BY DEF RefreshReads, pollVars, deskVars
<1>2. /\ OrderPagesTypeOK /\ PageBooks /\ orderStatus \in STATUSES /\ Customer \in Views
      /\ repaint \in [Views -> Painting]
  BY OrderPagesTypes DEF OrderPagesInv, OrderPagesTypeOK
<1>3. /\ repaint' \in [Views -> Painting]
      /\ repaint'[Customer] = repaint[Customer] \/ repaint'[Customer] = orderStatus
  BY <1>1, <1>2 DEF Painting
<1>4. PollsWhileSyncing'  BY <1>1, <1>2 DEF PageBooks, PollsWhileSyncing
<1>5. PageBooks'
  <2>1. CASE repaint'[Customer] = repaint[Customer]
    BY <1>1, <1>2, <1>4, <2>1 DEF PageBooks, MovedOn
  <2>2. CASE repaint'[Customer] = orderStatus
    <3>1. orderStatus # "none"  BY <1>2, StatusFacts
    <3> QED BY <1>1, <1>2, <1>4, <2>2, <3>1 DEF PageBooks, MovedOn
  <2> QED BY <1>3, <2>1, <2>2
<1>6. OrderPagesTypeOK'  BY <1>1, <1>2, <1>3 DEF OrderPagesTypeOK
<1> QED BY <1>1, <1>5, <1>6, PageLeavesDesks DEF OrderPagesInv

LEMMA RepaintedKeeps ==
  ASSUME OrderPagesInv, CustomerRepainted
  PROVE  OrderPagesInv'
<1>1. /\ repaint[Customer] \in STATUSES /\ painted' = repaint[Customer]
      /\ polling' = (polling /\ painted' = "PENDING") /\ NextRefresh(Customer)
      /\ orderStatus' = orderStatus /\ tries' = tries /\ asking' = asking /\ desk' = desk
      /\ moving' = moving /\ cancelling' = cancelling /\ told' = told /\ unsure' = unsure
  BY DEF CustomerRepainted, deskVars
<1>2. OrderPagesTypeOK /\ PageBooks /\ Customer \in Views
  BY OrderPagesTypes DEF OrderPagesInv
<1>3. /\ repaint' \in [Views -> Painting] /\ again' \subseteq Views
      /\ repaint'[Customer] \in {"asked", "none"}
      /\ Customer \in again => repaint'[Customer] = "asked"
  BY <1>1, <1>2, NextRefreshFacts
<1>4. polling' \in BOOLEAN /\ (polling' => polling /\ painted' = "PENDING")  BY <1>1
<1>5. PollsWhileSyncing'  BY <1>1, <1>2, <1>4 DEF PageBooks, PollsWhileSyncing
<1>6. repaint[Customer] # "none"  BY <1>1, StatusFacts
<1>7. PageBooks'
  <2>1. painted' # "PENDING" => MovedOn(orderStatus)
    BY <1>1, <1>2 DEF PageBooks, MovedOn
  <2>2. (told /\ painted' = "PENDING") => repaint'[Customer] = "asked"
    BY <1>1, <1>2, <1>3 DEF PageBooks
  <2>3. repaint'[Customer] # "PENDING" /\ ~MovedOn(repaint'[Customer])
    BY <1>3, StatusFacts
  <2> QED BY <1>1, <1>2, <1>5, <2>1, <2>2, <2>3 DEF PageBooks, MovedOn
<1>8. OrderPagesTypeOK'
  BY <1>1, <1>2, <1>3, <1>4, OrderPagesTyped DEF OrderPagesTypeOK, DeskRows
<1> QED BY <1>1, <1>7, <1>8, PageLeavesDesks DEF OrderPagesInv

LEMMA RefreshLostKeeps ==
  ASSUME OrderPagesInv, NEW v \in Views, RefreshLost(v)
  PROVE  OrderPagesInv'
<1>1. /\ NextRefresh(v) /\ told' = (told /\ v # Customer)
      /\ orderStatus' = orderStatus /\ painted' = painted /\ polling' = polling
      /\ tries' = tries /\ asking' = asking /\ desk' = desk
      /\ moving' = moving /\ cancelling' = cancelling /\ unsure' = unsure
  BY DEF RefreshLost, deskVars, pollVars
<1>2. OrderPagesTypeOK /\ PageBooks /\ Customer \in Views
  BY OrderPagesTypes DEF OrderPagesInv
<1>3. /\ repaint' \in [Views -> Painting] /\ again' \subseteq Views
      /\ repaint'[v] \in {"asked", "none"}
      /\ \A w \in Views : w # v => repaint'[w] = repaint[w] /\ (w \in again' <=> w \in again)
  BY <1>1, <1>2, NextRefreshFacts
<1>4. PollsWhileSyncing'  BY <1>1, <1>2 DEF PageBooks, PollsWhileSyncing
<1>5. told' \in BOOLEAN /\ (told' => told /\ v # Customer)  BY <1>1
<1>6. PageBooks'
  <2>1. CASE v = Customer
    <3>1. repaint'[Customer] # "PENDING" /\ ~MovedOn(repaint'[Customer])
      BY <1>3, <2>1, StatusFacts
    <3> QED BY <1>1, <1>2, <1>4, <1>5, <2>1, <3>1 DEF PageBooks, MovedOn
  <2>2. CASE v # Customer
    <3>1. repaint'[Customer] = repaint[Customer] /\ (Customer \in again' <=> Customer \in again)
      BY <1>2, <1>3, <2>2
    <3> QED BY <1>1, <1>2, <1>4, <1>5, <3>1 DEF PageBooks, MovedOn
  <2> QED BY <2>1, <2>2
<1>7. OrderPagesTypeOK'
  BY <1>1, <1>2, <1>3, <1>5, OrderPagesTyped DEF OrderPagesTypeOK, DeskRows
<1> QED BY <1>1, <1>6, <1>7, PageLeavesDesks DEF OrderPagesInv

-----------------------------------------------------------------------------
(* Staff.                                                                  *)

\* What one desk does leaves the others as they were, or unsure.
LEMMA OtherDesksKeep ==
  ASSUME OrderPagesInv, NEW d \in Desks,
         \A e \in Desks : e # d => desk'[e] = desk[e] /\ moving'[e] = moving[e],
         \/ orderStatus' = orderStatus /\ \A e \in Desks : e # d /\ e \in unsure => e \in unsure'
         \/ unsure' = Desks \ {d}
  PROVE  \A e \in Desks : e # d => DeskBooks(e)'
<1>1. ASSUME NEW e \in Desks, e # d PROVE DeskBooks(e)'
  <2>1. DeskBooks(e) /\ desk'[e] = desk[e] /\ moving'[e] = moving[e]
    BY <1>1 DEF OrderPagesInv
  <2>2. CASE orderStatus' = orderStatus /\ (e \in unsure => e \in unsure')
    BY <2>1, <2>2 DEF DeskBooks
  <2>3. CASE e \in unsure'  BY <2>1, <2>3 DEF DeskBooks
  <2> QED BY <1>1, <2>2, <2>3
<1> QED BY <1>1

\* A desk's step that leaves the customer's page and the order alone.
LEMMA DeskKeeps ==
  ASSUME OrderPagesInv, NEW d \in Desks,
         orderStatus' = orderStatus, painted' = painted, polling' = polling, tries' = tries,
         asking' = asking, cancelling' = cancelling, told' = told,
         repaint' \in [Views -> Painting], again' \subseteq Views,
         \A v \in Views : v # d => repaint'[v] = repaint[v] /\ (v \in again' <=> v \in again),
         desk' \in [Desks -> DeskRows], moving' \in [Desks -> Move \cup {NoMove}],
         \A e \in Desks : e # d => desk'[e] = desk[e] /\ moving'[e] = moving[e],
         unsure' \subseteq Desks, \A e \in Desks : e # d /\ e \in unsure => e \in unsure',
         DeskBooks(d)'
  PROVE  OrderPagesInv'
<1>1. OrderPagesTypeOK  BY DEF OrderPagesInv
<1>2. Customer \in Views /\ Customer # d  BY <1>1, OrderPagesTypes
<1>3. repaint'[Customer] = repaint[Customer] /\ (Customer \in again' <=> Customer \in again)
  BY <1>2
<1>4. PageBooks'  BY <1>3, DeskLeavesPage
<1>5. \A e \in Desks : DeskBooks(e)'
  <2>1. \A e \in Desks : e # d => DeskBooks(e)'  BY OtherDesksKeep
  <2> QED BY <2>1
<1>6. OrderPagesTypeOK'  BY <1>1, OrderPagesTyped DEF OrderPagesTypeOK
<1> QED BY <1>4, <1>5, <1>6 DEF OrderPagesInv

LEMMA OpenDeskKeeps ==
  ASSUME OrderPagesInv, NEW d \in Desks, OpenDesk(d)
  PROVE  OrderPagesInv'
<1> DEFINE r == [status |-> orderStatus, value |-> orderStatus]
<1>1. /\ moving[d] = NoMove /\ desk' = [desk EXCEPT ![d] = r]
      /\ repaint' = [repaint EXCEPT ![d] = "none"] /\ again' = again \ {d}
      /\ unsure' = unsure \ {d}
      /\ orderStatus' = orderStatus /\ painted' = painted /\ polling' = polling
      /\ tries' = tries /\ asking' = asking /\ moving' = moving /\ cancelling' = cancelling
      /\ told' = told
  BY DEF OpenDesk, pollVars
<1>2. /\ OrderPagesTypeOK /\ orderStatus \in STATUSES /\ d \in Views /\ again \subseteq Views
      /\ repaint \in [Views -> Painting] /\ desk \in [Desks -> DeskRows]
      /\ moving \in [Desks -> Move \cup {NoMove}] /\ unsure \subseteq Desks
  BY OrderPagesTypes DEF OrderPagesInv, OrderPagesTypeOK
<1>3. r \in DeskRows /\ r.value = orderStatus  BY <1>2 DEF DeskRows
<1> HIDE DEF r
<1>4. /\ repaint' \in [Views -> Painting] /\ again' \subseteq Views
      /\ \A v \in Views : v # d => repaint'[v] = repaint[v] /\ (v \in again' <=> v \in again)
  BY <1>1, <1>2 DEF Painting
<1>5. /\ desk' \in [Desks -> DeskRows] /\ desk'[d] = r
      /\ \A e \in Desks : e # d => desk'[e] = desk[e] /\ moving'[e] = moving[e]
      /\ moving' \in [Desks -> Move \cup {NoMove}]
      /\ unsure' \subseteq Desks /\ \A e \in Desks : e # d /\ e \in unsure => e \in unsure'
  BY <1>1, <1>2, <1>3
<1>6. DeskBooks(d)'  BY <1>1, <1>3, <1>5, MoveFacts DEF DeskBooks
<1> QED BY <1>1, <1>4, <1>5, <1>6, DeskKeeps

LEMMA ChoiceKeeps ==
  ASSUME OrderPagesInv, NEW d \in Desks, ChooseStatus(d) \/ LeavePrompt(d)
  PROVE  OrderPagesInv'
<1>1. /\ moving[d] = NoMove /\ unsure' = OutOfDate(d) /\ repaint' = repaint /\ again' = again
      /\ orderStatus' = orderStatus /\ painted' = painted /\ polling' = polling
      /\ tries' = tries /\ asking' = asking /\ cancelling' = cancelling /\ told' = told
  BY DEF ChooseStatus, LeavePrompt, pollVars
<1>2. /\ OrderPagesTypeOK /\ desk \in [Desks -> DeskRows] /\ desk[d] \in DeskRows
      /\ moving \in [Desks -> Move \cup {NoMove}] /\ unsure \subseteq Desks
      /\ repaint \in [Views -> Painting] /\ again \subseteq Views
  BY OrderPagesTypes DEF OrderPagesInv, OrderPagesTypeOK
<1>3. /\ unsure' \subseteq Desks /\ \A e \in Desks : e # d /\ e \in unsure => e \in unsure'
      /\ d \notin unsure' => d \notin unsure /\ desk[d].status = desk[d].value
  BY <1>1, <1>2 DEF OutOfDate
<1>4. d \notin unsure' => desk[d].status = orderStatus
  BY <1>1, <1>3 DEF OrderPagesInv, DeskBooks
<1>5. CASE ChooseStatus(d)
  <2>1. PICK to \in STATUSES \ {desk[d].value} :
          /\ desk' = [desk EXCEPT ![d].value = to]
          /\ moving' = [moving EXCEPT ![d] = [at |-> "sent", to |-> to, was |-> desk[d].status]]
    BY <1>5 DEF ChooseStatus
  <2> DEFINE r == [desk[d] EXCEPT !.value = to]
             m == [at |-> "sent", to |-> to, was |-> desk[d].status]
  <2>2. r \in DeskRows /\ r.value = to  BY <1>2 DEF DeskRows
  <2>3. m \in Move /\ m.at = "sent" /\ m.to = to /\ m.was = desk[d].status
    BY <1>2 DEF DeskRows, Move
  <2>4. desk' = [desk EXCEPT ![d] = r] /\ moving' = [moving EXCEPT ![d] = m]  BY <2>1
  <2> HIDE DEF r, m
  <2>5. /\ desk' \in [Desks -> DeskRows] /\ desk'[d] = r
        /\ moving' \in [Desks -> Move \cup {NoMove}] /\ moving'[d] = m
        /\ \A e \in Desks : e # d => desk'[e] = desk[e] /\ moving'[e] = moving[e]
    BY <1>2, <2>2, <2>3, <2>4
  <2>6. DeskBooks(d)'  BY <1>1, <1>4, <2>2, <2>3, <2>5, MoveFacts DEF DeskBooks
  <2> QED BY <1>1, <1>2, <1>3, <2>5, <2>6, DeskKeeps
<1>6. CASE LeavePrompt(d)
  <2> DEFINE r == [desk[d] EXCEPT !.value = desk[d].status]
  <2>1. r \in DeskRows /\ r.value = desk[d].status  BY <1>2 DEF DeskRows
  <2>2. desk' = [desk EXCEPT ![d] = r] /\ moving' = moving  BY <1>6 DEF LeavePrompt
  <2> HIDE DEF r
  <2>3. /\ desk' \in [Desks -> DeskRows] /\ desk'[d] = r
        /\ moving' \in [Desks -> Move \cup {NoMove}]
        /\ \A e \in Desks : e # d => desk'[e] = desk[e] /\ moving'[e] = moving[e]
    BY <1>2, <2>1, <2>2
  <2>4. DeskBooks(d)'  BY <1>1, <1>4, <2>1, <2>2, <2>3, MoveFacts DEF DeskBooks
  <2> QED BY <1>1, <1>2, <1>3, <2>3, <2>4, DeskKeeps
<1> QED BY <1>5, <1>6

LEMMA MoveGoesKeeps ==
  ASSUME OrderPagesInv, NEW d \in Desks, MoveGoes(d)
  PROVE  OrderPagesInv'
<1>1. /\ moving[d].at = "sent" /\ desk' = desk /\ repaint' = repaint /\ again' = again
      /\ painted' = painted /\ polling' = polling /\ tries' = tries /\ asking' = asking
      /\ cancelling' = cancelling /\ told' = told
  BY DEF MoveGoes, pollVars
<1>2. /\ OrderPagesTypeOK /\ desk \in [Desks -> DeskRows] /\ orderStatus \in STATUSES
      /\ moving \in [Desks -> Move \cup {NoMove}] /\ unsure \subseteq Desks
      /\ repaint \in [Views -> Painting] /\ again \subseteq Views /\ DeskBooks(d)
      /\ moving[d] = NoMove \/ moving[d] \in Move
  BY OrderPagesTypes DEF OrderPagesInv, OrderPagesTypeOK
<1>3. moving[d] \in Move  BY <1>1, <1>2, MoveFacts
<1>4. CASE /\ moving[d].to \in Allowed[orderStatus] /\ orderStatus' = moving[d].to
           /\ moving' = [moving EXCEPT ![d].at = "ok"] /\ unsure' = Desks \ {d}
  <2> DEFINE m == [moving[d] EXCEPT !.at = "ok"]
  <2>1. m \in Move /\ m.at = "ok" /\ m.to = moving[d].to  BY <1>3 DEF Move
  <2>2. moving' = [moving EXCEPT ![d] = m]  BY <1>4
  <2> HIDE DEF m
  <2>3. /\ moving' \in [Desks -> Move \cup {NoMove}] /\ moving'[d] = m
        /\ \A e \in Desks : e # d => moving'[e] = moving[e]
    BY <1>2, <2>1, <2>2
  <2>4. MovedOn(orderStatus')  BY <1>2, <1>4, EdgesLeavePending
  <2>5. orderStatus' \in STATUSES  BY <2>4 DEF MovedOn
  <2>6. PageBooks'  BY <1>1, <2>4, DeskLeavesPage
  <2>7. desk'[d].value = moving[d].to  BY <1>1, <1>2, <1>3, MoveFacts DEF DeskBooks
  <2>8. DeskBooks(d)'  BY <1>4, <2>1, <2>3, <2>7, MoveFacts DEF DeskBooks
  <2>9. \A e \in Desks : e # d => DeskBooks(e)'  BY <1>1, <1>4, <2>3, OtherDesksKeep
  <2>10. OrderPagesTypeOK'  BY <1>1, <1>2, <1>4, <2>3, <2>5 DEF OrderPagesTypeOK
  <2> QED BY <2>6, <2>8, <2>9, <2>10 DEF OrderPagesInv
<1>5. CASE /\ moving' = [moving EXCEPT ![d].at = "refused"]
           /\ orderStatus' = orderStatus /\ unsure' = unsure
  <2> DEFINE m == [moving[d] EXCEPT !.at = "refused"]
  <2>1. /\ m \in Move /\ m.at = "refused" /\ m.to = moving[d].to /\ m.was = moving[d].was
    BY <1>3 DEF Move
  <2>2. moving' = [moving EXCEPT ![d] = m]  BY <1>5
  <2> HIDE DEF m
  <2>3. /\ moving' \in [Desks -> Move \cup {NoMove}] /\ moving'[d] = m
        /\ \A e \in Desks : e # d => desk'[e] = desk[e] /\ moving'[e] = moving[e]
    BY <1>1, <1>2, <2>1, <2>2
  <2>4. DeskBooks(d)'
    BY <1>1, <1>2, <1>3, <1>5, <2>1, <2>3, MoveFacts DEF DeskBooks
  <2> QED BY <1>1, <1>2, <1>5, <2>3, <2>4, DeskKeeps
<1> QED BY <1>4, <1>5 DEF MoveGoes

LEMMA MoveEndsKeeps ==
  ASSUME OrderPagesInv, NEW d \in Desks, MoveArrives(d) \/ MoveLost(d)
  PROVE  OrderPagesInv'
<1>1. /\ moving[d] # NoMove /\ moving' = [moving EXCEPT ![d] = NoMove]
      /\ orderStatus' = orderStatus /\ painted' = painted /\ polling' = polling
      /\ tries' = tries /\ asking' = asking /\ cancelling' = cancelling /\ told' = told
  BY MoveFacts DEF MoveArrives, MoveLost, pollVars
<1>2. /\ OrderPagesTypeOK /\ desk \in [Desks -> DeskRows] /\ d \in Views
      /\ moving \in [Desks -> Move \cup {NoMove}] /\ unsure \subseteq Desks
      /\ repaint \in [Views -> Painting] /\ again \subseteq Views /\ DeskBooks(d)
      /\ moving[d] \in Move /\ desk[d] \in DeskRows
  BY <1>1, OrderPagesTypes DEF OrderPagesInv, OrderPagesTypeOK
<1>3. /\ moving' \in [Desks -> Move \cup {NoMove}] /\ moving'[d] = NoMove
      /\ \A e \in Desks : e # d => moving'[e] = moving[e]
  BY <1>1, <1>2
<1>4. CASE MoveArrives(d) /\ moving[d].at = "ok"
  <2>1. Refresh(d) /\ desk' = desk /\ unsure' = unsure  BY <1>4 DEF MoveArrives
  <2>2. /\ repaint' \in [Views -> Painting] /\ again' \subseteq Views
        /\ \A v \in Views : v # d => repaint'[v] = repaint[v] /\ (v \in again' <=> v \in again)
    BY <1>2, <2>1, RefreshFacts
  <2>3. DeskBooks(d)'  BY <1>1, <1>2, <1>3, <1>4, <2>1, MoveFacts DEF DeskBooks
  <2> QED BY <1>1, <1>2, <1>3, <2>1, <2>2, <2>3, DeskKeeps
<1>5. CASE MoveArrives(d) /\ moving[d].at # "ok"
  <2> DEFINE r == [desk[d] EXCEPT !.value = moving[d].was]
  <2>1. /\ moving[d].at = "refused" /\ desk' = [desk EXCEPT ![d] = r]
        /\ repaint' = repaint /\ again' = again /\ unsure' = unsure
    BY <1>5 DEF MoveArrives
  <2>2. r \in DeskRows /\ r.value = moving[d].was  BY <1>2 DEF DeskRows, Move
  <2> HIDE DEF r
  <2>3. /\ desk' \in [Desks -> DeskRows] /\ desk'[d] = r
        /\ \A e \in Desks : e # d => desk'[e] = desk[e]
    BY <1>2, <2>1, <2>2
  <2>4. DeskBooks(d)'  BY <1>1, <1>2, <1>3, <2>1, <2>2, <2>3, MoveFacts DEF DeskBooks
  <2> QED BY <1>1, <1>2, <1>3, <2>1, <2>3, <2>4, DeskKeeps
<1>6. CASE MoveLost(d)
  <2>1. desk' = desk /\ repaint' = repaint /\ again' = again /\ unsure' = unsure \cup {d}
    BY <1>6 DEF MoveLost
  <2>2. unsure' \subseteq Desks /\ \A e \in Desks : e # d /\ e \in unsure => e \in unsure'
    BY <1>2, <2>1
  <2>3. DeskBooks(d)'  BY <1>2, <1>3, <2>1, MoveFacts DEF DeskBooks
  <2> QED BY <1>1, <1>2, <1>3, <2>1, <2>2, <2>3, DeskKeeps
<1> QED BY <1>4, <1>5, <1>6

LEMMA DeskRepaintedKeeps ==
  ASSUME OrderPagesInv, NEW d \in Desks, DeskRepainted(d)
  PROVE  OrderPagesInv'
<1> DEFINE r == [desk[d] EXCEPT !.status = repaint[d]]
<1>1. /\ repaint[d] \in STATUSES /\ desk' = [desk EXCEPT ![d] = r] /\ NextRefresh(d)
      /\ orderStatus' = orderStatus /\ painted' = painted /\ polling' = polling
      /\ tries' = tries /\ asking' = asking /\ cancelling' = cancelling /\ told' = told
      /\ moving' = moving /\ unsure' = unsure
  BY DEF DeskRepainted, pollVars
<1>2. /\ OrderPagesTypeOK /\ desk \in [Desks -> DeskRows] /\ d \in Views
      /\ moving \in [Desks -> Move \cup {NoMove}] /\ unsure \subseteq Desks /\ DeskBooks(d)
      /\ desk[d] \in DeskRows
  BY OrderPagesTypes DEF OrderPagesInv, OrderPagesTypeOK
<1>3. r \in DeskRows /\ r.value = desk[d].value  BY <1>1, <1>2 DEF DeskRows
<1> HIDE DEF r
<1>4. /\ desk' \in [Desks -> DeskRows] /\ desk'[d] = r
      /\ \A e \in Desks : e # d => desk'[e] = desk[e] /\ moving'[e] = moving[e]
  BY <1>1, <1>2, <1>3
<1>5. /\ repaint' \in [Views -> Painting] /\ again' \subseteq Views
      /\ \A v \in Views : v # d => repaint'[v] = repaint[v] /\ (v \in again' <=> v \in again)
  BY <1>1, <1>2, NextRefreshFacts
<1>6. DeskBooks(d)'  BY <1>1, <1>2, <1>3, <1>4 DEF DeskBooks
<1> QED BY <1>1, <1>2, <1>4, <1>5, <1>6, DeskKeeps

-----------------------------------------------------------------------------
LEMMA OrderPagesBegin == OrderPagesInit => OrderPagesInv
<1> SUFFICES ASSUME OrderPagesInit PROVE OrderPagesInv  OBVIOUS
<1>1. /\ orderStatus = "PENDING" /\ painted = "PENDING" /\ polling = TRUE /\ tries = 0
      /\ asking = [a \in Questions |-> "none"] /\ repaint = [v \in Views |-> "none"]
      /\ again = {} /\ cancelling = "none" /\ told = FALSE /\ unsure = {}
      /\ desk = [d \in Desks |-> [status |-> "PENDING", value |-> "PENDING"]]
      /\ moving = [d \in Desks |-> NoMove]
  BY DEF OrderPagesInit
<1>2. MaxTries \in Nat /\ MaxTries > 0 /\ Customer \in Views  BY PagesAssumption DEF Views
<1>3. OrderPagesTypeOK
  <2>1. asking \in [Questions -> STATUSES \cup {"none", "sent"}]  BY <1>1
  <2>2. repaint \in [Views -> Painting] /\ again \subseteq Views /\ unsure \subseteq Desks
    BY <1>1 DEF Painting
  <2>3. desk \in [Desks -> [status : STATUSES, value : STATUSES]]  BY <1>1, StatusFacts
  <2>4. moving \in [Desks -> Move \cup {NoMove}]  BY <1>1
  <2>5. tries \in 0 .. MaxTries  BY <1>1, <1>2
  <2>6. polling \in BOOLEAN /\ told \in BOOLEAN  BY <1>1
  <2> QED BY <1>1, <2>1, <2>2, <2>3, <2>4, <2>5, <2>6, StatusFacts DEF OrderPagesTypeOK
<1>4. PollsWhileSyncing  BY <1>1, <1>2 DEF PollsWhileSyncing
<1>5. repaint[Customer] = "none" /\ \A a \in Questions : asking[a] = "none"  BY <1>1, <1>2
<1>6. PageBooks  BY <1>1, <1>4, <1>5, StatusFacts DEF PageBooks
<1>7. \A d \in Desks : moving[d] = NoMove /\ desk[d].value = "PENDING"  BY <1>1
<1>8. \A d \in Desks : DeskBooks(d)  BY <1>1, <1>7, MoveFacts DEF DeskBooks
<1> QED BY <1>3, <1>6, <1>8 DEF OrderPagesInv

LEMMA OrderPagesStep == OrderPagesInv /\ [OrderPagesNext]_orderPageVars => OrderPagesInv'
<1> SUFFICES ASSUME OrderPagesInv, [OrderPagesNext]_orderPageVars PROVE OrderPagesInv'
  OBVIOUS
<1>1. CASE UNCHANGED orderPageVars
  BY <1>1 DEF orderPageVars, OrderPagesInv, OrderPagesTypeOK, PageBooks, PollsWhileSyncing,
              DeskBooks, MovedOn
<1>2. CASE CustomerPageNext
  <2>1. Customer \in Views  BY DEF Views
  <2> QED
    BY <1>2, <2>1, MovesElsewhereKeeps, OpenPageKeeps, PollKeeps, PressCancelKeeps,
       CancelGoesKeeps, CancelArrivesKeeps, PageReadsKeeps, RepaintedKeeps, RefreshLostKeeps
       DEF CustomerPageNext
<1>3. CASE DeskNext
  <2>1. CASE MovesElsewhere  BY <2>1, MovesElsewhereKeeps
  <2>2. CASE \E d \in Desks :
               \/ OpenDesk(d) \/ ChooseStatus(d) \/ LeavePrompt(d) \/ MoveGoes(d)
               \/ MoveArrives(d) \/ MoveLost(d) \/ DeskRepainted(d) \/ RefreshReads(d)
               \/ RefreshLost(d)
    <3>1. \A d \in Desks : d \in Views  BY DEF Views
    <3> QED
      BY <2>2, <3>1, OpenDeskKeeps, ChoiceKeeps, MoveGoesKeeps, MoveEndsKeeps,
         DeskRepaintedKeeps, PageReadsKeeps, RefreshLostKeeps
  <2> QED BY <1>3, <2>1, <2>2 DEF DeskNext
<1> QED BY <1>1, <1>2, <1>3 DEF OrderPagesNext

LEMMA OrderPagesMeansSound == OrderPagesInv => OrderPagesTypeOK /\ OrderPagesSound
<1> SUFFICES ASSUME OrderPagesInv PROVE OrderPagesTypeOK /\ OrderPagesSound  OBVIOUS
<1>1. PageCatchesUp  BY DEF OrderPagesInv, PageBooks, PageCatchesUp
<1>2. PollsWhileSyncing  BY DEF OrderPagesInv, PageBooks
<1>3. SelectTellsTruth  BY DEF OrderPagesInv, DeskBooks, SelectTellsTruth
<1> QED BY <1>1, <1>2, <1>3 DEF OrderPagesInv, OrderPagesSound

\* The type of what the customer's page, its poller, its refreshes and staff's selects hold.
THEOREM OrderPagesKeepTypes == OrderPagesSpec => []OrderPagesTypeOK
<1> QED BY OrderPagesBegin, OrderPagesStep, OrderPagesMeansSound, PTL DEF OrderPagesSpec

\* Once the poller or the cancel button has heard that the order has moved on, the page says so
\* or is being painted anew; the poller goes on asking while the page says that it does; and a
\* select at rest tells the truth unless others moved the order: OrderStatusPoller.tsx,
\* CancelGuestButton.tsx and StatusSelect.tsx, for any number of questions and of desks.
THEOREM OrderPagesAreSound == OrderPagesSpec => []OrderPagesSound
<1> QED BY OrderPagesBegin, OrderPagesStep, OrderPagesMeansSound, PTL DEF OrderPagesSpec

-----------------------------------------------------------------------------
(***************************************************************************)
(* What visitors leave in a form (Inquiries).                              *)
(***************************************************************************)
-----------------------------------------------------------------------------
\* The row that StoreInquiry makes for a request.
RowOf(r) == [of |-> r, status |-> IF IsSpam(r) THEN "SPAM" ELSE "NEW"]

\* A request that was answered with an error, or whose answer was lost.
FormSettled(r) == sendings[r].lost \/ (At(r, "over") /\ sendings[r].answer = "failed")

\* What a request that was answered has brought about.
Kept(r) ==
  IF sendings[r].form \in Dossiers
  THEN RowOf(r) \in inquiries /\ (r \in conciergeTold \/ IsSpam(r))
  ELSE sendings[r].text \in subscribers

RequestFine(r) ==
  /\ At(r, "over") => sendings[r].answer # "none"
  /\ sendings[r].pc \in {"asking", "storing", "stored"} => sendings[r].form \in Dossiers
  /\ At(r, "stored") => RowOf(r) \in inquiries
  /\ (At(r, "over") /\ sendings[r].answer = "ok") => Kept(r)

RowFine(inq) ==
  /\ inq = RowOf(inq.of)
  /\ sendings[inq.of].pc \in {"stored", "over"}
  /\ inq.status = "NEW" => (inq.of \in conciergeTold \cup brokenOff \/ At(inq.of, "stored"))

\* A form is sent anew only after an error: of two requests the earlier is settled, and so is
\* each one that its form does not wait for, unless the form says thank you for it.
FormsInOrder ==
  /\ \A r, s \in DOMAIN sendings :
       (r < s /\ sendings[r].form = sendings[s].form) => FormSettled(r)
  /\ \A r \in DOMAIN sendings :
       \/ formState[sendings[r].form] = "sending" \/ FormSettled(r)
       \/ formState[sendings[r].form] = "done" /\ At(r, "over") /\ sendings[r].answer = "ok"
  /\ \A f \in Forms : formState[f] = "done" =>
       \E r \in DOMAIN sendings :
         sendings[r].form = f /\ At(r, "over") /\ sendings[r].answer = "ok"

InquiriesInv ==
  /\ InquiriesTypeOK /\ sendings \in Seq(Sending) /\ Len(sendings) <= MaxSendings
  /\ \A r \in DOMAIN sendings : RequestFine(r)
  /\ \A inq \in inquiries : RowFine(inq)
  /\ \A r \in conciergeTold : RowOf(r) \in inquiries /\ ~IsSpam(r)
  /\ FormsInOrder

LEMMA InquiriesTypes ==
  ASSUME InquiriesInv
  PROVE  /\ InquiriesTypeOK /\ sendings \in Seq(Sending) /\ Len(sendings) \in Nat
         /\ Len(sendings) <= MaxSendings /\ MaxSendings \in Nat /\ MaxOutages \in Nat
         /\ DOMAIN sendings = 1 .. Len(sendings)
         /\ \A r \in DOMAIN sendings :
              /\ sendings[r] \in Sending /\ RequestFine(r) /\ r \in Nat
              /\ sendings[r].form \in Forms /\ sendings[r].text \in Texts
         /\ \A inq \in inquiries :
              inq.of \in DOMAIN sendings /\ inq.status \in {"NEW", "SPAM"} /\ RowFine(inq)
         /\ conciergeTold \subseteq DOMAIN sendings /\ brokenOff \subseteq DOMAIN sendings
         /\ formText \in [Forms -> Texts \cup {NoText}]
         /\ formState \in [Forms -> {"idle", "sending", "done", "error"}]
         /\ subscribers \subseteq Texts /\ outages \in 0 .. MaxOutages
<1>1. /\ InquiriesTypeOK /\ sendings \in Seq(Sending) /\ Len(sendings) <= MaxSendings
      /\ \A r \in DOMAIN sendings : RequestFine(r)
      /\ \A inq \in inquiries : RowFine(inq)
  BY DEF InquiriesInv
<1>2. Len(sendings) \in Nat /\ DOMAIN sendings = 1 .. Len(sendings)  BY <1>1
<1>3. \A r \in DOMAIN sendings : sendings[r] \in Sending /\ r \in Nat  BY <1>1, <1>2
<1>4. \A r \in DOMAIN sendings : sendings[r].form \in Forms /\ sendings[r].text \in Texts
  BY <1>3 DEF Sending
<1>5. /\ \A inq \in inquiries : inq.of \in DOMAIN sendings /\ inq.status \in {"NEW", "SPAM"}
      /\ conciergeTold \subseteq DOMAIN sendings /\ brokenOff \subseteq DOMAIN sendings
      /\ formText \in [Forms -> Texts \cup {NoText}]
      /\ formState \in [Forms -> {"idle", "sending", "done", "error"}]
      /\ subscribers \subseteq Texts /\ outages \in 0 .. MaxOutages
  BY <1>1 DEF InquiriesTypeOK
<1> QED BY <1>1, <1>2, <1>3, <1>4, <1>5, InquiriesAssumption

LEMMA RowOfFacts ==
  ASSUME NEW r
  PROVE  RowOf(r).of = r /\ RowOf(r).status \in {"NEW", "SPAM"}
         /\ (RowOf(r).status = "NEW" <=> ~IsSpam(r))
BY DEF RowOf

\* One request is put in the place of another in the sequence.
LEMMA SendingPut ==
  ASSUME InquiriesInv, NEW r \in DOMAIN sendings, NEW q \in Sending,
         sendings' = [sendings EXCEPT ![r] = q]
  PROVE  /\ sendings' \in Seq(Sending) /\ Len(sendings') = Len(sendings)
         /\ DOMAIN sendings' = DOMAIN sendings /\ sendings'[r] = q
         /\ \A s \in DOMAIN sendings : s # r => sendings'[s] = sendings[s]
<1>1. /\ sendings \in Seq(Sending) /\ Len(sendings) \in Nat /\ DOMAIN sendings = 1 .. Len(sendings)
      /\ sendings \in [1 .. Len(sendings) -> Sending]
  BY InquiriesTypes
<1>2. sendings' \in [1 .. Len(sendings) -> Sending]  BY <1>1
<1>3. sendings' \in Seq(Sending) /\ Len(sendings') = Len(sendings)  BY <1>1, <1>2
<1> QED BY <1>1, <1>2, <1>3

\* The types, as the proofs of the steps give them.
LEMMA InquiriesTyped ==
  ASSUME formText' \in [Forms -> Texts \cup {NoText}],
         formState' \in [Forms -> {"idle", "sending", "done", "error"}],
         sendings' \in Seq(Sending), Len(sendings') <= MaxSendings, MaxSendings \in Nat,
         \A inq \in inquiries' : /\ inq \in [of : DOMAIN sendings', status : {"NEW", "SPAM"}],
         subscribers' \subseteq Texts, conciergeTold' \subseteq DOMAIN sendings',
         brokenOff' \subseteq DOMAIN sendings', outages' \in 0 .. MaxOutages
  PROVE  InquiriesTypeOK'
<1>1. DOMAIN sendings' \subseteq 1 .. MaxSendings
      /\ \A r \in DOMAIN sendings' : sendings'[r] \in Sending
  OBVIOUS
<1> QED BY <1>1 DEF InquiriesTypeOK

\* Steps that leave the requests and what came of them as they are: only forms change.
LEMMA FormsOnly ==
  ASSUME InquiriesInv, sendings' = sendings, inquiries' = inquiries, subscribers' = subscribers,
         conciergeTold' = conciergeTold, brokenOff' = brokenOff, outages' = outages,
         formText' \in [Forms -> Texts \cup {NoText}],
         formState' \in [Forms -> {"idle", "sending", "done", "error"}], FormsInOrder'
  PROVE  InquiriesInv'
<1>1. \A r \in DOMAIN sendings : RequestFine(r)'
  BY DEF InquiriesInv, RequestFine, Kept, RowOf, At, IsSpam
<1>2. \A inq \in inquiries : RowFine(inq)'
  BY DEF InquiriesInv, RowFine, RowOf, At, IsSpam
<1>3. \A r \in conciergeTold : RowOf(r)' \in inquiries /\ ~IsSpam(r)'
  BY DEF InquiriesInv, RowOf, IsSpam
<1>4. InquiriesTypeOK'  BY DEF InquiriesInv, InquiriesTypeOK
<1> QED BY <1>1, <1>2, <1>3, <1>4 DEF InquiriesInv, IsSpam, RowOf

-----------------------------------------------------------------------------
(* The handler.                                                             *)

\* A step of the handler of request r: its own request, row and telling change, no others.
LEMMA RequestMoves ==
  ASSUME InquiriesInv, NEW r \in DOMAIN sendings, NEW q \in Sending, ~At(r, "over"),
         sendings' = [sendings EXCEPT ![r] = q],
         q.form = sendings[r].form, q.text = sendings[r].text, q.lost = sendings[r].lost,
         formText' = formText, formState' = formState, outages' = outages,
         inquiries \subseteq inquiries',
         \A inq \in inquiries' : inq \in inquiries \/ inq = RowOf(r),
         subscribers \subseteq subscribers', subscribers' \subseteq Texts,
         conciergeTold \subseteq conciergeTold', conciergeTold' \subseteq conciergeTold \cup {r},
         brokenOff \subseteq brokenOff', brokenOff' \subseteq brokenOff \cup {r},
         RequestFine(r)', \A inq \in inquiries' : inq.of = r => RowFine(inq)',
         r \in conciergeTold' => RowOf(r)' \in inquiries' /\ ~IsSpam(r)'
  PROVE  InquiriesInv'
<1>1. /\ sendings' \in Seq(Sending) /\ Len(sendings') = Len(sendings)
      /\ DOMAIN sendings' = DOMAIN sendings /\ sendings'[r] = q
      /\ \A s \in DOMAIN sendings : s # r => sendings'[s] = sendings[s]
  BY SendingPut
<1>2. \A s \in DOMAIN sendings : /\ sendings'[s].form = sendings[s].form
                                 /\ sendings'[s].text = sendings[s].text
                                 /\ sendings'[s].lost = sendings[s].lost
  BY <1>1
<1>3. ASSUME NEW s \in DOMAIN sendings, s # r
      PROVE  /\ RowOf(s)' = RowOf(s) /\ (IsSpam(s)' <=> IsSpam(s)) /\ sendings'[s] = sendings[s]
             /\ RequestFine(s)'
  <2>1. sendings'[s] = sendings[s]  BY <1>1, <1>3
  <2>2. RowOf(s)' = RowOf(s) /\ (IsSpam(s)' <=> IsSpam(s))  BY <2>1 DEF RowOf, IsSpam
  <2>3. RequestFine(s)  BY InquiriesTypes
  <2>4. RequestFine(s)'  BY <2>1, <2>2, <2>3 DEF RequestFine, Kept, At
  <2> QED BY <2>1, <2>2, <2>4
<1>4. \A s \in DOMAIN sendings : RequestFine(s)'  BY <1>3
<1>5. ASSUME NEW inq \in inquiries' PROVE RowFine(inq)'
  <2>1. CASE inq.of = r  BY <2>1
  <2>2. CASE inq.of # r
    <3>1. inq \in inquiries /\ inq.of \in DOMAIN sendings /\ RowFine(inq)
      BY <2>2, InquiriesTypes, RowOfFacts
    <3>2. RowOf(inq.of)' = RowOf(inq.of) /\ sendings'[inq.of] = sendings[inq.of]
      BY <1>3, <2>2, <3>1
    <3> QED BY <3>1, <3>2 DEF RowFine, At
  <2> QED BY <2>1, <2>2
<1>6. ASSUME NEW s \in conciergeTold' PROVE RowOf(s)' \in inquiries' /\ ~IsSpam(s)'
  <2>1. CASE s = r  BY <2>1
  <2>2. CASE s # r
    <3>1. s \in conciergeTold /\ s \in DOMAIN sendings  BY <2>2, InquiriesTypes
    <3>2. RowOf(s) \in inquiries /\ ~IsSpam(s)  BY <3>1 DEF InquiriesInv
    <3> QED BY <1>3, <2>2, <3>1, <3>2
  <2> QED BY <2>1, <2>2
<1>7. \A s \in DOMAIN sendings :
        /\ FormSettled(s) => FormSettled(s)'
        /\ (At(s, "over") /\ sendings[s].answer = "ok") =>
             (At(s, "over")' /\ sendings'[s].answer = "ok")
  BY <1>1, <1>2 DEF FormSettled, At
<1>8. FormsInOrder'
  <2>1. FormsInOrder  BY DEF InquiriesInv
  <2>2. ASSUME NEW s \in DOMAIN sendings, NEW t \in DOMAIN sendings,
               s < t, sendings'[s].form = sendings'[t].form
        PROVE  FormSettled(s)'
    BY <1>2, <1>7, <2>1, <2>2 DEF FormsInOrder
  <2>3. ASSUME NEW s \in DOMAIN sendings
        PROVE  \/ formState'[sendings'[s].form] = "sending" \/ FormSettled(s)'
               \/ formState'[sendings'[s].form] = "done" /\ At(s, "over")'
                  /\ sendings'[s].answer = "ok"
    BY <1>2, <1>7, <2>1 DEF FormsInOrder
  <2>4. ASSUME NEW f \in Forms, formState'[f] = "done"
        PROVE  \E s \in DOMAIN sendings :
                 sendings'[s].form = f /\ At(s, "over")' /\ sendings'[s].answer = "ok"
    BY <1>2, <1>7, <2>1, <2>4 DEF FormsInOrder
  <2> QED BY <1>1, <2>2, <2>3, <2>4 DEF FormsInOrder
<1>9. InquiriesTypeOK'
  <2>1. \A inq \in inquiries' : inq \in [of : DOMAIN sendings', status : {"NEW", "SPAM"}]
    <3>1. ASSUME NEW inq \in inquiries'
              PROVE  inq \in [of : DOMAIN sendings', status : {"NEW", "SPAM"}]
      <4>1. CASE inq \in inquiries
        BY <1>1, <4>1 DEF InquiriesInv, InquiriesTypeOK
      <4>2. CASE inq = RowOf(r)  BY <1>1, <4>2 DEF RowOf
      <4> QED BY <4>1, <4>2
    <3> QED BY <3>1
  <2>2. /\ formText' \in [Forms -> Texts \cup {NoText}]
        /\ formState' \in [Forms -> {"idle", "sending", "done", "error"}]
        /\ conciergeTold' \subseteq DOMAIN sendings' /\ brokenOff' \subseteq DOMAIN sendings'
        /\ outages' \in 0 .. MaxOutages /\ MaxSendings \in Nat /\ Len(sendings') <= MaxSendings
    BY <1>1, InquiriesTypes
  <2> QED BY <1>1, <2>1, <2>2, InquiriesTyped
<1>10. Len(sendings') <= MaxSendings  BY <1>1, InquiriesTypes
<1> QED BY <1>1, <1>4, <1>5, <1>6, <1>8, <1>9, <1>10 DEF InquiriesInv

\* A step of the handler before there is a row: to be refused, to ask Jev, to hear from it.
LEMMA EarlyKeeps ==
  ASSUME InquiriesInv, NEW r \in DOMAIN sendings, Refused(r) \/ Arrives(r) \/ Judged(r)
  PROVE  InquiriesInv'
<1>1. /\ formText' = formText /\ formState' = formState /\ inquiries' = inquiries
      /\ subscribers' = subscribers /\ conciergeTold' = conciergeTold
      /\ brokenOff' = brokenOff /\ outages' = outages
      /\ sendings[r].pc \in {"sent", "asking"}
  BY DEF Refused, Arrives, Judged, pageVars, rowVars, faultVars, At
<1>2. sendings[r] \in Sending /\ RequestFine(r) /\ subscribers \subseteq Texts
  BY InquiriesTypes
<1>3. ~At(r, "over")  BY <1>1 DEF At
<1>4. \A inq \in inquiries : inq.of # r
  <2>1. \A inq \in inquiries : RowFine(inq)  BY InquiriesTypes
  <2> QED BY <1>1, <2>1 DEF RowFine
<1>5. r \notin conciergeTold
  <2>1. r \in conciergeTold => RowOf(r) \in inquiries  BY DEF InquiriesInv
  <2> QED BY <1>4, <2>1, RowOfFacts
<1>6. ASSUME NEW q \in Sending, sendings' = [sendings EXCEPT ![r] = q],
             q.form = sendings[r].form, q.text = sendings[r].text, q.lost = sendings[r].lost,
             \/ q.pc = "over" /\ q.answer = "failed"
             \/ q.pc \in {"asking", "storing"} /\ q.form \in Dossiers
      PROVE  InquiriesInv'
  <2>1. sendings'[r] = q  BY <1>6, SendingPut
  <2>2. RequestFine(r)'  BY <1>6, <2>1 DEF RequestFine, At
  <2> QED BY <1>1, <1>2, <1>3, <1>4, <1>5, <1>6, <2>2, RequestMoves
<1>7. CASE Refused(r)
  <2> DEFINE q == [sendings[r] EXCEPT !.pc = "over", !.answer = "failed"]
  <2>1. /\ q \in Sending /\ q.pc = "over" /\ q.answer = "failed" /\ q.form = sendings[r].form
        /\ q.text = sendings[r].text /\ q.lost = sendings[r].lost
    BY <1>2 DEF Sending
  <2>2. sendings' = [sendings EXCEPT ![r] = q]  BY <1>7 DEF Refused, Over
  <2> HIDE DEF q
  <2> QED BY <1>6, <2>1, <2>2
<1>8. CASE Arrives(r)
  <2> DEFINE q == [sendings[r] EXCEPT !.pc = "asking"]
  <2>1. /\ q \in Sending /\ q.pc = "asking" /\ q.form = sendings[r].form
        /\ q.text = sendings[r].text /\ q.lost = sendings[r].lost
    BY <1>2 DEF Sending
  <2>2. sendings' = [sendings EXCEPT ![r] = q] /\ sendings[r].form \in Dossiers
    BY <1>8 DEF Arrives
  <2> HIDE DEF q
  <2> QED BY <1>6, <2>1, <2>2
<1>9. CASE Judged(r)
  <2>1. PICK verdict \in {"none", "spam", "fine"} :
          sendings' = [sendings EXCEPT ![r].pc = "storing", ![r].verdict = verdict]
    BY <1>9 DEF Judged
  <2> DEFINE q == [sendings[r] EXCEPT !.pc = "storing", !.verdict = verdict]
  <2>2. /\ q \in Sending /\ q.pc = "storing" /\ q.form = sendings[r].form
        /\ q.text = sendings[r].text /\ q.lost = sendings[r].lost
    BY <1>2 DEF Sending
  <2>3. sendings' = [sendings EXCEPT ![r] = q]  BY <2>1
  <2>4. sendings[r].form \in Dossiers  BY <1>2, <1>9 DEF Judged, At, RequestFine
  <2> HIDE DEF q
  <2> QED BY <1>6, <2>2, <2>3, <2>4
<1> QED BY <1>7, <1>8, <1>9

\* The row is made, and the handler goes on or is told of a failure.
LEMMA StoreKeeps ==
  ASSUME InquiriesInv, NEW r \in DOMAIN sendings, StoreInquiry(r) \/ StoreFails(r)
  PROVE  InquiriesInv'
<1>1. /\ formText' = formText /\ formState' = formState /\ subscribers' = subscribers
      /\ conciergeTold' = conciergeTold /\ outages' = outages /\ sendings[r].pc = "storing"
  BY DEF StoreInquiry, StoreFails, pageVars, faultVars, At
<1>2. sendings[r] \in Sending /\ RequestFine(r) /\ subscribers \subseteq Texts
  BY InquiriesTypes
<1>3. sendings[r].form \in Dossiers /\ ~At(r, "over")  BY <1>1, <1>2 DEF RequestFine, At
<1>4. r \notin conciergeTold
  <2>1. r \in conciergeTold => RowOf(r) \in inquiries  BY DEF InquiriesInv
  <2>2. \A inq \in inquiries : RowFine(inq)  BY InquiriesTypes
  <2>3. RowOf(r) \notin inquiries  BY <1>1, <2>2, RowOfFacts DEF RowFine
  <2> QED BY <2>1, <2>3
<1>5. \A inq \in inquiries : inq.of # r
  <2>1. \A inq \in inquiries : RowFine(inq)  BY InquiriesTypes
  <2> QED BY <1>1, <2>1 DEF RowFine
<1>6. ASSUME NEW q \in Sending, sendings' = [sendings EXCEPT ![r] = q],
             q.form = sendings[r].form, q.text = sendings[r].text, q.lost = sendings[r].lost,
             q.verdict = sendings[r].verdict,
             \/ q.pc = "stored" /\ inquiries' = inquiries \cup {RowOf(r)} /\ brokenOff' = brokenOff
             \/ /\ q.pc = "over" /\ q.answer = "failed"
                /\ \/ inquiries' = inquiries \cup {RowOf(r)} /\ brokenOff' = brokenOff \cup {r}
                   \/ inquiries' = inquiries /\ brokenOff' = brokenOff
      PROVE  InquiriesInv'
  <2>1. sendings'[r] = q  BY <1>6, SendingPut
  <2>2. RowOf(r)' = RowOf(r) /\ (IsSpam(r)' <=> IsSpam(r))  BY <1>6, <2>1 DEF RowOf, IsSpam
  <2>3. RequestFine(r)'  BY <1>3, <1>6, <2>1, <2>2 DEF RequestFine, At
  <2>4. ASSUME NEW inq \in inquiries', inq.of = r PROVE RowFine(inq)'
    <3>1. inq = RowOf(r) /\ inq.of = r  BY <1>5, <1>6, <2>4
    <3>2. q.pc = "stored" \/ (q.pc = "over" /\ r \in brokenOff')  BY <1>5, <1>6, <2>4
    <3> QED BY <2>1, <2>2, <3>1, <3>2 DEF RowFine, At
  <2>5. /\ inquiries \subseteq inquiries'
        /\ \A inq \in inquiries' : inq \in inquiries \/ inq = RowOf(r)
        /\ brokenOff \subseteq brokenOff' /\ brokenOff' \subseteq brokenOff \cup {r}
    BY <1>6
  <2> QED BY <1>1, <1>2, <1>3, <1>4, <1>6, <2>3, <2>4, <2>5, RequestMoves
<1>7. CASE StoreInquiry(r)
  <2> DEFINE q == [sendings[r] EXCEPT !.pc = "stored"]
  <2>1. /\ q \in Sending /\ q.pc = "stored" /\ q.form = sendings[r].form
        /\ q.text = sendings[r].text /\ q.lost = sendings[r].lost
        /\ q.verdict = sendings[r].verdict
    BY <1>2 DEF Sending
  <2>2. sendings' = [sendings EXCEPT ![r] = q] /\ inquiries' = inquiries \cup {RowOf(r)}
        /\ brokenOff' = brokenOff
    BY <1>7 DEF StoreInquiry, RowOf, faultVars
  <2> HIDE DEF q
  <2> QED BY <1>6, <2>1, <2>2
<1>8. CASE StoreFails(r)
  <2> DEFINE q == [sendings[r] EXCEPT !.pc = "over", !.answer = "failed"]
  <2>1. /\ q \in Sending /\ q.pc = "over" /\ q.answer = "failed" /\ q.form = sendings[r].form
        /\ q.text = sendings[r].text /\ q.lost = sendings[r].lost
        /\ q.verdict = sendings[r].verdict
    BY <1>2 DEF Sending
  <2>2. /\ sendings' = [sendings EXCEPT ![r] = q]
        /\ \/ inquiries' = inquiries \cup {RowOf(r)} /\ brokenOff' = brokenOff \cup {r}
           \/ inquiries' = inquiries /\ brokenOff' = brokenOff
    BY <1>8 DEF StoreFails, Over, RowOf
  <2> HIDE DEF q
  <2> QED BY <1>6, <2>1, <2>2
<1> QED BY <1>7, <1>8

LEMMA TellKeeps ==
  ASSUME InquiriesInv, NEW r \in DOMAIN sendings, TellConcierge(r)
  PROVE  InquiriesInv'
<1> DEFINE q == [sendings[r] EXCEPT !.pc = "over", !.answer = "ok"]
<1>1. /\ formText' = formText /\ formState' = formState /\ subscribers' = subscribers
      /\ inquiries' = inquiries /\ brokenOff' = brokenOff /\ outages' = outages
      /\ sendings[r].pc = "stored" /\ sendings' = [sendings EXCEPT ![r] = q]
      /\ conciergeTold' = IF IsSpam(r) THEN conciergeTold ELSE conciergeTold \cup {r}
  BY DEF TellConcierge, pageVars, rowVars, faultVars, At, Over
<1>2. sendings[r] \in Sending /\ RequestFine(r) /\ subscribers \subseteq Texts
  BY InquiriesTypes
<1>3. /\ sendings[r].form \in Dossiers /\ RowOf(r) \in inquiries /\ ~At(r, "over")
  BY <1>1, <1>2 DEF RequestFine, At
<1>4. /\ q \in Sending /\ q.pc = "over" /\ q.answer = "ok" /\ q.form = sendings[r].form
      /\ q.text = sendings[r].text /\ q.lost = sendings[r].lost
      /\ q.verdict = sendings[r].verdict
  BY <1>2 DEF Sending
<1> HIDE DEF q
<1>5. sendings'[r] = q  BY <1>1, <1>4, SendingPut
<1>6. RowOf(r)' = RowOf(r) /\ (IsSpam(r)' <=> IsSpam(r))  BY <1>4, <1>5 DEF RowOf, IsSpam
<1>7. /\ conciergeTold \subseteq conciergeTold' /\ conciergeTold' \subseteq conciergeTold \cup {r}
      /\ r \in conciergeTold' \/ IsSpam(r)
  BY <1>1
<1>8. RequestFine(r)'
  <2>1. Kept(r)'  BY <1>1, <1>3, <1>4, <1>5, <1>6, <1>7 DEF Kept
  <2> QED BY <1>4, <1>5, <2>1 DEF RequestFine, At
<1>9. ASSUME NEW inq \in inquiries', inq.of = r PROVE RowFine(inq)'
  <2>1. RowFine(inq)  BY <1>1, <1>9, InquiriesTypes
  <2>2. inq = RowOf(r)  BY <1>9, <2>1 DEF RowFine
  <2>3. inq.status = "NEW" => r \in conciergeTold'  BY <1>7, <2>2, RowOfFacts
  <2> QED BY <1>4, <1>5, <1>6, <1>9, <2>2, <2>3 DEF RowFine
<1>10. r \in conciergeTold' => RowOf(r)' \in inquiries' /\ ~IsSpam(r)'
  <2>1. r \in conciergeTold => ~IsSpam(r)  BY DEF InquiriesInv
  <2> QED BY <1>1, <1>3, <1>6, <2>1
<1> QED BY <1>1, <1>2, <1>3, <1>4, <1>7, <1>8, <1>9, <1>10, RequestMoves

LEMMA SubscribeKeeps ==
  ASSUME InquiriesInv, NEW r \in DOMAIN sendings, Subscribe(r)
  PROVE  InquiriesInv'
<1>1. /\ formText' = formText /\ formState' = formState /\ inquiries' = inquiries
      /\ conciergeTold' = conciergeTold /\ brokenOff' = brokenOff /\ outages' = outages
      /\ sendings[r].pc = "sent" /\ sendings[r].form \notin Dossiers
      /\ \/ subscribers' = subscribers \cup {sendings[r].text} /\ Over(r, "ok")
         \/ subscribers' = subscribers /\ Over(r, "failed")
  BY DEF Subscribe, pageVars, faultVars, At
<1>2. /\ sendings[r] \in Sending /\ RequestFine(r) /\ subscribers \subseteq Texts
      /\ sendings[r].text \in Texts
  BY InquiriesTypes
<1>3. PICK answer \in {"ok", "failed"} :
        /\ Over(r, answer)
        /\ \/ answer = "ok" /\ subscribers' = subscribers \cup {sendings[r].text}
           \/ answer = "failed" /\ subscribers' = subscribers
  BY <1>1
<1> DEFINE q == [sendings[r] EXCEPT !.pc = "over", !.answer = answer]
<1>4. /\ q \in Sending /\ q.pc = "over" /\ q.answer = answer /\ q.form = sendings[r].form
      /\ q.text = sendings[r].text /\ q.lost = sendings[r].lost
  BY <1>2 DEF Sending
<1>5. sendings' = [sendings EXCEPT ![r] = q]  BY <1>3 DEF Over
<1> HIDE DEF q
<1>6. sendings'[r] = q  BY <1>4, <1>5, SendingPut
<1>7. \A inq \in inquiries : inq.of # r
  <2>1. \A inq \in inquiries : RowFine(inq)  BY InquiriesTypes
  <2> QED BY <1>1, <2>1 DEF RowFine
<1>8. r \notin conciergeTold
  <2>1. r \in conciergeTold => RowOf(r) \in inquiries  BY DEF InquiriesInv
  <2> QED BY <1>7, <2>1, RowOfFacts
<1>9. RequestFine(r)'
  <2>1. q.answer = "ok" => Kept(r)'  BY <1>1, <1>3, <1>4, <1>6 DEF Kept
  <2> QED BY <1>3, <1>4, <1>6, <2>1 DEF RequestFine, At
<1>10. subscribers \subseteq subscribers' /\ subscribers' \subseteq Texts  BY <1>2, <1>3
<1>11. ~At(r, "over")  BY <1>1 DEF At
<1> QED BY <1>1, <1>4, <1>5, <1>7, <1>8, <1>9, <1>10, <1>11, RequestMoves

\* The backend stops: every request that is not over is broken off, after its row or before it.
LEMMA OutageKeeps ==
  ASSUME InquiriesInv, Outage
  PROVE  InquiriesInv'
<1> DEFINE Broken(r) == [sendings[r] EXCEPT !.pc = "over", !.answer = "failed"]
<1>1. /\ formText' = formText /\ formState' = formState /\ inquiries' = inquiries
      /\ subscribers' = subscribers /\ conciergeTold' = conciergeTold
      /\ outages < MaxOutages /\ outages' = outages + 1
      /\ brokenOff' = brokenOff \cup {r \in DOMAIN sendings : At(r, "stored")}
      /\ sendings' = [r \in DOMAIN sendings |-> IF At(r, "over") THEN sendings[r] ELSE Broken(r)]
  BY DEF Outage, pageVars, rowVars
<1>2. /\ sendings \in Seq(Sending) /\ Len(sendings) \in Nat /\ Len(sendings) <= MaxSendings
      /\ DOMAIN sendings = 1 .. Len(sendings) /\ MaxSendings \in Nat
      /\ \A r \in DOMAIN sendings : sendings[r] \in Sending
  BY InquiriesTypes
<1>3. ASSUME NEW r \in DOMAIN sendings
      PROVE  /\ Broken(r) \in Sending /\ Broken(r).pc = "over" /\ Broken(r).answer = "failed"
             /\ Broken(r).form = sendings[r].form /\ Broken(r).text = sendings[r].text
             /\ Broken(r).lost = sendings[r].lost /\ Broken(r).verdict = sendings[r].verdict
  BY <1>2 DEF Sending
<1> HIDE DEF Broken
<1>4. /\ sendings' \in [1 .. Len(sendings) -> Sending] /\ DOMAIN sendings' = DOMAIN sendings
      /\ \A r \in DOMAIN sendings :
           sendings'[r] = (IF At(r, "over") THEN sendings[r] ELSE Broken(r))
  BY <1>1, <1>2, <1>3
<1>5. sendings' \in Seq(Sending) /\ Len(sendings') = Len(sendings)  BY <1>2, <1>4
<1>6. ASSUME NEW r \in DOMAIN sendings
      PROVE  /\ At(r, "over") => sendings'[r] = sendings[r]
             /\ ~At(r, "over") => (sendings'[r].answer = "failed")
             /\ sendings'[r].pc = "over" /\ sendings'[r].form = sendings[r].form
             /\ sendings'[r].lost = sendings[r].lost
             /\ RowOf(r)' = RowOf(r) /\ (IsSpam(r)' <=> IsSpam(r))
  BY <1>3, <1>4 DEF At, RowOf, IsSpam
<1>7. ASSUME NEW r \in DOMAIN sendings PROVE RequestFine(r)'
  <2>1. RequestFine(r)  BY InquiriesTypes
  <2>2. CASE At(r, "over")  BY <1>1, <1>6, <2>1, <2>2 DEF RequestFine, Kept, At
  <2>3. CASE ~At(r, "over")  BY <1>6, <2>3 DEF RequestFine, At
  <2> QED BY <2>2, <2>3
<1>8. ASSUME NEW inq \in inquiries PROVE RowFine(inq)'
  <2>1. RowFine(inq) /\ inq.of \in DOMAIN sendings  BY InquiriesTypes
  <2>2. At(inq.of, "stored") => inq.of \in brokenOff'  BY <1>1, <2>1
  <2> QED BY <1>1, <1>6, <2>1, <2>2 DEF RowFine
<1>9. ASSUME NEW r \in conciergeTold PROVE RowOf(r)' \in inquiries /\ ~IsSpam(r)'
  <2>1. r \in DOMAIN sendings /\ RowOf(r) \in inquiries /\ ~IsSpam(r)
    BY InquiriesTypes DEF InquiriesInv
  <2> QED BY <1>6, <2>1
<1>10. FormsInOrder'
  <2>1. FormsInOrder  BY DEF InquiriesInv
  <2>2. \A r \in DOMAIN sendings : FormSettled(r) => FormSettled(r)'
    BY <1>6 DEF FormSettled, At
  <2>3. ASSUME NEW s \in DOMAIN sendings, NEW t \in DOMAIN sendings,
               s < t, sendings'[s].form = sendings'[t].form
        PROVE  FormSettled(s)'
    BY <1>6, <2>1, <2>2, <2>3 DEF FormsInOrder
  <2>4. ASSUME NEW s \in DOMAIN sendings
        PROVE  \/ formState'[sendings'[s].form] = "sending" \/ FormSettled(s)'
               \/ formState'[sendings'[s].form] = "done" /\ At(s, "over")'
                  /\ sendings'[s].answer = "ok"
    BY <1>1, <1>6, <2>1, <2>2 DEF FormsInOrder, At
  <2>5. ASSUME NEW f \in Forms, formState'[f] = "done"
        PROVE  \E s \in DOMAIN sendings :
                 sendings'[s].form = f /\ At(s, "over")' /\ sendings'[s].answer = "ok"
    BY <1>1, <1>6, <2>1, <2>5 DEF FormsInOrder, At
  <2> QED BY <1>4, <2>3, <2>4, <2>5 DEF FormsInOrder
<1>11. InquiriesTypeOK'
  <2>1. \A inq \in inquiries' : inq \in [of : DOMAIN sendings', status : {"NEW", "SPAM"}]
    BY <1>1, <1>4, InquiriesTypes DEF InquiriesTypeOK
  <2>2. /\ formText' \in [Forms -> Texts \cup {NoText}]
        /\ formState' \in [Forms -> {"idle", "sending", "done", "error"}]
        /\ conciergeTold' \subseteq DOMAIN sendings' /\ brokenOff' \subseteq DOMAIN sendings'
        /\ subscribers' \subseteq Texts
    BY <1>1, <1>4, InquiriesTypes
  <2>3. outages' \in 0 .. MaxOutages  BY <1>1, InquiriesTypes
  <2>4. Len(sendings') <= MaxSendings  BY <1>2, <1>5
  <2> QED BY <1>2, <1>5, <2>1, <2>2, <2>3, <2>4, InquiriesTyped
<1> QED BY <1>1, <1>2, <1>4, <1>5, <1>7, <1>8, <1>9, <1>10, <1>11 DEF InquiriesInv

-----------------------------------------------------------------------------
(* The forms.                                                               *)

\* A form that is neither sending nor done stays so.
LEMMA WriteKeeps ==
  ASSUME InquiriesInv, NEW f \in Forms,
         PressIncomplete(f) \/ \E text \in Texts \cup {NoText} : Write(f, text)
  PROVE  InquiriesInv'
<1>1. /\ sendings' = sendings /\ inquiries' = inquiries /\ subscribers' = subscribers
      /\ conciergeTold' = conciergeTold /\ brokenOff' = brokenOff /\ outages' = outages
  BY DEF PressIncomplete, Write, rowVars, faultVars
<1>2. /\ formText \in [Forms -> Texts \cup {NoText}]
      /\ formState \in [Forms -> {"idle", "sending", "done", "error"}]
      /\ \A r \in DOMAIN sendings : sendings[r].form \in Forms
  BY InquiriesTypes
<1>3. formText' \in [Forms -> Texts \cup {NoText}]  BY <1>2 DEF PressIncomplete, Write
<1>4. \/ formState' = formState
      \/ /\ formState[f] \in {"idle", "error"}
         /\ \/ formState' = [formState EXCEPT ![f] = "idle"]
            \/ formState' = [formState EXCEPT ![f] = "error"]
  BY DEF PressIncomplete, Write
<1>5. /\ formState' \in [Forms -> {"idle", "sending", "done", "error"}]
      /\ \A g \in Forms : /\ formState'[g] = "sending" <=> formState[g] = "sending"
                          /\ formState'[g] = "done" <=> formState[g] = "done"
  BY <1>2, <1>4
<1>6. FormsInOrder'
  BY <1>1, <1>2, <1>5 DEF InquiriesInv, FormsInOrder, FormSettled, At
<1> QED BY <1>1, <1>3, <1>5, <1>6, FormsOnly

\* The answer to a form's last request.
LEMMA AnswerKeeps ==
  ASSUME InquiriesInv, NEW f \in Forms, NEW r \in DOMAIN sendings, AnswerComes(f, r)
  PROVE  InquiriesInv'
<1>1. /\ sendings' = sendings /\ inquiries' = inquiries /\ subscribers' = subscribers
      /\ conciergeTold' = conciergeTold /\ brokenOff' = brokenOff /\ outages' = outages
      /\ formText' = formText /\ Awaits(f, r) /\ At(r, "over")
      /\ formState' = [formState EXCEPT ![f] =
                         IF sendings[r].answer = "ok" THEN "done" ELSE "error"]
  BY DEF AnswerComes, rowVars, faultVars
<1>2. /\ formText \in [Forms -> Texts \cup {NoText}] /\ Len(sendings) \in Nat
      /\ formState \in [Forms -> {"idle", "sending", "done", "error"}]
      /\ \A s \in DOMAIN sendings : sendings[s].form \in Forms /\ s \in Nat
      /\ sendings[r] \in Sending /\ RequestFine(r) /\ DOMAIN sendings = 1 .. Len(sendings)
  BY InquiriesTypes
<1>3. /\ formState' \in [Forms -> {"idle", "sending", "done", "error"}]
      /\ \A g \in Forms : g # f => formState'[g] = formState[g]
      /\ sendings[r].answer = "ok" => formState'[f] = "done"
      /\ sendings[r].answer # "ok" => formState'[f] = "error"
      /\ sendings[r].answer \in {"ok", "failed"}
  BY <1>1, <1>2 DEF RequestFine, Sending
<1>4. FormsInOrder  BY DEF InquiriesInv
<1>5. sendings[r].form = f /\ ~FormSettled(r) => sendings[r].answer = "ok"
  BY <1>1, <1>3 DEF FormSettled
<1>6. ASSUME NEW s \in DOMAIN sendings, sendings[s].form = f, s # r PROVE FormSettled(s)
  <2>1. ~(s \in (r + 1) .. Len(sendings))  BY <1>1, <1>6 DEF Awaits
  <2>2. s < r  BY <1>2, <1>6, <2>1
  <2>3. sendings[r].form = f  BY <1>1 DEF Awaits
  <2> QED BY <1>4, <1>6, <2>2, <2>3 DEF FormsInOrder
<1>7. sendings[r].form = f  BY <1>1 DEF Awaits
<1>8. FormsInOrder'
  <2>1. ASSUME NEW s \in DOMAIN sendings, NEW t \in DOMAIN sendings, s < t,
               sendings[s].form = sendings[t].form
        PROVE  FormSettled(s)
    BY <1>4, <2>1 DEF FormsInOrder
  <2>2. ASSUME NEW s \in DOMAIN sendings
        PROVE  \/ formState'[sendings[s].form] = "sending" \/ FormSettled(s)
               \/ formState'[sendings[s].form] = "done" /\ At(s, "over")
                  /\ sendings[s].answer = "ok"
    <3>1. CASE sendings[s].form # f  BY <1>2, <1>3, <1>4, <3>1 DEF FormsInOrder
    <3>2. CASE sendings[s].form = f /\ s # r  BY <1>6, <3>2
    <3>3. CASE s = r  BY <1>1, <1>3, <1>5, <1>7, <3>3
    <3> QED BY <3>1, <3>2, <3>3
  <2>3. ASSUME NEW g \in Forms, formState'[g] = "done"
        PROVE  \E s \in DOMAIN sendings :
                 sendings[s].form = g /\ At(s, "over") /\ sendings[s].answer = "ok"
    BY <1>1, <1>3, <1>4, <1>7, <2>3 DEF FormsInOrder
  <2> QED BY <1>1, <2>1, <2>2, <2>3 DEF FormsInOrder, FormSettled, At
<1> QED BY <1>1, <1>2, <1>3, <1>8, FormsOnly

\* The page gives up; the request is marked as one whose sender has seen an error.
LEMMA FormLostKeeps ==
  ASSUME InquiriesInv, NEW f \in Forms, NEW r \in DOMAIN sendings, AnswerIsLost(f, r)
  PROVE  InquiriesInv'
<1> DEFINE q == [sendings[r] EXCEPT !.lost = TRUE]
<1>1. /\ inquiries' = inquiries /\ subscribers' = subscribers
      /\ conciergeTold' = conciergeTold /\ brokenOff' = brokenOff /\ outages' = outages
      /\ formText' = formText /\ Awaits(f, r)
      /\ formState' = [formState EXCEPT ![f] = "error"]
      /\ sendings' = [sendings EXCEPT ![r] = q]
  BY DEF AnswerIsLost, rowVars, faultVars
<1>2. /\ formText \in [Forms -> Texts \cup {NoText}] /\ Len(sendings) \in Nat
      /\ formState \in [Forms -> {"idle", "sending", "done", "error"}]
      /\ \A s \in DOMAIN sendings : sendings[s].form \in Forms /\ s \in Nat
      /\ sendings[r] \in Sending /\ DOMAIN sendings = 1 .. Len(sendings)
  BY InquiriesTypes
<1>3. /\ q \in Sending /\ q.lost = TRUE /\ q.form = sendings[r].form
      /\ q.text = sendings[r].text /\ q.pc = sendings[r].pc /\ q.answer = sendings[r].answer
      /\ q.verdict = sendings[r].verdict
  BY <1>2 DEF Sending
<1> HIDE DEF q
<1>4. /\ sendings' \in Seq(Sending) /\ Len(sendings') = Len(sendings)
      /\ DOMAIN sendings' = DOMAIN sendings /\ sendings'[r] = q
      /\ \A s \in DOMAIN sendings : s # r => sendings'[s] = sendings[s]
  BY <1>1, <1>3, SendingPut
<1>5. \A s \in DOMAIN sendings :
        /\ sendings'[s].form = sendings[s].form /\ sendings'[s].text = sendings[s].text
        /\ sendings'[s].pc = sendings[s].pc /\ sendings'[s].answer = sendings[s].answer
        /\ sendings'[s].verdict = sendings[s].verdict
  BY <1>3, <1>4
<1>6. ASSUME NEW s \in DOMAIN sendings
      PROVE  /\ RowOf(s)' = RowOf(s) /\ (IsSpam(s)' <=> IsSpam(s)) /\ RequestFine(s)'
             /\ (FormSettled(s) => FormSettled(s)') /\ (s = r => FormSettled(s)')
  <2>1. RowOf(s)' = RowOf(s) /\ (IsSpam(s)' <=> IsSpam(s))  BY <1>5 DEF RowOf, IsSpam
  <2>2. RequestFine(s)  BY InquiriesTypes
  <2>3. RequestFine(s)'  BY <1>1, <1>5, <2>1, <2>2 DEF RequestFine, Kept, At
  <2>4. s = r => FormSettled(s)'  BY <1>3, <1>4 DEF FormSettled
  <2>5. s # r => sendings'[s] = sendings[s]  BY <1>4
  <2>6. FormSettled(s) => FormSettled(s)'  BY <2>4, <2>5 DEF FormSettled, At
  <2> QED BY <2>1, <2>3, <2>4, <2>6
<1>7. ASSUME NEW inq \in inquiries PROVE RowFine(inq)'
  <2>1. RowFine(inq) /\ inq.of \in DOMAIN sendings  BY InquiriesTypes
  <2> QED BY <1>1, <1>5, <1>6, <2>1 DEF RowFine, At
<1>8. ASSUME NEW s \in conciergeTold PROVE RowOf(s)' \in inquiries /\ ~IsSpam(s)'
  <2>1. s \in DOMAIN sendings /\ RowOf(s) \in inquiries /\ ~IsSpam(s)
    BY InquiriesTypes DEF InquiriesInv
  <2> QED BY <1>6, <2>1
<1>9. /\ formState' \in [Forms -> {"idle", "sending", "done", "error"}]
      /\ formState'[f] = "error" /\ \A g \in Forms : g # f => formState'[g] = formState[g]
  BY <1>1, <1>2
<1>10. FormsInOrder'
  <2>1. FormsInOrder /\ sendings[r].form = f  BY <1>1 DEF InquiriesInv, Awaits
  <2>2. ASSUME NEW s \in DOMAIN sendings, NEW t \in DOMAIN sendings,
               s < t, sendings'[s].form = sendings'[t].form
        PROVE  FormSettled(s)'
    BY <1>5, <1>6, <2>1, <2>2 DEF FormsInOrder
  <2>3. ASSUME NEW s \in DOMAIN sendings
        PROVE  \/ formState'[sendings'[s].form] = "sending" \/ FormSettled(s)'
               \/ formState'[sendings'[s].form] = "done" /\ At(s, "over")'
                  /\ sendings'[s].answer = "ok"
    <3>1. CASE sendings[s].form # f
      BY <1>2, <1>5, <1>6, <1>9, <2>1, <3>1 DEF FormsInOrder, At
    <3>2. CASE sendings[s].form = f /\ s # r
      <4>1. ~(s \in (r + 1) .. Len(sendings))  BY <1>1, <3>2 DEF Awaits
      <4>2. s < r  BY <1>2, <3>2, <4>1
      <4>3. FormSettled(s)  BY <2>1, <3>2, <4>2 DEF FormsInOrder
      <4> QED BY <1>6, <4>3
    <3>3. CASE s = r  BY <1>6, <3>3
    <3> QED BY <3>1, <3>2, <3>3
  <2>4. ASSUME NEW g \in Forms, formState'[g] = "done"
        PROVE  \E s \in DOMAIN sendings :
                 sendings'[s].form = g /\ At(s, "over")' /\ sendings'[s].answer = "ok"
    BY <1>5, <1>9, <2>1, <2>4 DEF FormsInOrder, At
  <2> QED BY <1>4, <2>2, <2>3, <2>4 DEF FormsInOrder
<1>11. InquiriesTypeOK'
  <2>1. \A inq \in inquiries' : inq \in [of : DOMAIN sendings', status : {"NEW", "SPAM"}]
    BY <1>1, <1>4, InquiriesTypes DEF InquiriesTypeOK
  <2>2. /\ formText' \in [Forms -> Texts \cup {NoText}] /\ MaxSendings \in Nat
        /\ conciergeTold' \subseteq DOMAIN sendings' /\ brokenOff' \subseteq DOMAIN sendings'
        /\ subscribers' \subseteq Texts /\ outages' \in 0 .. MaxOutages
        /\ Len(sendings') <= MaxSendings
    BY <1>1, <1>4, InquiriesTypes
  <2> QED BY <1>4, <1>9, <2>1, <2>2, InquiriesTyped
<1>12. Len(sendings') <= MaxSendings  BY <1>4, InquiriesTypes
<1> QED BY <1>1, <1>4, <1>6, <1>7, <1>8, <1>10, <1>11, <1>12 DEF InquiriesInv

\* A form is sent: one more request, the last one.
LEMMA SubmitKeeps ==
  ASSUME InquiriesInv, NEW f \in Forms, PressSubmit(f)
  PROVE  InquiriesInv'
<1> DEFINE q == [form |-> f, text |-> formText[f], answer |-> "none", lost |-> FALSE,
                 pc |-> "sent", verdict |-> "none"]
<1>0. PICK n \in Nat : n = Len(sendings)  BY InquiriesTypes
<1>1. /\ inquiries' = inquiries /\ subscribers' = subscribers
      /\ conciergeTold' = conciergeTold /\ brokenOff' = brokenOff /\ outages' = outages
      /\ formText' = formText /\ formState[f] \in {"idle", "error"} /\ n < MaxSendings
      /\ formState' = [formState EXCEPT ![f] = "sending"] /\ formText[f] # NoText
      /\ sendings' = Append(sendings, q)
  BY <1>0 DEF PressSubmit, LeaveWord, rowVars, faultVars
<1>2. /\ formText \in [Forms -> Texts \cup {NoText}] /\ n \in Nat /\ MaxSendings \in Nat
      /\ formState \in [Forms -> {"idle", "sending", "done", "error"}]
      /\ sendings \in Seq(Sending) /\ DOMAIN sendings = 1 .. n
      /\ \A s \in DOMAIN sendings : sendings[s].form \in Forms /\ s \in Nat
  BY <1>0, InquiriesTypes
<1>3. q \in Sending /\ q.pc = "sent" /\ q.form = f  BY <1>1, <1>2 DEF Sending
<1> HIDE DEF q
<1>4. /\ sendings' \in Seq(Sending) /\ Len(sendings') = n + 1
      /\ DOMAIN sendings' = 1 .. (n + 1) /\ sendings'[n + 1] = q
      /\ \A s \in DOMAIN sendings : sendings'[s] = sendings[s]
  BY <1>0, <1>1, <1>2, <1>3
<1>5. DOMAIN sendings' = DOMAIN sendings \cup {n + 1} /\ n + 1 \notin DOMAIN sendings
  BY <1>2, <1>4
<1>6. ASSUME NEW s \in DOMAIN sendings
      PROVE  /\ RowOf(s)' = RowOf(s) /\ (IsSpam(s)' <=> IsSpam(s)) /\ RequestFine(s)'
             /\ (FormSettled(s)' <=> FormSettled(s)) /\ s < n + 1
  <2>1. RowOf(s)' = RowOf(s) /\ (IsSpam(s)' <=> IsSpam(s))  BY <1>4 DEF RowOf, IsSpam
  <2>2. RequestFine(s)  BY InquiriesTypes
  <2>3. RequestFine(s)'  BY <1>1, <1>4, <2>1, <2>2 DEF RequestFine, Kept, At
  <2>4. FormSettled(s)' <=> FormSettled(s)  BY <1>4 DEF FormSettled, At
  <2>5. s < n + 1  BY <1>2
  <2> QED BY <2>1, <2>3, <2>4, <2>5
<1>7. RequestFine(n + 1)'  BY <1>3, <1>4 DEF RequestFine, At
<1>8. \A s \in DOMAIN sendings' : RequestFine(s)'  BY <1>5, <1>6, <1>7
<1>9. ASSUME NEW inq \in inquiries PROVE RowFine(inq)'
  <2>1. RowFine(inq) /\ inq.of \in DOMAIN sendings  BY InquiriesTypes
  <2> QED BY <1>1, <1>4, <1>6, <2>1 DEF RowFine, At
<1>10. ASSUME NEW s \in conciergeTold PROVE RowOf(s)' \in inquiries /\ ~IsSpam(s)'
  <2>1. s \in DOMAIN sendings /\ RowOf(s) \in inquiries /\ ~IsSpam(s)
    BY InquiriesTypes DEF InquiriesInv
  <2> QED BY <1>6, <2>1
<1>11. /\ formState' \in [Forms -> {"idle", "sending", "done", "error"}]
       /\ formState'[f] = "sending" /\ \A g \in Forms : g # f => formState'[g] = formState[g]
  BY <1>1, <1>2
<1>12. FormsInOrder'
  <2>1. FormsInOrder  BY DEF InquiriesInv
  <2>2. ASSUME NEW s \in DOMAIN sendings', NEW t \in DOMAIN sendings',
               s < t, sendings'[s].form = sendings'[t].form
        PROVE  FormSettled(s)'
    <3>1. CASE s \in DOMAIN sendings /\ t \in DOMAIN sendings
      BY <1>4, <1>6, <2>1, <2>2, <3>1 DEF FormsInOrder
    <3>2. CASE s \in DOMAIN sendings /\ t = n + 1
      <4>1. sendings[s].form = f  BY <1>3, <1>4, <2>2, <3>2
      <4>2. FormSettled(s)  BY <1>1, <2>1, <3>2, <4>1 DEF FormsInOrder
      <4> QED BY <1>6, <3>2, <4>2
    <3>3. CASE s = n + 1
      <4>1. s \in Nat /\ t \in Nat /\ t <= s  BY <1>2, <1>4, <3>3
      <4> QED BY <2>2, <4>1
    <3> QED BY <1>5, <3>1, <3>2, <3>3
  <2>3. ASSUME NEW s \in DOMAIN sendings'
        PROVE  \/ formState'[sendings'[s].form] = "sending" \/ FormSettled(s)'
               \/ formState'[sendings'[s].form] = "done" /\ At(s, "over")'
                  /\ sendings'[s].answer = "ok"
    <3>1. CASE s = n + 1  BY <1>3, <1>4, <1>11, <3>1
    <3>2. CASE s \in DOMAIN sendings /\ sendings[s].form = f  BY <1>4, <1>11, <3>2
    <3>3. CASE s \in DOMAIN sendings /\ sendings[s].form # f
      BY <1>2, <1>4, <1>6, <1>11, <2>1, <3>3 DEF FormsInOrder, At
    <3> QED BY <1>5, <3>1, <3>2, <3>3
  <2>4. ASSUME NEW g \in Forms, formState'[g] = "done"
        PROVE  \E s \in DOMAIN sendings' :
                 sendings'[s].form = g /\ At(s, "over")' /\ sendings'[s].answer = "ok"
    <3>1. formState[g] = "done"  BY <1>11, <2>4
    <3>2. PICK s \in DOMAIN sendings :
            sendings[s].form = g /\ At(s, "over") /\ sendings[s].answer = "ok"
      BY <2>1, <3>1 DEF FormsInOrder
    <3> QED BY <1>4, <1>5, <3>2 DEF At
  <2> QED BY <2>2, <2>3, <2>4 DEF FormsInOrder
<1>13. InquiriesTypeOK'
  <2>1. \A inq \in inquiries' : inq \in [of : DOMAIN sendings', status : {"NEW", "SPAM"}]
    BY <1>1, <1>5, InquiriesTypes DEF InquiriesTypeOK
  <2>2. /\ formText' \in [Forms -> Texts \cup {NoText}]
        /\ conciergeTold' \subseteq DOMAIN sendings' /\ brokenOff' \subseteq DOMAIN sendings'
        /\ subscribers' \subseteq Texts /\ outages' \in 0 .. MaxOutages
    BY <1>1, <1>5, InquiriesTypes
  <2>3. Len(sendings') <= MaxSendings  BY <1>1, <1>2, <1>4
  <2> QED BY <1>2, <1>4, <1>11, <2>1, <2>2, <2>3, InquiriesTyped
<1>14. Len(sendings') <= MaxSendings  BY <1>1, <1>2, <1>4
<1> QED BY <1>1, <1>4, <1>8, <1>9, <1>10, <1>12, <1>13, <1>14 DEF InquiriesInv

-----------------------------------------------------------------------------
LEMMA InquiriesBegin == InquiriesInit => InquiriesInv
<1> SUFFICES ASSUME InquiriesInit PROVE InquiriesInv  OBVIOUS
<1>1. /\ formText = [f \in Forms |-> NoText] /\ formState = [f \in Forms |-> "idle"]
      /\ sendings = <<>> /\ inquiries = {} /\ subscribers = {} /\ conciergeTold = {}
      /\ brokenOff = {} /\ outages = 0
  BY DEF InquiriesInit
<1>2. MaxSendings \in Nat /\ MaxOutages \in Nat  BY InquiriesAssumption
<1>3. sendings \in Seq(Sending) /\ Len(sendings) = 0 /\ DOMAIN sendings = {}  BY <1>1
<1>4. \A f \in Forms : formState[f] = "idle"  BY <1>1
<1>5. InquiriesTypeOK
  <2>1. /\ formText \in [Forms -> Texts \cup {NoText}]
        /\ formState \in [Forms -> {"idle", "sending", "done", "error"}]
    BY <1>1
  <2>2. outages \in 0 .. MaxOutages  BY <1>1, <1>2
  <2> QED BY <1>1, <1>3, <2>1, <2>2 DEF InquiriesTypeOK
<1>6. FormsInOrder  BY <1>3, <1>4 DEF FormsInOrder
<1>7. Len(sendings) <= MaxSendings  BY <1>2, <1>3
<1> QED BY <1>1, <1>3, <1>5, <1>6, <1>7 DEF InquiriesInv

LEMMA InquiriesStep == InquiriesInv /\ [InquiriesNext]_inquiryVars => InquiriesInv'
<1> SUFFICES ASSUME InquiriesInv, [InquiriesNext]_inquiryVars PROVE InquiriesInv'  OBVIOUS
<1>1. CASE UNCHANGED inquiryVars
  <2>1. /\ sendings' = sendings /\ inquiries' = inquiries /\ subscribers' = subscribers
        /\ conciergeTold' = conciergeTold /\ brokenOff' = brokenOff /\ outages' = outages
        /\ formText' = formText /\ formState' = formState
    BY <1>1 DEF inquiryVars
  <2>2. FormsInOrder'  BY <2>1 DEF InquiriesInv, FormsInOrder, FormSettled, At
  <2> QED BY <2>1, <2>2, InquiriesTypes, FormsOnly
<1>2. CASE InquiriesNext
  BY <1>2, SubmitKeeps, WriteKeeps, AnswerKeeps, FormLostKeeps, EarlyKeeps, StoreKeeps, TellKeeps,
     SubscribeKeeps, OutageKeeps
     DEF InquiriesNext
<1> QED BY <1>1, <1>2

LEMMA InquiriesMeanSound == InquiriesInv => InquiriesTypeOK /\ FormsSound
<1> SUFFICES ASSUME InquiriesInv PROVE InquiriesTypeOK /\ FormsSound  OBVIOUS
<1>1. InquiriesTypeOK /\ FormsInOrder  BY DEF InquiriesInv
<1>2. ThankedIsKept
  <2>1. ASSUME NEW f \in Forms, formState[f] = "done"
        PROVE  \E r \in DOMAIN sendings :
                 /\ sendings[r].form = f
                 /\ IF f \in Dossiers
                    THEN /\ \E inq \in inquiries : inq.of = r
                         /\ r \in conciergeTold \/ sendings[r].verdict = "spam"
                    ELSE sendings[r].text \in subscribers
    <3>1. PICK r \in DOMAIN sendings :
            sendings[r].form = f /\ At(r, "over") /\ sendings[r].answer = "ok"
      BY <1>1, <2>1 DEF FormsInOrder
    <3>2. Kept(r)  BY <3>1, InquiriesTypes DEF RequestFine
    <3>3. CASE f \in Dossiers
      <4>1. RowOf(r) \in inquiries /\ (r \in conciergeTold \/ sendings[r].verdict = "spam")
        BY <3>1, <3>2, <3>3 DEF Kept, IsSpam
      <4>2. RowOf(r).of = r  BY RowOfFacts
      <4> QED BY <3>1, <3>3, <4>1, <4>2
    <3>4. CASE f \notin Dossiers  BY <3>1, <3>2, <3>4 DEF Kept
    <3> QED BY <3>3, <3>4
  <2> QED BY <2>1 DEF ThankedIsKept
<1>3. NewIsTold
  <2>1. \A inq \in inquiries : RowFine(inq)  BY DEF InquiriesInv
  <2>2. ASSUME NEW r \in conciergeTold PROVE [of |-> r, status |-> "NEW"] \in inquiries
    <3>1. RowOf(r) \in inquiries /\ ~IsSpam(r)  BY DEF InquiriesInv
    <3> QED BY <3>1 DEF RowOf
  <2> QED BY <2>1, <2>2 DEF RowFine, NewIsTold
<1>4. StoredOnce
  <2>1. ASSUME NEW r \in {inq.of : inq \in inquiries}, NEW s \in {inq.of : inq \in inquiries},
               r < s, sendings[r].form = sendings[s].form
        PROVE  sendings[r].lost \/ sendings[r].answer = "failed"
    <3>1. r \in DOMAIN sendings /\ s \in DOMAIN sendings  BY InquiriesTypes
    <3> QED BY <1>1, <2>1, <3>1 DEF FormsInOrder, FormSettled
  <2> QED BY <2>1 DEF StoredOnce
<1> QED BY <1>1, <1>2, <1>3, <1>4 DEF FormsSound

\* The type of the forms, of what was sent, and of the rows it became.
THEOREM InquiriesKeepTypes == InquiriesSpec => []InquiriesTypeOK
<1> QED BY InquiriesBegin, InquiriesStep, InquiriesMeanSound, PTL DEF InquiriesSpec

\* Whoever is thanked has left word, and the concierge knows unless Jev was sure of spam; a new
\* inquiry is told or its handler was broken off; nobody's word is stored twice but that of one
\* who saw an error: SalonForm.tsx, NewsletterForm.tsx, inquiries.controller.ts and
\* newsletter.controller.ts, for any number of forms and requests, failures and stops.
THEOREM FormsAreSound == InquiriesSpec => []FormsSound
<1> QED BY InquiriesBegin, InquiriesStep, InquiriesMeanSound, PTL DEF InquiriesSpec

-----------------------------------------------------------------------------
(***************************************************************************)
(* The pages together, with the backend behind them (MCShop).               *)
(***************************************************************************)

LEMMA ShopBegins ==
  ShopInit => /\ Init /\ CartInit /\ WishInit /\ AccountsInit /\ ChatInit /\ InvoiceInit
              /\ CatalogInit /\ OrderPagesInit /\ InquiriesInit /\ part \in Parts
BY DEF ShopInit

\* A step of one part is none of another.
LEMMA OtherPagesRest ==
  ASSUME NEW p, Of(p)
  PROVE  /\ part = p /\ part' = part
         /\ p # "checkout" => UNCHANGED vars
         /\ p # "cart" => UNCHANGED cartVars
         /\ p # "wishlist" => UNCHANGED wishVars
         /\ p # "accounts" => UNCHANGED accountVars
         /\ p # "chat" => UNCHANGED chatVars
         /\ p # "invoices" => UNCHANGED invoiceVars
         /\ p # "catalog" => UNCHANGED catalogVars
         /\ p # "forms" => UNCHANGED inquiryVars
         /\ p \notin {"orderpage", "desk"} => UNCHANGED orderPageVars
BY DEF Of, Rests

LEMMA ShopRests ==
  ASSUME UNCHANGED shopVars
  PROVE  /\ UNCHANGED vars /\ UNCHANGED cartVars /\ UNCHANGED wishVars /\ UNCHANGED accountVars
         /\ UNCHANGED chatVars /\ UNCHANGED invoiceVars /\ UNCHANGED catalogVars
         /\ UNCHANGED orderPageVars /\ UNCHANGED inquiryVars /\ UNCHANGED part
BY DEF shopVars

\* A step of the shop is a step of each of its parts, or that part rests.
LEMMA ShopStep ==
  [ShopNext]_shopVars =>
    /\ [Next]_vars /\ [CartNext]_cartVars /\ [WishNext]_wishVars /\ [AccountsNext]_accountVars
    /\ [ChatNext]_chatVars /\ [InvoiceNext]_invoiceVars /\ [CatalogNext]_catalogVars
    /\ [OrderPagesNext]_orderPageVars /\ [InquiriesNext]_inquiryVars
    /\ part' = part
<1> SUFFICES ASSUME [ShopNext]_shopVars
             PROVE  /\ [Next]_vars /\ [CartNext]_cartVars /\ [WishNext]_wishVars
                    /\ [AccountsNext]_accountVars /\ [ChatNext]_chatVars
                    /\ [InvoiceNext]_invoiceVars /\ [CatalogNext]_catalogVars
                    /\ [OrderPagesNext]_orderPageVars /\ [InquiriesNext]_inquiryVars
                    /\ part' = part
  OBVIOUS
<1>1. CASE UNCHANGED shopVars  BY <1>1, ShopRests
<1>2. CASE ShopNext
  BY <1>2, OtherPagesRest DEF ShopNext, OrderPagesNext
<1> QED BY <1>1, <1>2

\* A run of the shop is a run of each of its parts: of the checkout, the cart, the wishlist, the
\* accounts, the chat, the invoices, the catalogue, the pages of an order and the forms, which
\* share no state in the code either.
THEOREM ShopRunsItsParts ==
  ShopSpec => /\ Spec /\ CartSpec /\ WishSpec /\ AccountsSpec /\ ChatSpec /\ InvoiceSpec
              /\ CatalogSpec /\ OrderPagesSpec /\ InquiriesSpec
BY ShopBegins, ShopStep, PTL
   DEF ShopSpec, Spec, CartSpec, WishSpec, AccountsSpec, ChatSpec, InvoiceSpec, CatalogSpec,
       OrderPagesSpec, InquiriesSpec

\* Pages agree with the backend behind them: the chat page's message, answer and buttons
\* (useAgentChat.tsx), who is signed in (AuthProvider.tsx, auth.service.ts), where an order stands
\* (the pages of an order and /admin/orders), and what visitors have left in a form.
THEOREM ShopPagesKeep == ShopSpec => []PagesSound
<1>1. ChatSound /\ AccountsSound /\ OrderPagesSound /\ FormsSound => PagesSound  BY DEF PagesSound
<1> QED
  BY <1>1, ShopRunsItsParts, ChatIsSound, SessionsAreCurrent, OrderPagesAreSound, FormsAreSound, PTL

\* What staff do in the backoffice adds up: legal invoices (invoice.service.ts), listings, their
\* history and the search index (admin-listings.service.ts, meili.service.ts).
THEOREM ShopStaffKeep == ShopSpec => []StaffSound
<1>1. InvoiceSound /\ CatalogSound => StaffSound  BY DEF StaffSound
<1> QED BY <1>1, ShopRunsItsParts, InvoicesAreSound, CatalogIsSound, PTL

\* The variables of the part that moves keep their types.
THEOREM ShopTypes == ShopSpec => []ShopTypeOK
<1>1. /\ part \in Parts
      /\ TypeOK /\ CartTypeOK /\ WishTypeOK /\ AccountsTypeOK /\ ChatTypeOK /\ InvoiceTypeOK
      /\ CatalogTypeOK /\ OrderPagesTypeOK /\ InquiriesTypeOK
      => ShopTypeOK
  BY DEF ShopTypeOK, Parts
<1>2. ShopSpec => [](part \in Parts)
  <2>1. ShopInit => part \in Parts  BY ShopBegins
  <2>2. part \in Parts /\ [ShopNext]_shopVars => (part \in Parts)'  BY ShopStep
  <2> QED BY <2>1, <2>2, PTL DEF ShopSpec
<1> QED
  BY <1>1, <1>2, ShopRunsItsParts, CheckoutTypes, CartTypes, WishTypes, AccountsTypes,
     ChatKeepsTypes, InvoicesKeepTypes, CatalogKeepsTypes, OrderPagesKeepTypes,
     InquiriesKeepTypes, PTL

=============================================================================
