-------------------------------- MODULE Cart --------------------------------
(***************************************************************************)
(* The shopping cart of one customer: the guest cart in the browser's        *)
(* localStorage, the cart the account has at the backend, and the tabs that   *)
(* show one or the other (CartProvider.tsx, AuthProvider.tsx).  At a sign-in   *)
(* the guest cart is merged into the account's.                            *)
(*                                                                         *)
(* A tab has up to two calls under way: the one its sign-in makes and one of  *)
(* a button.  A call is sent, committed by the backend, and its answer taken   *)
(* by the page; it may fail, which changes nothing, and its answer be lost.  *)
(***************************************************************************)
EXTENDS Integers

CONSTANTS
  Tabs,
  Lines,            \* cart lines: a product and its strap
  MaxQty,           \* bound: units of a line (the code's own limit is 99)
  NotAList          \* what a page holds that took an object for its list of lines

ASSUME QuantityAssumption ==
  /\ MaxQty \in Nat \ {0}
  /\ NotAList \notin [Lines -> 0 .. MaxQty]

VARIABLES
  shownCart,        \* items: what each tab shows
  tabUser,          \* useAuth().user: the tab believes it is signed in
  cartCall,         \* the calls of a tab: of its sign-in, and of a button
  guestCart,        \* localStorage "aurel-cart"
  serverCart,       \* the account's CartItem rows
  wanted,           \* history: the units of a line the customer has asked for
  overlapped        \* history: one of the known ways to miscount has happened

pagesVars == <<shownCart, tabUser>>
countVars == <<wanted, overlapped>>
cartVars == <<pagesVars, cartCall, guestCart, serverCart, countVars>>

CartLines == [Lines -> 0 .. MaxQty]
EmptyCart == [l \in Lines |-> 0]
CallSlots == {"signIn", "button"}
NoCall == [state |-> "none"]
\* Sent with the guest cart of a merge or the one line of a button; answered with what the page
\* takes for a list of lines, where only a merge has more to follow.
CartCall ==
  [state : {"sent"}, cart : CartLines,
   kind : {"merge", "list", "add", "update", "remove", "clear"}]
  \cup [state : {"answered"}, cart : CartLines \cup {NotAList}, kind : {"merge", "list"}]
  \cup {NoCall}

CartTypeOK ==
  /\ shownCart \in [Tabs -> CartLines \cup {NotAList}]
  /\ tabUser \in [Tabs -> BOOLEAN]
  /\ cartCall \in [Tabs -> [CallSlots -> CartCall]]
  /\ guestCart \in CartLines
  /\ serverCart \in CartLines
  /\ wanted \in [Lines -> Int]
  /\ overlapped \in BOOLEAN

CartInit ==
  /\ shownCart = [t \in Tabs |-> EmptyCart]
  /\ tabUser = [t \in Tabs |-> FALSE]
  /\ cartCall = [t \in Tabs |-> [s \in CallSlots |-> NoCall]]
  /\ guestCart = EmptyCart
  /\ serverCart = EmptyCart
  /\ wanted = EmptyCart
  /\ overlapped = FALSE

-----------------------------------------------------------------------------
Up(t) == shownCart[t] # NotAList
IsMerge(call) == call.state \in {"sent", "answered"} /\ call.kind = "merge"
MergeUnderWay == \E t \in Tabs : IsMerge(cartCall[t]["signIn"])

\* A merge the backend has committed, while its lines are still in localStorage.
MergeCommitted ==
  \E t \in Tabs : IsMerge(cartCall[t]["signIn"]) /\ cartCall[t]["signIn"].state = "answered"

\* Bookkeeping: the customer asks for a change, unless there is nothing to count by any more.
Asks(change, miscounts) ==
  /\ overlapped' = (overlapped \/ miscounts)
  /\ wanted' = IF overlapped' THEN EmptyCart ELSE [l \in Lines |-> wanted[l] + change[l]]

Miscounts(yes) ==
  /\ overlapped' = (overlapped \/ yes)
  /\ wanted' = IF overlapped' THEN EmptyCart ELSE wanted

\* A guest's change: the page shows it, and the effect writes what is shown to localStorage.
\* Lines of another tab are written over, and a merge under way has not seen the change.
GuestChange(t, cart) ==
  /\ Up(t) /\ ~tabUser[t]
  /\ shownCart' = [shownCart EXCEPT ![t] = cart]
  /\ guestCart' = cart
  /\ Asks([l \in Lines |-> cart[l] - shownCart[t][l]],
          shownCart[t] # guestCart \/ MergeUnderWay)
  /\ UNCHANGED <<tabUser, cartCall, serverCart>>

GuestSets(t, l, qty) == GuestChange(t, [shownCart[t] EXCEPT ![l] = qty])
GuestAdd(t, l) == Up(t) /\ shownCart[t][l] < MaxQty /\ GuestSets(t, l, shownCart[t][l] + 1)
GuestUpdate(t, l, qty) == Up(t) /\ shownCart[t][l] > 0 /\ GuestSets(t, l, qty)
GuestRemove(t, l) == Up(t) /\ GuestSets(t, l, 0)
GuestClear(t) == GuestChange(t, EmptyCart)

\* A button of a tab that is signed in: the backend is asked, the page shows its answer
\* (bound: one button at a time).
UserChange(t, kind, l, qty) ==
  /\ Up(t) /\ tabUser[t]
  /\ \A u \in Tabs : cartCall[u]["button"] = NoCall
  /\ cartCall' = [cartCall EXCEPT ![t]["button"] =
       [state |-> "sent", kind |-> kind, cart |-> [EmptyCart EXCEPT ![l] = qty]]]
  /\ UNCHANGED <<pagesVars, guestCart, serverCart, countVars>>

\* defect: the guest cart is emptied as soon as it is sent
SignInEmptying(t) ==
  /\ Up(t) /\ ~tabUser[t]
  /\ cartCall[t]["signIn"] = NoCall
  /\ tabUser' = [tabUser EXCEPT ![t] = TRUE]
  /\ cartCall' = [cartCall EXCEPT ![t]["signIn"] =
       [state |-> "sent", kind |-> IF guestCart = EmptyCart THEN "list" ELSE "merge",
        cart |-> guestCart]]
  /\ guestCart' = EmptyCart
  /\ Miscounts(MergeUnderWay /\ guestCart # EmptyCart)
  /\ UNCHANGED <<shownCart, serverCart>>

\* A login, or the session a reloaded page finds: the guest cart is merged, if there is one.
SignInTab(t) ==
  /\ Up(t) /\ ~tabUser[t]
  /\ cartCall[t]["signIn"] = NoCall
  /\ tabUser' = [tabUser EXCEPT ![t] = TRUE]
  /\ cartCall' = [cartCall EXCEPT ![t]["signIn"] =
       [state |-> "sent", kind |-> IF guestCart = EmptyCart THEN "list" ELSE "merge",
        cart |-> guestCart]]
  /\ Miscounts(MergeUnderWay /\ guestCart # EmptyCart)
  /\ UNCHANGED <<shownCart, guestCart, serverCart>>

\* Sign-out, here or at another device: tokenVersion moves on and the calls the backend has
\* not dealt with are refused.  The tab shows the guest cart again.
SignOutTab(t) ==
  /\ Up(t) /\ tabUser[t]
  /\ tabUser' = [tabUser EXCEPT ![t] = FALSE]
  /\ shownCart' = [shownCart EXCEPT ![t] = guestCart]
  /\ cartCall' = [u \in Tabs |-> [s \in CallSlots |->
       IF cartCall[u][s].state = "sent" THEN NoCall ELSE cartCall[u][s]]]
  /\ UNCHANGED <<guestCart, serverCart, countVars>>

\* The page is loaded anew, which is the only way out of a crash.  Answers it was waiting for
\* are lost (bound: the backend has dealt with the calls).
Reload(t) ==
  /\ \A s \in CallSlots : cartCall[t][s].state # "sent"
  /\ Miscounts(cartCall[t]["signIn"].state = "answered" /\ IsMerge(cartCall[t]["signIn"]))
  /\ cartCall' = [cartCall EXCEPT ![t] = [s \in CallSlots |-> NoCall]]
  /\ tabUser' = [tabUser EXCEPT ![t] = FALSE]
  /\ shownCart' = [shownCart EXCEPT ![t] = guestCart]
  /\ UNCHANGED <<guestCart, serverCart>>

-----------------------------------------------------------------------------
\* The cart after a call, or nothing when a line would pass the bound.
Applied(call) ==
  LET changed == CASE call.kind \in {"merge", "add"} ->
                        [l \in Lines |-> serverCart[l] + call.cart[l]]
                   [] call.kind = "list" -> serverCart
                   [] call.kind = "update" ->
                        [l \in Lines |-> IF serverCart[l] > 0 /\ call.cart[l] > 0
                                         THEN call.cart[l] ELSE serverCart[l]]
                   [] call.kind = "remove" ->
                        [l \in Lines |-> IF call.cart[l] > 0 THEN 0 ELSE serverCart[l]]
                   [] call.kind = "clear" -> EmptyCart
  IN {changed} \cap CartLines

\* What the page gets to see: merge and clear answer {ok, items}, where it expects the list.
Listed(kind, items) == IF kind \in {"merge", "clear"} THEN NotAList ELSE items

\* The backend commits the change and lists the cart.  A merge is in one transaction.
Commit(t, s) ==
  LET call == cartCall[t][s]
  IN /\ call.state = "sent"
     /\ serverCart' \in Applied(call)
     /\ cartCall' = [cartCall EXCEPT ![t][s] =
          [state |-> "answered", cart |-> Listed(call.kind, serverCart'),
           kind |-> IF call.kind = "merge" THEN "merge" ELSE "list"]]
     /\ wanted' = IF call.kind = "merge" \/ overlapped THEN wanted
                  ELSE [l \in Lines |-> wanted[l] + serverCart'[l] - serverCart[l]]
     /\ UNCHANGED <<pagesVars, guestCart, overlapped>>

\* A product no longer sold, the throttle, a query or the network that fails: the page only
\* shows lastError.
RefuseCall(t, s) ==
  /\ cartCall[t][s].state = "sent"
  /\ cartCall' = [cartCall EXCEPT ![t][s] = NoCall]
  /\ UNCHANGED <<pagesVars, guestCart, serverCart, countVars>>

LoseAnswer(t, s) ==
  /\ cartCall[t][s].state = "answered"
  /\ Miscounts(cartCall[t][s].kind = "merge")
  /\ cartCall' = [cartCall EXCEPT ![t][s] = NoCall]
  /\ UNCHANGED <<pagesVars, guestCart, serverCart>>

\* setItems(answer), which crashes the page when it is no list; then saveGuest([]) after a merge.
\* A tab that has signed out meanwhile takes the answer for its guest cart and stores it.
TakeAnswer(t, s) ==
  LET call == cartCall[t][s]
      taken == IF Up(t) THEN call.cart ELSE NotAList
      late == ~tabUser[t] /\ taken # NotAList
  IN /\ call.state = "answered"
     /\ shownCart' = [shownCart EXCEPT ![t] = taken]
     /\ guestCart' = IF call.kind = "merge" THEN EmptyCart
                     ELSE IF late THEN taken ELSE guestCart
     /\ Miscounts(late)
     /\ cartCall' = [cartCall EXCEPT ![t][s] = NoCall]
     /\ UNCHANGED <<tabUser, serverCart>>

CartStep(t) ==
  \/ SignInTab(t) \/ SignOutTab(t) \/ Reload(t) \/ GuestClear(t)
  \/ \E l \in Lines :
       \/ GuestAdd(t, l) \/ GuestRemove(t, l)
       \/ \E kind \in {"add", "remove", "clear"} : UserChange(t, kind, l, 1)
       \/ \E qty \in 1 .. MaxQty : GuestUpdate(t, l, qty) \/ UserChange(t, "update", l, qty)
  \/ \E s \in CallSlots :
       Commit(t, s) \/ RefuseCall(t, s) \/ LoseAnswer(t, s) \/ TakeAnswer(t, s)

\* Bound: a behaviour is followed up to the first miscount.
CartNext == ~overlapped /\ \E t \in Tabs : CartStep(t)

CartSpec == CartInit /\ [][CartNext]_cartVars

-----------------------------------------------------------------------------
(* Every unit the customer asked for is counted once, in localStorage or at    *)
(* the account, through merges that fail, retries of the sign-in and tabs that *)
(* crash.  What may miscount is: a committed merge whose answer is lost, two    *)
(* merges at once, a guest change while one is under way or in a tab that shows *)
(* something older than localStorage, and an answer a signed-out tab takes.   *)
CartConserved ==
  ~overlapped =>
    \A l \in Lines :
      wanted[l] = serverCart[l] + IF MergeCommitted THEN 0 ELSE guestCart[l]

(* Signing in shows the cart of the account: "Đăng nhập: gộp giỏ khách lên      *)
(* server rồi dùng giỏ DB" (CartProvider.tsx).  The page that takes the answer   *)
(* to the merge shows a list of lines.                                      *)
SignInShowsCart ==
  \A t \in Tabs : tabUser[t] /\ cartCall[t]["signIn"] = NoCall => Up(t)
=============================================================================
