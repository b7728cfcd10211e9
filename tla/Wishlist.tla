------------------------------ MODULE Wishlist ------------------------------
(***************************************************************************)
(* The wishlist of one customer (WishlistProvider.tsx, wishlist.service.ts):   *)
(* the guest list in localStorage, the account's list, and a page that shows   *)
(* one or the other.  A sign-in merges the guest list into the account's; a    *)
(* heart pressed afterwards is sent and forgotten, whatever becomes of it.    *)
(***************************************************************************)
CONSTANTS
  Slugs             \* the products that can be wished for

VARIABLES
  shownList,        \* slugs: what the page shows
  wishUser,         \* useAuth().user
  localList,        \* localStorage "aurel-wishlist"
  serverList,       \* the account's WishlistItem rows
  signInMerge,      \* the merge of a sign-in that is under way
  toggles,          \* the hearts pressed that the backend has not dealt with
  wished,           \* history: the slugs the customer wishes for
  astray            \* history: one of the known ways to lose a wish has happened

wishVars ==
  <<shownList, wishUser, localList, serverList, signInMerge, toggles, wished, astray>>

NoMerge == [state |-> "none"]
SignInMerge == [state : {"sent", "answered"}, slugs : SUBSET Slugs]
Toggle == [slug : Slugs, add : BOOLEAN]

WishTypeOK ==
  /\ shownList \subseteq Slugs
  /\ wishUser \in BOOLEAN
  /\ localList \subseteq Slugs
  /\ serverList \subseteq Slugs
  /\ signInMerge \in SignInMerge \cup {NoMerge}
  /\ toggles \subseteq Toggle
  /\ wished \subseteq Slugs
  /\ astray \in BOOLEAN

WishInit ==
  /\ shownList = {} /\ localList = {} /\ serverList = {}
  /\ wishUser = FALSE
  /\ signInMerge = NoMerge
  /\ toggles = {}
  /\ wished = {}
  /\ astray = FALSE

-----------------------------------------------------------------------------
Without(list, s) == list \ {s}
Toggled(list, s) == IF s \in list THEN list \ {s} ELSE list \cup {s}
AddsUnderWay == {t.slug : t \in {u \in toggles : u.add}}

\* Page and localStorage alike; the answer to a merge under way will write over the list.
GuestToggle(s) ==
  /\ ~wishUser
  /\ shownList' = Toggled(shownList, s)
  /\ localList' = shownList'
  /\ wished' = IF s \in shownList' THEN wished \cup {s} ELSE wished \ {s}
  /\ astray' = (astray \/ signInMerge # NoMerge)
  /\ UNCHANGED <<wishUser, serverList, signInMerge, toggles>>

\* Two presses of one heart may overtake each other on their way.
UserToggle(s) ==
  /\ wishUser
  /\ shownList' = Toggled(shownList, s)
  /\ wished' = IF s \in shownList' THEN wished \cup {s} ELSE wished \ {s}
  /\ toggles' = toggles \cup {[slug |-> s, add |-> s \in shownList']}
  /\ astray' = (astray \/ [slug |-> s, add |-> s \notin shownList'] \in toggles)
  /\ UNCHANGED <<wishUser, localList, serverList, signInMerge>>

\* Bound: one merge of a sign-in at a time.
WishSignIn ==
  /\ ~wishUser /\ signInMerge = NoMerge
  /\ wishUser' = TRUE
  /\ signInMerge' = [state |-> "sent", slugs |-> localList]
  /\ UNCHANGED <<shownList, localList, serverList, toggles, wished, astray>>

\* tokenVersion moves on: what the backend has not dealt with is refused.
WishSignOut ==
  /\ wishUser
  /\ wishUser' = FALSE
  /\ shownList' = localList
  /\ signInMerge' = IF signInMerge.state = "sent" THEN NoMerge ELSE signInMerge
  /\ toggles' = {}
  /\ astray' = (astray \/ toggles # {})
  /\ UNCHANGED <<localList, serverList, wished>>

\* createMany with skipDuplicates, then the list.
CommitMerge ==
  /\ signInMerge.state = "sent"
  /\ serverList' = serverList \cup signInMerge.slugs
  /\ signInMerge' = [state |-> "answered", slugs |-> serverList']
  /\ UNCHANGED <<shownList, wishUser, localList, toggles, wished, astray>>

CommitToggle(t) ==
  /\ toggles' = toggles \ {t}
  /\ serverList' = IF t.add THEN serverList \cup {t.slug} ELSE Without(serverList, t.slug)
  /\ UNCHANGED <<shownList, wishUser, localList, signInMerge, wished, astray>>

\* The throttle, a query or the network fails, and nobody is told.
LoseToggle(t) ==
  /\ toggles' = toggles \ {t}
  /\ astray' = TRUE
  /\ UNCHANGED <<shownList, wishUser, localList, serverList, signInMerge, wished>>

\* The answer is a list of slugs: it is shown and the guest list emptied.  A page that has
\* signed out meanwhile stores what it shows.
TakeMerge ==
  /\ signInMerge.state = "answered"
  /\ shownList' = signInMerge.slugs
  /\ localList' = IF wishUser THEN {} ELSE shownList'
  /\ signInMerge' = NoMerge
  /\ UNCHANGED <<wishUser, serverList, toggles, wished, astray>>

\* defect: the guest list is emptied whether or not the merge went well
MergeFailsEmptying ==
  /\ signInMerge # NoMerge
  /\ signInMerge' = NoMerge
  /\ localList' = {}
  /\ UNCHANGED <<shownList, wishUser, serverList, toggles, wished, astray>>

\* Refused, failed, or the answer is lost: the guest list is kept for the next sign-in.
MergeFails ==
  /\ signInMerge # NoMerge
  /\ signInMerge' = NoMerge
  /\ UNCHANGED <<shownList, wishUser, localList, serverList, toggles, wished, astray>>

\* The page is loaded anew (bound: when the backend has dealt with what was sent).
WishReload ==
  /\ signInMerge = NoMerge /\ toggles = {}
  /\ wishUser' = FALSE
  /\ shownList' = localList
  /\ UNCHANGED <<localList, serverList, signInMerge, toggles, wished, astray>>

WishNext ==
  \/ \E s \in Slugs : GuestToggle(s) \/ UserToggle(s)
  \/ \E t \in toggles : CommitToggle(t) \/ LoseToggle(t)
  \/ WishSignIn \/ WishSignOut \/ CommitMerge \/ TakeMerge \/ MergeFails \/ WishReload

WishSpec == WishInit /\ [][WishNext]_wishVars

-----------------------------------------------------------------------------
(* No wish is lost: it is in the browser, at the account or on its way there,   *)
(* however often the merge fails, its answer is lost or the customer signs in   *)
(* and out, unless a heart's request is lost or overtaken, or the guest list     *)
(* was changed while a merge was under way.                                 *)
WishesKept == ~astray => wished \subseteq localList \cup serverList \cup AddsUnderWay
=============================================================================
