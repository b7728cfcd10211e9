------------------------------ MODULE Accounts ------------------------------
(***************************************************************************)
(* Signing in and out: the account and its tokenVersion at the backend            *)
(* (auth.service.ts, guards.ts), the session cookie that the pages of a browser      *)
(* share, and what each page takes itself to be (AuthProvider.tsx).                *)
(*                                                                         *)
(* One account, which may not exist yet, and one browser; what other devices do      *)
(* to the account is one action.  A call carries the cookie it was sent with, and    *)
(* the cookie of its answer is set when the answer arrives.  Passwords that are too   *)
(* short and mails that are none are refused calls; a session that has aged out is     *)
(* not modelled.  Tickets of a delegation are in Delegation.                   *)
(***************************************************************************)
EXTENDS Integers, FiniteSets

CONSTANTS
  Pages,            \* pages of one browser
  Passwords,
  NoCookie,        \* no cookie
  NoAccount,
  MaxVersion,       \* bound: how often sessions are revoked
  MaxAuthCalls      \* bound: calls under way at a time

VARIABLES
  userRow,          \* the row: its password and tokenVersion
  sessionCookie,    \* aurel_session
  authCall,         \* the call of each page and kind
  signedIn,         \* whether the page has a user
  doubtful          \* history: something has come between the page and its session

accountVars == <<userRow, sessionCookie, authCall, signedIn, doubtful>>

\* The page's mount asks who it is; its form signs in or registers.
AuthKinds == {"me", "login", "register", "logout", "profile", "password"}

\* A session's token carries the tokenVersion; the password it was opened with is history.
Session == [version : 0 .. MaxVersion, opened : Passwords]
MaybeSession == Session \cup {NoCookie}
NoAuthCall == [state |-> "none"]
AuthCall == [state : {"sent", "passed", "ok", "refused"}, cookie : MaybeSession,
             typed : Passwords, next : Passwords]
FirstPassword == CHOOSE p \in Passwords : TRUE
UserRow == [password : Passwords, version : 0 .. MaxVersion]

ASSUME AccountsAssumption ==
  /\ MaxVersion \in Nat
  /\ MaxAuthCalls \in Nat \ {0}
  /\ Passwords # {}
  /\ NoCookie \notin Session /\ NoAccount \notin UserRow

AccountsTypeOK ==
  /\ userRow \in UserRow \cup {NoAccount}
  /\ sessionCookie \in MaybeSession
  /\ authCall \in [Pages \X AuthKinds -> AuthCall \cup {NoAuthCall}]
  /\ signedIn \in [Pages -> BOOLEAN]
  /\ doubtful \in [Pages -> BOOLEAN]

AccountsInit ==
  /\ userRow \in [password : {FirstPassword}, version : {0}] \cup {NoAccount}
  /\ sessionCookie = NoCookie
  /\ authCall = [c \in Pages \X AuthKinds |-> NoAuthCall]
  /\ signedIn = [p \in Pages |-> FALSE]
  /\ doubtful = [p \in Pages |-> FALSE]

-----------------------------------------------------------------------------
AuthUnderWay == {c \in Pages \X AuthKinds : authCall[c] # NoAuthCall}
UnderWayOf(p) == {c \in AuthUnderWay : c[1] = p}

\* verifiedUser: the token's version is the account's.
Verified(session) ==
  /\ userRow # NoAccount /\ session # NoCookie
  /\ session.version = userRow.version

\* What a call does to a page's history: others may have changed the session it shows, or the
\* page itself has two answers to come.
Doubts(p) ==
  [q \in Pages |-> doubtful[q] \/ q # p \/ UnderWayOf(p) # {}]

SendAuth(p, kind, typed, next) ==
  /\ authCall[<<p, kind>>] = NoAuthCall
  /\ Cardinality(AuthUnderWay) < MaxAuthCalls
  /\ authCall' = [authCall EXCEPT ![<<p, kind>>] =
       [state |-> "sent", cookie |-> sessionCookie, typed |-> typed, next |-> next]]

\* A page is opened anew and asks for its user.
Mount(p) ==
  /\ UnderWayOf(p) = {}
  /\ SendAuth(p, "me", FirstPassword, FirstPassword)
  /\ signedIn' = [signedIn EXCEPT ![p] = FALSE]
  /\ doubtful' = [doubtful EXCEPT ![p] = AuthUnderWay # {}]
  /\ UNCHANGED <<userRow, sessionCookie>>

\* The form of the login page, which is busy until it is answered.
SubmitForm(p, kind) ==
  /\ kind \in {"login", "register"}
  /\ ~signedIn[p] /\ authCall[<<p, "login">>] = NoAuthCall /\ authCall[<<p, "register">>] = NoAuthCall
  /\ \E typed \in Passwords : SendAuth(p, kind, typed, typed)
  /\ doubtful' = Doubts(p)
  /\ UNCHANGED <<userRow, sessionCookie, signedIn>>

PressLogout(p) ==
  /\ signedIn[p]
  /\ SendAuth(p, "logout", FirstPassword, FirstPassword)
  /\ doubtful' = Doubts(p)
  /\ UNCHANGED <<userRow, sessionCookie, signedIn>>

SubmitProfile(p, kind) ==
  /\ kind \in {"profile", "password"}
  /\ signedIn[p] /\ authCall[<<p, "profile">>] = NoAuthCall /\ authCall[<<p, "password">>] = NoAuthCall
  /\ \E typed, next \in IF kind = "password" THEN Passwords ELSE {FirstPassword} :
       SendAuth(p, kind, typed, next)
  /\ doubtful' = Doubts(p)
  /\ UNCHANGED <<userRow, sessionCookie, signedIn>>

-----------------------------------------------------------------------------
(* The backend.                                                            *)

AuthGoes(c, state) == authCall' = [authCall EXCEPT ![c].state = state]

\* login reads hash and version in one row: the token it will answer.
Login(c) ==
  /\ c[2] = "login" /\ authCall[c].state = "sent"
  /\ IF userRow # NoAccount /\ userRow.password = authCall[c].typed
     THEN authCall' = [authCall EXCEPT ![c].state = "ok", ![c].cookie =
            [version |-> userRow.version, opened |-> authCall[c].typed]]
     ELSE AuthGoes(c, "refused")
  /\ UNCHANGED <<userRow, sessionCookie, signedIn, doubtful>>

\* register: the mail is looked up, and the row created after the password is hashed; a row
\* made meanwhile has taken the mail.
Register(c) ==
  /\ c[2] = "register"
  /\ \/ /\ authCall[c].state = "sent"
        /\ AuthGoes(c, IF userRow = NoAccount THEN "passed" ELSE "refused")
        /\ UNCHANGED userRow
     \/ /\ authCall[c].state = "passed" /\ userRow = NoAccount
        /\ userRow' = [password |-> authCall[c].typed, version |-> 0]
        /\ authCall' = [authCall EXCEPT ![c].state = "ok", ![c].cookie =
             [version |-> 0, opened |-> authCall[c].typed]]
     \/ /\ authCall[c].state = "passed" /\ userRow # NoAccount
        /\ AuthGoes(c, "refused") /\ UNCHANGED userRow
  /\ UNCHANGED <<sessionCookie, signedIn, doubtful>>

\* me and updateProfile: the guard, and one read or write of the row's name.
AskWho(c) ==
  /\ c[2] \in {"me", "profile"} /\ authCall[c].state = "sent"
  /\ AuthGoes(c, IF Verified(authCall[c].cookie) THEN "ok" ELSE "refused")
  /\ UNCHANGED <<userRow, sessionCookie, signedIn, doubtful>>

\* logout: without a session there is nothing to revoke; the count is raised after the guard.
Logout(c) ==
  /\ c[2] = "logout"
  /\ \/ /\ authCall[c].state = "sent"
        /\ AuthGoes(c, IF Verified(authCall[c].cookie) THEN "passed" ELSE "ok")
        /\ UNCHANGED userRow
     \/ /\ authCall[c].state = "passed" /\ userRow.version < MaxVersion
        /\ userRow' = [userRow EXCEPT !.version = @ + 1]
        /\ AuthGoes(c, "ok")
  /\ UNCHANGED <<sessionCookie, signedIn, doubtful>>

\* defect: the sessions opened with the old password are not revoked
ChangePasswordOnly(c) ==
  /\ c[2] = "password" /\ authCall[c].state = "sent"
  /\ IF Verified(authCall[c].cookie) /\ userRow.password = authCall[c].typed
     THEN userRow' = [userRow EXCEPT !.password = authCall[c].next] /\ AuthGoes(c, "ok")
     ELSE UNCHANGED userRow /\ AuthGoes(c, "refused")
  /\ UNCHANGED <<sessionCookie, signedIn, doubtful>>

\* changePassword: the guard and the comparison with the stored hash, then the new hash and the
\* version in one write.
ChangePassword(c) ==
  /\ c[2] = "password"
  /\ \/ /\ authCall[c].state = "sent"
        /\ AuthGoes(c, IF /\ Verified(authCall[c].cookie)
                      /\ userRow.password = authCall[c].typed
                   THEN "passed" ELSE "refused")
        /\ UNCHANGED userRow
     \/ /\ authCall[c].state = "passed" /\ userRow.version < MaxVersion
        /\ userRow' = [password |-> authCall[c].next, version |-> userRow.version + 1]
        /\ AuthGoes(c, "ok")
  /\ UNCHANGED <<sessionCookie, signedIn, doubtful>>

\* The throttle or the csrf check turns a call away.
TurnedAway(c) ==
  /\ authCall[c] # NoAuthCall /\ authCall[c].state = "sent"
  /\ c[2] # "me"
  /\ AuthGoes(c, "refused")
  /\ UNCHANGED <<userRow, sessionCookie, signedIn, doubtful>>

\* Another device signs out or sets a new password.
ActsElsewhere ==
  /\ userRow # NoAccount /\ userRow.version < MaxVersion
  /\ \E password \in Passwords : userRow' = [password |-> password, version |-> userRow.version + 1]
  /\ doubtful' = [p \in Pages |-> TRUE]
  /\ UNCHANGED <<sessionCookie, authCall, signedIn>>

-----------------------------------------------------------------------------
(* Answers at the page.                                                    *)

Ends(c) == authCall' = [authCall EXCEPT ![c] = NoAuthCall]

AuthAnswered(c) == authCall[c] # NoAuthCall /\ authCall[c].state \in {"ok", "refused"}

\* The session's cookie comes with the answer, and the page takes its user.
SignInArrives(c) ==
  /\ c[2] \in {"login", "register"} /\ AuthAnswered(c)
  /\ IF authCall[c].state = "ok"
     THEN /\ sessionCookie' = authCall[c].cookie
          /\ signedIn' = [signedIn EXCEPT ![c[1]] = TRUE]
     ELSE UNCHANGED <<sessionCookie, signedIn>>
  /\ Ends(c)
  /\ UNCHANGED <<userRow, doubtful>>

\* A page that is told nothing of its user has none; an answer refused to a change of the name
\* leaves the page as it is.
UserArrives(c) ==
  /\ c[2] \in {"me", "profile"} /\ AuthAnswered(c)
  /\ signedIn' = [signedIn EXCEPT ![c[1]] =
       IF c[2] = "me" THEN authCall[c].state = "ok" ELSE @ \/ authCall[c].state = "ok"]
  /\ Ends(c)
  /\ UNCHANGED <<userRow, sessionCookie, doubtful>>

\* logout does not look at the status: the page has no user, also when it was turned away and the
\* session goes on.
LogoutArrives(c) ==
  /\ c[2] = "logout" /\ AuthAnswered(c)
  /\ sessionCookie' = IF authCall[c].state = "ok" THEN NoCookie ELSE sessionCookie
  /\ signedIn' = [signedIn EXCEPT ![c[1]] = FALSE]
  /\ doubtful' = [doubtful EXCEPT ![c[1]] = @ \/ authCall[c].state = "refused"]
  /\ Ends(c)
  /\ UNCHANGED userRow

\* A new password clears the cookie and opens the login page, which mounts anew.
PasswordArrives(c) ==
  /\ c[2] = "password" /\ AuthAnswered(c)
  /\ IF authCall[c].state = "refused"
     THEN Ends(c) /\ UNCHANGED <<sessionCookie, signedIn>>
     ELSE /\ sessionCookie' = NoCookie
          /\ signedIn' = [signedIn EXCEPT ![c[1]] = FALSE]
          /\ authCall' = [d \in Pages \X AuthKinds |->
               IF d = <<c[1], "me">>
               THEN [state |-> "sent", cookie |-> NoCookie,
                     typed |-> FirstPassword, next |-> FirstPassword]
               ELSE IF d[1] = c[1] THEN NoAuthCall ELSE authCall[d]]
  /\ UNCHANGED <<userRow, doubtful>>

\* A call or its answer is lost.  Only the page's first question takes that for no user.
CallLost(c) ==
  /\ authCall[c] # NoAuthCall
  /\ signedIn' = [signedIn EXCEPT ![c[1]] = @ /\ c[2] # "me"]
  /\ doubtful' = [doubtful EXCEPT ![c[1]] = @ \/ c[2] \in {"me", "logout", "password"}]
  /\ Ends(c)
  /\ UNCHANGED <<userRow, sessionCookie>>

AccountsNext ==
  \/ \E p \in Pages :
       \/ Mount(p) \/ PressLogout(p)
       \/ \E kind \in AuthKinds : SubmitForm(p, kind) \/ SubmitProfile(p, kind)
  \/ ActsElsewhere
  \/ \E c \in AuthUnderWay :
       \/ Login(c) \/ Register(c) \/ AskWho(c) \/ Logout(c) \/ ChangePassword(c) \/ TurnedAway(c)
       \/ SignInArrives(c) \/ UserArrives(c) \/ LogoutArrives(c) \/ PasswordArrives(c)
       \/ CallLost(c)

AccountsSpec == AccountsInit /\ [][AccountsNext]_accountVars

-----------------------------------------------------------------------------
(* A session that the backend accepts was opened with the password the account       *)
(* has now, though sign-ins, registrations and changes of the password overlap.     *)
LiveIsCurrent ==
  Verified(sessionCookie) => sessionCookie.opened = userRow.password

(* A page without a call under way shows a user exactly when it has a session,         *)
(* unless another page or device came between, two of its calls overlapped, its       *)
(* first question was lost, or a sign-out or new password was not answered as done.  *)
PageTellsTruth ==
  \A p \in Pages :
    ~doubtful[p] /\ UnderWayOf(p) = {} => signedIn[p] = Verified(sessionCookie)

(* Accounts, sessions and what pages say of them agree.                      *)
AccountsSound == LiveIsCurrent /\ PageTellsTruth
=============================================================================
