----------------------------- MODULE ApiClient -----------------------------
(***************************************************************************)
(* ClockClient, one user's client of the backend that the tools of a turn share  *)
(* (clock_client.py), against the login, the session guard and the double-submit *)
(* CSRF check of the backend.  Requests of one client overlap: each is one        *)
(* coroutine that may log in again, and all use the one cookie jar.              *)
(*                                                                         *)
(* httpx puts a response's cookies into the jar with its headers and returns    *)
(* when the body is read: in between other coroutines run.                      *)
(***************************************************************************)
EXTENDS Integers

CONSTANTS
  ApiCalls,         \* bound: requests under way at one time
  MaxExpiries,      \* bound: times the user's sessions end
  MaxRetries        \* retries_left of a request

ASSUME ClientAssumption == MaxExpiries \in Nat /\ MaxRetries \in Nat

VARIABLES
  delegated,        \* the client acts by a user's ticket: it has no password
  account,          \* the backend has the user
  sessionNow,       \* the user's tokenVersion, raised when a session runs out or a new user comes too
  jar,              \* the cookies: the session's version, the CSRF token
  csrfToken,        \* _csrf_token
  apiCall,
  pairAtRisk,       \* history: the last fetch ran beside another, or lost its body
  sessionWentBack   \* history: a late answer has put an older session over a newer one

clientVars == <<delegated, account, sessionNow, jar, csrfToken, apiCall, pairAtRisk, sessionWentBack>>

NoToken == 0
NoVersion == -1
CsrfTokens == 1 .. 6        \* a token nobody holds is a new one
Writes == {"write"}

IdleRequest ==
  [pc |-> "idle", method |-> "read", retriesLeft |-> MaxRetries, session |-> NoVersion,
   cookie |-> NoToken, header |-> NoToken, fetched |-> NoToken,
   crossed |-> FALSE,       \* history: a fetch ran, or had run, beside what it has sent
   applied |-> 0,           \* history: times the backend has done it
   expiries |-> 0]          \* history: times a session has ended since it began

ClientTypeOK ==
  /\ delegated \in BOOLEAN /\ account \in BOOLEAN /\ sessionNow \in 0 .. MaxExpiries
  /\ jar \in [session : NoVersion .. MaxExpiries, csrf : {NoToken} \cup CsrfTokens]
  /\ csrfToken \in {NoToken} \cup CsrfTokens
  /\ apiCall \in [ApiCalls ->
       [pc : {"idle", "token", "tokenBody", "sent", "done", "refused", "forbidden",
              "login", "register", "newSession", "loggedIn", "loggedInBody"},
        method : {"ensure", "read"} \cup Writes, retriesLeft : 0 .. MaxRetries,
        session : NoVersion .. MaxExpiries, cookie : {NoToken} \cup CsrfTokens,
        header : {NoToken} \cup CsrfTokens, fetched : {NoToken} \cup CsrfTokens,
        crossed : BOOLEAN, applied : Nat, expiries : 0 .. MaxExpiries]]
  /\ pairAtRisk \in BOOLEAN /\ sessionWentBack \in BOOLEAN

\* A client begins with ensure_session: whoever makes it waits for that.
ClientInit ==
  /\ delegated \in BOOLEAN /\ account \in BOOLEAN /\ (delegated => account)
  /\ sessionNow = 0
  /\ jar = [session |-> IF delegated THEN 0 ELSE NoVersion, csrf |-> NoToken]
  /\ csrfToken = NoToken
  /\ \E c \in ApiCalls :
       apiCall = [d \in ApiCalls |->
         IF d # c THEN IdleRequest
         ELSE [IdleRequest EXCEPT !.method = "ensure",
                                  !.pc = IF delegated THEN "loggedIn" ELSE "login"]]
  /\ pairAtRisk = FALSE /\ sessionWentBack = FALSE

-----------------------------------------------------------------------------
Fetching == {d \in ApiCalls : apiCall[d].pc \in {"token", "tokenBody", "loggedIn", "loggedInBody"}}

\* What a request goes on with: the token first when there is none, or else it is sent, with
\* the header and the cookies of this moment.
GoOn(c, call, token) ==
  IF call.method \in Writes /\ token = NoToken
  THEN [call EXCEPT !.pc = "token"]
  ELSE [call EXCEPT !.pc = "sent", !.session = jar.session, !.cookie = jar.csrf,
                    !.header = IF call.method \in Writes THEN token ELSE NoToken,
                    !.crossed = pairAtRisk \/ Fetching \ {c} # {}]

TurnsTo(c, call) ==
  /\ apiCall' = [apiCall EXCEPT ![c] = call]
  /\ pairAtRisk' = (pairAtRisk \/ (call.pc \in {"token", "loggedIn"} /\ Fetching \ {c} # {}))

Request(c, method) ==
  /\ apiCall[c] = IdleRequest
  /\ \A d \in ApiCalls : apiCall[d].method # "ensure"
  /\ TurnsTo(c, GoOn(c, [IdleRequest EXCEPT !.method = method], csrfToken))
  /\ UNCHANGED <<delegated, account, sessionNow, jar, csrfToken, sessionWentBack>>

\* GET /auth/csrf: a new token, at once in the jar.
TokenHeaders(c) ==
  /\ apiCall[c].pc \in {"token", "loggedIn"}
  /\ \E token \in CsrfTokens :
       /\ token \notin {jar.csrf, csrfToken}
       /\ \A d \in ApiCalls : token \notin {apiCall[d].fetched, apiCall[d].header, apiCall[d].cookie}
       /\ \A less \in 1 .. (token - 1) :
            \/ less \in {jar.csrf, csrfToken}
            \/ \E d \in ApiCalls : less \in {apiCall[d].fetched, apiCall[d].header, apiCall[d].cookie}
       /\ jar' = [jar EXCEPT !.csrf = token]
       /\ apiCall' = [apiCall EXCEPT ![c].fetched = token,
            ![c].pc = IF @ = "token" THEN "tokenBody" ELSE "loggedInBody"]
  /\ UNCHANGED <<delegated, account, sessionNow, csrfToken, pairAtRisk, sessionWentBack>>

\* The body is read: the token is the client's, and the request goes on, or is sent again.
TokenBody(c) ==
  LET token == apiCall[c].fetched
      call == [apiCall[c] EXCEPT !.fetched = NoToken]
  IN
  /\ call.pc \in {"tokenBody", "loggedInBody"}
  /\ csrfToken' = token
  /\ apiCall' = [apiCall EXCEPT ![c] =
       IF call.method = "ensure" THEN IdleRequest ELSE GoOn(c, call, token)]
  /\ pairAtRisk' = (Fetching \ {c} # {} \/ (pairAtRisk /\ jar.csrf # token))
  /\ UNCHANGED <<delegated, account, sessionNow, jar, sessionWentBack>>

-----------------------------------------------------------------------------
(* The backend.                                                            *)

\* CsrfMiddleware, the guard of the route, and then what the request is for.
Arrives(c) ==
  LET call == apiCall[c]
      Answer(pc, times) ==
        [call EXCEPT !.pc = pc, !.applied = @ + times, !.crossed = call.crossed /\ pc = "forbidden",
                     !.session = NoVersion, !.cookie = NoToken, !.header = NoToken]
  IN
  /\ call.pc = "sent"
  /\ apiCall' = [apiCall EXCEPT ![c] =
       IF call.method \in Writes /\ (call.cookie = NoToken \/ call.cookie # call.header)
       THEN Answer("forbidden", 0)
       ELSE IF call.session # sessionNow THEN Answer("refused", 0)
       ELSE Answer("done", 1)]
  /\ UNCHANGED <<delegated, account, sessionNow, jar, csrfToken, pairAtRisk, sessionWentBack>>

\* POST /auth/login: a session of now.  Without an account it is a 401.
LogsIn(c) ==
  /\ apiCall[c].pc = "login"
  /\ apiCall' = [apiCall EXCEPT ![c] =
       IF account THEN [@ EXCEPT !.pc = "newSession", !.session = sessionNow]
       ELSE [@ EXCEPT !.pc = "register"]]
  /\ UNCHANGED <<delegated, account, sessionNow, jar, csrfToken, pairAtRisk, sessionWentBack>>

\* POST /auth/register: an address that has an account meanwhile is not logged in.
Registers(c) ==
  /\ apiCall[c].pc = "register"
  /\ apiCall' = [apiCall EXCEPT ![c] =
       IF account THEN IdleRequest ELSE [@ EXCEPT !.pc = "newSession", !.session = sessionNow]]
  /\ account' = TRUE
  /\ UNCHANGED <<delegated, sessionNow, jar, csrfToken, pairAtRisk, sessionWentBack>>

\* The answer to a login or a registration puts the session into the jar, be it older than
\* the one there; a new CSRF token is asked for.
SessionTaken(c) ==
  /\ apiCall[c].pc = "newSession"
  /\ jar' = [jar EXCEPT !.session = apiCall[c].session]
  /\ sessionWentBack' = (sessionWentBack \/ apiCall[c].session < jar.session)
  /\ TurnsTo(c, [apiCall[c] EXCEPT !.pc = "loggedIn"])
  /\ UNCHANGED <<delegated, account, sessionNow, csrfToken>>

\* No session of the user is good any more.
EndsSessions ==
  /\ sessionNow < MaxExpiries
  /\ sessionNow' = sessionNow + 1
  /\ apiCall' = [c \in ApiCalls |->
       IF apiCall[c].pc = "idle" THEN apiCall[c] ELSE [apiCall[c] EXCEPT !.expiries = @ + 1]]
  /\ UNCHANGED <<delegated, jar, csrfToken, pairAtRisk, sessionWentBack>>

\* The session runs out, or the user's sessions are revoked.
SessionEnds == EndsSessions /\ UNCHANGED account

\* The sweep for old shoppers of the agent without an order deletes the account, whether or not
\* its chat goes on.
ShopperCleanedUp ==
  /\ ~delegated /\ account
  /\ account' = FALSE
  /\ EndsSessions

-----------------------------------------------------------------------------
(* The answer.                                                             *)

\* It is done, or the caller gets an error: the token is wrong, the last retry is refused too,
\* or the client has no password to log in with.
AnswerTaken(c) ==
  /\ \/ apiCall[c].pc \in {"done", "forbidden"}
     \/ apiCall[c].pc = "refused" /\ (apiCall[c].retriesLeft = 0 \/ delegated)
  /\ apiCall' = [apiCall EXCEPT ![c] = IdleRequest]
  /\ UNCHANGED <<delegated, account, sessionNow, jar, csrfToken, pairAtRisk, sessionWentBack>>

\* defect: the retries are not counted down to an end
LogInWithoutLimit(c) ==
  /\ apiCall[c].pc = "refused" /\ ~delegated
  /\ csrfToken' = NoToken
  /\ apiCall' = [apiCall EXCEPT ![c].pc = "login", ![c].retriesLeft = @ - 1]
  /\ UNCHANGED <<delegated, account, sessionNow, jar, pairAtRisk, sessionWentBack>>

\* A 401: the client logs in again, for the whole of it, and sends the request again.
LogInAgain(c) ==
  /\ apiCall[c].pc = "refused" /\ apiCall[c].retriesLeft > 0 /\ ~delegated
  /\ csrfToken' = NoToken
  /\ apiCall' = [apiCall EXCEPT ![c].pc = "login", ![c].retriesLeft = @ - 1]
  /\ UNCHANGED <<delegated, account, sessionNow, jar, pairAtRisk, sessionWentBack>>

\* defect: what timed out is sent again
LostAndResent(c) ==
  /\ apiCall[c].pc \in {"done", "refused", "forbidden"} /\ apiCall[c].retriesLeft > 0
  /\ apiCall' = [apiCall EXCEPT ![c] = GoOn(c, [@ EXCEPT !.retriesLeft = @ - 1], csrfToken)]
  /\ UNCHANGED <<delegated, account, sessionNow, jar, csrfToken, pairAtRisk, sessionWentBack>>

\* No answer in time, of any of its calls: the caller gets an exception, nothing is repeated.
Lost(c) ==
  /\ apiCall[c].pc # "idle" /\ apiCall[c].method # "ensure"
  /\ apiCall' = [apiCall EXCEPT ![c] = IdleRequest]
  /\ pairAtRisk' = (pairAtRisk \/ apiCall[c].pc \in {"tokenBody", "loggedInBody"})
  /\ UNCHANGED <<delegated, account, sessionNow, jar, csrfToken, sessionWentBack>>

ClientNext ==
  \/ \E c \in ApiCalls :
       \/ \E method \in {"read"} \cup Writes : Request(c, method)
       \/ TokenHeaders(c) \/ TokenBody(c) \/ Arrives(c) \/ LogsIn(c) \/ Registers(c) \/ SessionTaken(c)
       \/ AnswerTaken(c) \/ LogInAgain(c) \/ Lost(c)
  \/ SessionEnds \/ ShopperCleanedUp

ClientSpec == ClientInit /\ [][ClientNext]_clientVars

-----------------------------------------------------------------------------
(* However often a request is sent again, the backend does it at most once.      *)
DoneOnce == \A c \in ApiCalls : apiCall[c].applied <= 1

(* A write is forbidden for its CSRF token only if fetches of tokens had run       *)
(* beside one another or beside it, or one had lost its body: else header and       *)
(* cookie are of one fetch.                                                  *)
TokensMatch == \A c \in ApiCalls : apiCall[c].pc = "forbidden" => apiCall[c].crossed

(* A client with a password tells its caller of a 401 only when a session has      *)
(* ended under the request for each of its retries, or the answers of two logins    *)
(* came in the wrong order.                                                  *)
RefusedForSessions ==
  \A c \in ApiCalls :
    apiCall[c].pc = "refused" /\ apiCall[c].retriesLeft = 0 =>
      delegated \/ apiCall[c].expiries >= MaxRetries \/ sessionWentBack

(* What the tools of a turn may rely on.                                   *)
ClientSound == DoneOnce /\ TokensMatch /\ RefusedForSessions
=============================================================================
