---------------------------- MODULE AdminSession ----------------------------
(***************************************************************************)
(* The frame of the admin dashboard in one browser: the session            *)
(* (frontend/src/lib/auth.tsx, App.tsx), the page that is mounted, and the *)
(* requests it sends through apiFetch (lib/api.ts) past requireAdminAuth   *)
(* (backend/src/modules/auth).  PolledPage and LiveTrades are its pages,   *)
(* Dashboard puts them together.                                           *)
(***************************************************************************)
EXTENDS Integers, FiniteSets

CONSTANTS
  Tokens, NoToken,  \* JWTs
  Calls,            \* GET requests that may be under way at a time
  Nothing,          \* no value
  MaxFailures       \* bound on requests that fail

ASSUME AdminSessionAssumption ==
  /\ NoToken \notin Tokens
  /\ MaxFailures \in Nat

VARIABLES
  token,    \* what localStorage holds
  isAuthenticated,
  signIn,   \* the token a login is about to return, or NoToken
  expired,
  page,     \* the route
  view,     \* the mounted page's React state, or Nothing
  calls,    \* GET requests under way
  failures

sessionVars == <<token, isAuthenticated, signIn, expired, page, view, calls, failures>>

\* Every page but the login and Live Trades polls.
Pages == {"login", "polled", "live"}

FreshPolled == [data |-> Nothing, error |-> FALSE]

NoCall == [phase |-> "idle", token |-> NoToken, mounted |-> FALSE, answer |-> Nothing]

SessionTypeOK ==
  /\ token \in Tokens \cup {NoToken}
  /\ isAuthenticated \in BOOLEAN
  /\ signIn \in Tokens \cup {NoToken}
  /\ expired \subseteq Tokens
  /\ page \in Pages
  /\ \A c \in Calls :
       /\ calls[c].phase \in {"idle", "sent", "answered", "failed", "refused"}
       /\ calls[c].token \in Tokens \cup {NoToken}
       /\ calls[c].mounted \in BOOLEAN
  /\ failures \in 0 .. MaxFailures

\* The browser is opened anew; a token may be left from an earlier visit.
SessionInit ==
  /\ token \in Tokens \cup {NoToken}
  /\ isAuthenticated = (token # NoToken)
  /\ signIn = NoToken
  /\ expired = {}
  /\ page = IF isAuthenticated THEN "polled" ELSE "login"
  /\ view = IF isAuthenticated THEN FreshPolled ELSE Nothing
  /\ calls = [c \in Calls |-> NoCall]
  /\ failures = 0

\* requireAdminAuth.
Authorized(t) == t \in Tokens \ expired

(***************************************************************************)
(* Routing.  A page that is left no longer minds the answers to its calls. *)
(***************************************************************************)
Unmounted == [c \in Calls |-> [calls[c] EXCEPT !.mounted = FALSE]]

\* The handler AuthProvider registers, and logout: RequireAuth redirects.
SignedOut ==
  /\ token' = NoToken /\ isAuthenticated' = FALSE
  /\ page' = "login" /\ view' = Nothing

Logout ==
  /\ isAuthenticated
  /\ SignedOut
  /\ calls' = Unmounted
  /\ UNCHANGED <<signIn, expired, failures>>

(***************************************************************************)
(* login.  (A refused login changes nothing: it is a 401 without a token.) *)
(***************************************************************************)
SubmitLogin ==
  /\ page = "login" /\ signIn = NoToken
  /\ signIn' \in Tokens \ (expired \cup {token} \cup {calls[c].token : c \in Calls})
  /\ UNCHANGED <<token, isAuthenticated, expired, page, view, calls, failures>>

LoginArrives ==
  /\ signIn # NoToken
  /\ token' = signIn /\ isAuthenticated' = TRUE
  /\ signIn' = NoToken
  /\ page' = "polled" /\ view' = FreshPolled
  /\ UNCHANGED <<expired, calls, failures>>

TokenExpires ==
  /\ \E t \in {token, signIn} \cap Tokens : expired' = expired \cup {t}
  /\ expired' # expired
  /\ UNCHANGED <<token, isAuthenticated, signIn, page, view, calls, failures>>

(***************************************************************************)
(* apiFetch, for a GET: the answer is what the handler reads.              *)
(***************************************************************************)
NewCall == [phase |-> "sent", token |-> token, mounted |-> TRUE, answer |-> Nothing]

Send(c) ==
  /\ calls[c].phase = "idle"
  /\ calls' = [calls EXCEPT ![c] = NewCall]
  /\ UNCHANGED <<token, isAuthenticated, signIn, expired, page, view, failures>>

\* The server's side of the call.
Serve(c, answer) ==
  /\ calls[c].phase = "sent"
  /\ calls' = [calls EXCEPT ![c].phase = IF Authorized(calls[c].token) THEN "answered" ELSE "refused",
                            ![c].answer = IF Authorized(calls[c].token) THEN answer ELSE Nothing]
  /\ UNCHANGED <<token, isAuthenticated, signIn, expired, page, view, failures>>

CallFails(c) ==
  /\ calls[c].phase = "sent" /\ failures < MaxFailures
  /\ calls' = [calls EXCEPT ![c].phase = "failed"]
  /\ failures' = failures + 1
  /\ UNCHANGED <<token, isAuthenticated, signIn, expired, page, view>>

\* Mutant: the page shows the error, and no more.
UnauthorizedShown(c) ==
  /\ calls[c].phase = "refused"
  /\ view' = IF page = "polled" /\ calls[c].mounted THEN [view EXCEPT !.error = TRUE] ELSE view
  /\ calls' = [calls EXCEPT ![c] = NoCall]
  /\ UNCHANGED <<token, isAuthenticated, signIn, expired, page, failures>>

\* A 401 ends the session, whichever token it answers.
Unauthorized(c) ==
  /\ calls[c].phase = "refused"
  /\ SignedOut
  /\ calls' = [Unmounted EXCEPT ![c] = NoCall]
  /\ UNCHANGED <<signIn, expired, failures>>

\* What the mounted page makes of the call's end.
Returns(c, phase, newView) ==
  /\ calls[c].phase = phase /\ calls[c].mounted
  /\ view' = newView
  /\ calls' = [calls EXCEPT ![c] = NoCall]
  /\ UNCHANGED <<token, isAuthenticated, signIn, expired, page, failures>>

\* A call whose page is gone: only a 401 still has an effect.
ServeUnmounted(c) == ~calls[c].mounted /\ Serve(c, Nothing)

UnmountedReturns(c) ==
  /\ ~calls[c].mounted /\ calls[c].phase \in {"answered", "failed"}
  /\ calls' = [calls EXCEPT ![c] = NoCall]
  /\ UNCHANGED <<token, isAuthenticated, signIn, expired, page, view, failures>>
=============================================================================
