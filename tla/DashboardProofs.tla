-------------------------- MODULE DashboardProofs --------------------------
(***************************************************************************)
(* A Live Trades page that missed nothing is current, for every number of  *)
(* logins, requests, failures and writes.                                  *)
(***************************************************************************)
EXTENDS Dashboard, SequenceTheorems, TLAPS

Request == [phase : {"idle", "sent", "answered", "failed", "refused"},
            token : Tokens \cup {NoToken}, mounted : BOOLEAN, answer : Nat \cup {Nothing}]

\* A login is under way on the login page only, and a page that was left
\* leaves no request behind that the next one would mind.
PagesAreApart ==
  /\ isAuthenticated => page # "login"
  /\ signIn # NoToken => page = "login"
  /\ page = "login" => \A c \in Calls : ~calls[c].mounted

\* The answers on their way to the mounted page.
Answers == {c \in Calls : calls[c].mounted /\ calls[c].phase = "answered"}

AnswersAreRead ==
  \A c \in Answers :
    /\ page = "polled" => calls[c].answer \in 0 .. row
    /\ page = "live" => calls[c].answer \in 0 .. table

\* Live Trades loads once, shows what was written, and has frames to handle only
\* while its socket is open.
LiveShowsWrites ==
  page = "live" =>
    /\ view.shown \in 0 .. table
    /\ view.frames \in Seq(1 .. table)
    /\ view.frames # <<>> => view.socket = "open"
    /\ \A c, d \in Calls : calls[c].mounted /\ calls[d].mounted => c = d

\* v is what the latest write left, or that write is still to be broadcast.
UpToDate(v) == v = table \/ table \in unsent

\* On a page that missed nothing since the latest write, the last frame that waits
\* is up to date.  When none waits, so is what is shown, or what the answer of the
\* load will replace it by.
NothingMissed ==
  (page = "live" /\ ~view.missed) =>
    /\ view.frames # <<>> => UpToDate(view.frames[Len(view.frames)])
    /\ view.frames = <<>> =>
         /\ \A c \in Answers : view.shown <= calls[c].answer => UpToDate(calls[c].answer)
         /\ (\A c \in Calls : ~calls[c].mounted) => UpToDate(view.shown)

IInv ==
  /\ TypeOK
  /\ calls \in [Calls -> Request]
  /\ PagesAreApart
  /\ AnswersAreRead
  /\ LiveShowsWrites
  /\ NothingMissed

(***************************************************************************)
(* The parts of the session.                                               *)
(***************************************************************************)
LEMMA NewCallType == ASSUME TypeOK PROVE NewCall \in Request
  BY DEF NewCall, Request, TypeOK, SessionTypeOK

LEMMA NoCallType == NoCall \in Request
  BY DEF NoCall, Request

LEMMA UnmountedCalls ==
  ASSUME calls \in [Calls -> Request]
  PROVE  /\ Unmounted \in [Calls -> Request]
         /\ \A c \in Calls : ~Unmounted[c].mounted
  BY DEF Unmounted, Request

\* A request is either served with an answer or refused.
LEMMA ServeCalls ==
  ASSUME calls \in [Calls -> Request], NEW c \in Calls, NEW a, Serve(c, a),
         a \in Nat \cup {Nothing}
  PROVE  /\ calls' \in [Calls -> Request]
         /\ \A d \in Calls : calls'[d].mounted = calls[d].mounted
         /\ \A d \in Calls \ {c} : calls'[d] = calls[d]
         /\ calls[c].phase = "sent"
         /\ calls'[c].phase = "answered" => calls'[c].answer = a
         /\ calls'[c].phase \in {"answered", "refused"}
  <1>1. calls' = [calls EXCEPT ![c] = [calls[c] EXCEPT
                   !.phase = IF Authorized(calls[c].token) THEN "answered" ELSE "refused",
                   !.answer = IF Authorized(calls[c].token) THEN a ELSE Nothing]]
    BY DEF Serve
  <1>2. calls[c].phase = "sent" /\ calls[c] \in Request
    BY DEF Serve
  <1>3. CASE Authorized(calls[c].token)
    BY <1>1, <1>2, <1>3 DEF Request
  <1>4. CASE ~Authorized(calls[c].token)
    BY <1>1, <1>2, <1>4 DEF Request
  <1>5. QED BY <1>3, <1>4

\* The types of the session follow from those of what it consists of.
LEMMA SessionTypes ==
  ASSUME TypeOK, calls' \in [Calls -> Request],
         token' \in Tokens \cup {NoToken}, isAuthenticated' \in BOOLEAN,
         signIn' \in Tokens \cup {NoToken}, expired' \subseteq Tokens,
         page' \in Pages, failures' \in 0 .. MaxFailures
  PROVE  SessionTypeOK'
  BY DEF SessionTypeOK, Request

\* A step that leaves both pages and what they show alone, and makes no answer
\* to the mounted one.
LEMMA QuietStep ==
  ASSUME IInv, calls' \in [Calls -> Request], page' = page, view' = view,
         UNCHANGED liveVars, row' \in 0 .. MaxRevisions, row <= row',
         \A c \in Calls : calls'[c].mounted = calls[c].mounted,
         \A c \in Answers' : c \in Answers /\ calls'[c] = calls[c]
  PROVE  PolledTypeOK' /\ LiveTypeOK' /\ AnswersAreRead' /\ LiveShowsWrites' /\ NothingMissed'
  <1> USE DEF IInv, liveVars
  <1>1. PolledTypeOK' /\ LiveTypeOK'
    BY DEF TypeOK, PolledTypeOK, LiveTypeOK
  <1>2. AnswersAreRead'
    <2> SUFFICES ASSUME NEW c \in Answers'
                 PROVE  /\ page = "polled" => calls[c].answer \in 0 .. row'
                        /\ page = "live" => calls[c].answer \in 0 .. table
      BY DEF AnswersAreRead
    <2>1. c \in Answers /\ row \in Nat /\ row' \in Nat
      BY DEF TypeOK, PolledTypeOK
    <2>2. QED BY <2>1 DEF AnswersAreRead
  <1>3. LiveShowsWrites'
    BY DEF LiveShowsWrites
  <1>4. \A v : UpToDate(v)' <=> UpToDate(v)
    BY DEF UpToDate
  <1>5. NothingMissed'
    BY <1>4 DEF NothingMissed, UpToDate
  <1>6. QED BY <1>1, <1>2, <1>3, <1>5

\* The page that is mounted is not Live Trades.
LEMMA ElsewhereStep ==
  ASSUME IInv, page' # "live", UNCHANGED liveVars
  PROVE  LiveTypeOK' /\ LiveShowsWrites' /\ NothingMissed'
  BY DEF IInv, TypeOK, LiveTypeOK, LiveShowsWrites, NothingMissed, liveVars

(***************************************************************************)
(* One lemma per action.  First those of the session.                      *)
(***************************************************************************)
LEMMA InitInv == Init => IInv
  <1> SUFFICES ASSUME Init PROVE IInv
    OBVIOUS
  <1> USE DEF Init, SessionInit, PolledInit, LiveInit
  <1>1. calls \in [Calls -> Request] /\ \A c \in Calls : calls[c] = NoCall
    BY NoCallType
  <1>2. \A c \in Calls : ~calls[c].mounted
    BY <1>1 DEF NoCall
  <1>3. SessionTypeOK
    BY <1>1, AdminSessionAssumption DEF SessionTypeOK, Request, Pages
  <1>4. PolledTypeOK
    <2>1. page = "polled" => view = FreshPolled
      OBVIOUS
    <2>2. FreshPolled \in PolledView
      BY DEF FreshPolled, PolledView
    <2>3. row \in 0 .. MaxRevisions
      BY PolledPageAssumption
    <2>4. QED BY <2>1, <2>2, <2>3 DEF PolledTypeOK
  <1>5. page # "live"
    OBVIOUS
  <1>6. LiveTypeOK
    BY <1>5, LiveTradesAssumption DEF LiveTypeOK
  <1>7. PagesAreApart
    BY <1>2 DEF PagesAreApart
  <1>8. AnswersAreRead /\ LiveShowsWrites /\ NothingMissed
    BY <1>2, <1>5 DEF AnswersAreRead, Answers, LiveShowsWrites, NothingMissed
  <1>9. QED BY <1>1, <1>3, <1>4, <1>6, <1>7, <1>8 DEF IInv, TypeOK

LEMMA SubmitLoginInv ==
  ASSUME IInv, SubmitLogin, UNCHANGED <<row, liveVars>> PROVE IInv'
  <1> USE DEF IInv, SubmitLogin
  <1>1. /\ PolledTypeOK' /\ LiveTypeOK' /\ AnswersAreRead' /\ LiveShowsWrites' /\ NothingMissed'
    <2>1. row \in 0 .. MaxRevisions /\ row <= row
      BY DEF TypeOK, PolledTypeOK
    <2>2. Answers' = Answers
      BY DEF Answers
    <2>3. QED BY <2>1, <2>2, QuietStep
  <1>2. SessionTypeOK'
    BY DEF TypeOK, SessionTypeOK
  <1>3. PagesAreApart'
    BY DEF PagesAreApart
  <1>4. QED BY <1>1, <1>2, <1>3 DEF TypeOK

LEMMA TokenExpiresInv ==
  ASSUME IInv, TokenExpires, UNCHANGED <<row, liveVars>> PROVE IInv'
  <1> USE DEF IInv, TokenExpires
  <1>1. /\ PolledTypeOK' /\ LiveTypeOK' /\ AnswersAreRead' /\ LiveShowsWrites' /\ NothingMissed'
    <2>1. row \in 0 .. MaxRevisions /\ row <= row
      BY DEF TypeOK, PolledTypeOK
    <2>2. Answers' = Answers
      BY DEF Answers
    <2>3. QED BY <2>1, <2>2, QuietStep
  <1>2. SessionTypeOK'
    BY DEF TypeOK, SessionTypeOK
  <1>3. PagesAreApart'
    BY DEF PagesAreApart
  <1>4. QED BY <1>1, <1>2, <1>3 DEF TypeOK

LEMMA LoginArrivesInv ==
  ASSUME IInv, LoginArrives, UNCHANGED <<row, liveVars>> PROVE IInv'
  <1> USE DEF IInv, LoginArrives
  <1>1. \A c \in Calls : ~calls[c].mounted
    BY DEF PagesAreApart
  <1>2. LiveTypeOK' /\ LiveShowsWrites' /\ NothingMissed'
    BY ElsewhereStep
  <1>3. SessionTypeOK'
    BY DEF TypeOK, SessionTypeOK, Pages
  <1>4. PolledTypeOK'
    BY DEF TypeOK, PolledTypeOK, FreshPolled, PolledView
  <1>5. PagesAreApart'
    BY DEF PagesAreApart
  <1>6. AnswersAreRead'
    BY <1>1 DEF AnswersAreRead, Answers
  <1>7. QED BY <1>2, <1>3, <1>4, <1>5, <1>6 DEF TypeOK

\* The session ends, by a logout or by a 401.
LEMMA SignedOutInv ==
  ASSUME IInv, SignedOut, calls' \in [Calls -> Request],
         \A c \in Calls : ~calls'[c].mounted,
         UNCHANGED <<signIn, expired, failures>>, UNCHANGED <<row, liveVars>>
  PROVE  IInv'
  <1> USE DEF IInv, SignedOut
  <1>1. LiveTypeOK' /\ LiveShowsWrites' /\ NothingMissed'
    BY ElsewhereStep
  <1>2. SessionTypeOK'
    BY SessionTypes DEF TypeOK, SessionTypeOK, Pages
  <1>3. PolledTypeOK'
    BY DEF TypeOK, PolledTypeOK
  <1>4. PagesAreApart'
    BY DEF PagesAreApart
  <1>5. AnswersAreRead'
    BY DEF AnswersAreRead
  <1>6. QED BY <1>1, <1>2, <1>3, <1>4, <1>5 DEF TypeOK

LEMMA LogoutInv ==
  ASSUME IInv, Logout, UNCHANGED <<row, liveVars>> PROVE IInv'
  BY UnmountedCalls, SignedOutInv DEF IInv, Logout

LEMMA UnauthorizedInv ==
  ASSUME IInv, NEW c \in Calls, Unauthorized(c), UNCHANGED <<row, liveVars>> PROVE IInv'
  <1>1. /\ calls' \in [Calls -> Request]
        /\ \A d \in Calls : ~calls'[d].mounted
    BY UnmountedCalls, NoCallType DEF IInv, Unauthorized, NoCall
  <1>2. QED BY <1>1, SignedOutInv DEF Unauthorized

\* A request makes no answer, and the page does not hear of it.
LEMMA RequestStep ==
  ASSUME IInv, calls' \in [Calls -> Request],
         \A c \in Calls : calls'[c].mounted = calls[c].mounted,
         \A c \in Answers' : c \in Answers /\ calls'[c] = calls[c],
         UNCHANGED <<token, isAuthenticated, signIn, expired, page, view>>,
         failures' \in 0 .. MaxFailures, UNCHANGED <<row, liveVars>>
  PROVE  IInv'
  <1> USE DEF IInv
  <1>1. /\ PolledTypeOK' /\ LiveTypeOK' /\ AnswersAreRead' /\ LiveShowsWrites' /\ NothingMissed'
    <2>1. row \in 0 .. MaxRevisions /\ row <= row
      BY DEF TypeOK, PolledTypeOK
    <2>2. QED BY <2>1, QuietStep
  <1>2. SessionTypeOK'
    BY SessionTypes DEF TypeOK, SessionTypeOK
  <1>3. PagesAreApart'
    BY DEF PagesAreApart
  <1>4. QED BY <1>1, <1>2, <1>3 DEF TypeOK

LEMMA CallFailsInv ==
  ASSUME IInv, NEW c \in Calls, CallFails(c), UNCHANGED <<row, liveVars>> PROVE IInv'
  <1>1. /\ calls \in [Calls -> Request] /\ calls[c].phase = "sent"
        /\ calls' = [calls EXCEPT ![c] = [calls[c] EXCEPT !.phase = "failed"]]
    BY DEF IInv, CallFails
  <1>2. /\ calls' \in [Calls -> Request]
        /\ \A d \in Calls : calls'[d].mounted = calls[d].mounted
        /\ calls'[c].phase = "failed"
        /\ \A d \in Calls \ {c} : calls'[d] = calls[d]
    BY <1>1 DEF Request
  <1>3. \A d \in Answers' : d \in Answers /\ calls'[d] = calls[d]
    BY <1>2 DEF Answers
  <1>4. failures' \in 0 .. MaxFailures
    BY AdminSessionAssumption DEF IInv, TypeOK, SessionTypeOK, CallFails
  <1>5. QED BY <1>2, <1>3, <1>4, RequestStep DEF CallFails

LEMMA ServeUnmountedInv ==
  ASSUME IInv, NEW c \in Calls, ServeUnmounted(c), UNCHANGED <<row, liveVars>> PROVE IInv'
  <1>1. /\ calls' \in [Calls -> Request]
        /\ \A d \in Calls : calls'[d].mounted = calls[d].mounted
        /\ \A d \in Calls \ {c} : calls'[d] = calls[d]
        /\ ~calls[c].mounted
    BY ServeCalls DEF IInv, ServeUnmounted
  <1>2. \A d \in Answers' : d \in Answers /\ calls'[d] = calls[d]
    BY <1>1 DEF Answers
  <1>3. failures' \in 0 .. MaxFailures
    BY DEF IInv, TypeOK, SessionTypeOK, ServeUnmounted, Serve
  <1>4. QED BY <1>1, <1>2, <1>3, RequestStep DEF ServeUnmounted, Serve

LEMMA UnmountedReturnsInv ==
  ASSUME IInv, NEW c \in Calls, UnmountedReturns(c), UNCHANGED <<row, liveVars>> PROVE IInv'
  <1>1. /\ calls' \in [Calls -> Request]
        /\ \A d \in Calls \ {c} : calls'[d] = calls[d]
        /\ ~calls[c].mounted /\ ~calls'[c].mounted
        /\ calls[c].mounted \in BOOLEAN
    BY NoCallType DEF IInv, UnmountedReturns, NoCall, Request
  <1>2. \A d \in Calls : calls'[d].mounted = calls[d].mounted
    <2>1. calls'[c].mounted = FALSE /\ calls[c].mounted = FALSE
      BY <1>1, NoCallType DEF IInv, UnmountedReturns, NoCall
    <2>2. QED BY <1>1, <2>1
  <1>3. \A d \in Answers' : d \in Answers /\ calls'[d] = calls[d]
    BY <1>1 DEF Answers
  <1>4. failures' \in 0 .. MaxFailures
    BY DEF IInv, TypeOK, SessionTypeOK, UnmountedReturns
  <1>5. QED BY <1>1, <1>2, <1>3, <1>4, RequestStep DEF UnmountedReturns

(***************************************************************************)
(* The polled page.                                                        *)
(***************************************************************************)
LEMMA OpenPolledInv ==
  ASSUME IInv, OpenPolled, UNCHANGED liveVars PROVE IInv'
  <1> USE DEF IInv, OpenPolled
  <1>1. calls' \in [Calls -> Request] /\ \A c \in Calls : ~calls'[c].mounted
    BY UnmountedCalls
  <1>2. LiveTypeOK' /\ LiveShowsWrites' /\ NothingMissed'
    BY ElsewhereStep
  <1>3. SessionTypeOK'
    BY <1>1, SessionTypes DEF TypeOK, SessionTypeOK, Pages
  <1>4. PolledTypeOK'
    BY DEF TypeOK, PolledTypeOK, FreshPolled, PolledView
  <1>5. PagesAreApart'
    BY DEF PagesAreApart
  <1>6. AnswersAreRead'
    BY <1>1 DEF AnswersAreRead, Answers
  <1>7. QED BY <1>1, <1>2, <1>3, <1>4, <1>5, <1>6 DEF TypeOK

LEMMA RowChangesInv ==
  ASSUME IInv, RowChanges, UNCHANGED liveVars PROVE IInv'
  <1> USE DEF IInv, RowChanges, sessionVars
  <1>1. /\ PolledTypeOK' /\ LiveTypeOK' /\ AnswersAreRead' /\ LiveShowsWrites' /\ NothingMissed'
    <2>1. row' \in 0 .. MaxRevisions /\ row <= row'
      BY PolledPageAssumption DEF TypeOK, PolledTypeOK
    <2>2. Answers' = Answers
      BY DEF Answers
    <2>3. QED BY <2>1, <2>2, QuietStep
  <1>2. SessionTypeOK'
    BY DEF TypeOK, SessionTypeOK
  <1>3. PagesAreApart'
    BY DEF PagesAreApart
  <1>4. QED BY <1>1, <1>2, <1>3 DEF TypeOK

LEMMA PollInv ==
  ASSUME IInv, NEW c \in Calls, Poll(c), UNCHANGED liveVars PROVE IInv'
  <1> USE DEF IInv, Poll, Send
  <1>1. /\ calls' \in [Calls -> Request] /\ calls'[c].phase = "sent"
        /\ \A d \in Calls \ {c} : calls'[d] = calls[d]
    BY NewCallType DEF NewCall
  <1>2. LiveTypeOK' /\ LiveShowsWrites' /\ NothingMissed'
    BY ElsewhereStep
  <1>3. SessionTypeOK'
    BY <1>1, SessionTypes DEF TypeOK, SessionTypeOK
  <1>4. PolledTypeOK'
    BY DEF TypeOK, PolledTypeOK
  <1>5. PagesAreApart'
    BY DEF PagesAreApart
  <1>6. AnswersAreRead'
    BY <1>1 DEF AnswersAreRead, Answers
  <1>7. QED BY <1>1, <1>2, <1>3, <1>4, <1>5, <1>6 DEF TypeOK

LEMMA ServePollInv ==
  ASSUME IInv, NEW c \in Calls, ServePoll(c), UNCHANGED liveVars PROVE IInv'
  <1> USE DEF IInv, ServePoll
  <1>1. row \in Nat /\ row \in 0 .. row
    BY DEF TypeOK, PolledTypeOK
  <1>2. /\ calls' \in [Calls -> Request]
        /\ \A d \in Calls \ {c} : calls'[d] = calls[d]
        /\ calls'[c].phase = "answered" => calls'[c].answer = row
    BY <1>1, ServeCalls
  <1>3. UNCHANGED <<token, isAuthenticated, signIn, expired, page, view, failures, row>>
    BY DEF Serve
  <1>4. LiveTypeOK' /\ LiveShowsWrites' /\ NothingMissed'
    BY <1>3, ElsewhereStep
  <1>5. SessionTypeOK'
    BY <1>2, <1>3, SessionTypes DEF TypeOK, SessionTypeOK
  <1>6. PolledTypeOK'
    BY <1>3 DEF TypeOK, PolledTypeOK
  <1>7. PagesAreApart'
    BY <1>3 DEF PagesAreApart
  <1>8. AnswersAreRead'
    <2> SUFFICES ASSUME NEW d \in Answers' PROVE calls'[d].answer \in 0 .. row
      BY <1>3 DEF AnswersAreRead
    <2>1. CASE d = c
      BY <1>1, <1>2, <2>1 DEF Answers
    <2>2. CASE d # c
      BY <1>2, <2>2 DEF Answers, AnswersAreRead
    <2>3. QED BY <2>1, <2>2
  <1>9. QED BY <1>2, <1>4, <1>5, <1>6, <1>7, <1>8 DEF TypeOK

\* The page heard of the end of a request.
LEMMA ReturnedCalls ==
  ASSUME IInv, NEW c \in Calls, NEW phase, NEW v, Returns(c, phase, v)
  PROVE  /\ calls' \in [Calls -> Request] /\ ~calls'[c].mounted
         /\ \A d \in Calls \ {c} : calls'[d] = calls[d]
         /\ c \notin Answers' /\ Answers' \subseteq Answers
  <1>1. /\ calls' \in [Calls -> Request] /\ ~calls'[c].mounted
        /\ \A d \in Calls \ {c} : calls'[d] = calls[d]
    BY NoCallType DEF IInv, Returns, NoCall
  <1>2. QED BY <1>1 DEF Answers

LEMMA PollReturnsInv ==
  ASSUME IInv, NEW c \in Calls, PollReturns(c), UNCHANGED liveVars PROVE IInv'
  <1> USE DEF IInv, PollReturns
  <1>1. /\ calls' \in [Calls -> Request] /\ ~calls'[c].mounted
        /\ \A d \in Calls \ {c} : calls'[d] = calls[d]
        /\ c \notin Answers' /\ Answers' \subseteq Answers
    BY ReturnedCalls
  <1>2. UNCHANGED <<token, isAuthenticated, signIn, expired, page, failures, row>>
    BY DEF Returns
  <1>3. LiveTypeOK' /\ LiveShowsWrites' /\ NothingMissed'
    BY <1>2, ElsewhereStep
  <1>4. SessionTypeOK'
    BY <1>1, <1>2, SessionTypes DEF TypeOK, SessionTypeOK
  <1>5. view' \in PolledView
    <2>1. view \in PolledView /\ row \in 0 .. MaxRevisions
      BY DEF TypeOK, PolledTypeOK
    <2>2. CASE Returns(c, "answered", [data |-> calls[c].answer, error |-> FALSE])
      <3>1. c \in Answers
        BY <2>2 DEF Returns, Answers
      <3>2. calls[c].answer \in 0 .. row
        BY <3>1 DEF AnswersAreRead
      <3>3. calls[c].answer \in 0 .. MaxRevisions
        BY <2>1, <3>2, PolledPageAssumption
      <3>4. QED BY <2>2, <3>3 DEF Returns, PolledView
    <2>3. CASE Returns(c, "failed", [view EXCEPT !.error = TRUE])
      BY <2>1, <2>3 DEF Returns, PolledView
    <2>4. QED BY <2>2, <2>3
  <1>6. PolledTypeOK'
    BY <1>2, <1>5 DEF TypeOK, PolledTypeOK
  <1>7. PagesAreApart'
    BY <1>2 DEF PagesAreApart
  <1>8. AnswersAreRead'
    <2>1. \A d \in Answers' : d \in Answers /\ calls'[d] = calls[d]
      BY <1>1 DEF Answers
    <2>2. QED BY <1>2, <2>1 DEF AnswersAreRead
  <1>9. QED BY <1>1, <1>3, <1>4, <1>6, <1>7, <1>8 DEF TypeOK

(***************************************************************************)
(* Live Trades.                                                            *)
(***************************************************************************)
\* What a step of the page has to show beyond leaving the session alone.
LEMMA LivePageStep ==
  ASSUME IInv, page' = "live", UNCHANGED <<isAuthenticated, signIn, token, expired, row>>,
         page = "live" \/ isAuthenticated, calls' \in [Calls -> Request],
         failures' \in 0 .. MaxFailures,
         table' \in 0 .. MaxVersions, unsent' \subseteq 1 .. table',
         view' \in LiveView, AnswersAreRead', LiveShowsWrites', NothingMissed'
  PROVE  IInv'
  <1> USE DEF IInv
  <1>1. SessionTypeOK'
    BY SessionTypes DEF TypeOK, SessionTypeOK, Pages
  <1>2. PolledTypeOK' /\ LiveTypeOK'
    BY DEF TypeOK, PolledTypeOK, LiveTypeOK
  <1>3. PagesAreApart'
    BY DEF PagesAreApart
  <1>4. QED BY <1>1, <1>2, <1>3 DEF TypeOK

LEMMA OpenLiveInv ==
  ASSUME IInv, NEW c \in Calls, OpenLive(c), UNCHANGED row PROVE IInv'
  <1> USE DEF OpenLive, liveVars
  <1>1. /\ calls' \in [Calls -> Request]
        /\ calls'[c].phase = "sent"
        /\ \A d \in Calls \ {c} : ~calls'[d].mounted
    <2> DEFINE left == Unmounted
               new == NewCall
    <2>1. left \in [Calls -> Request] /\ \A d \in Calls : ~left[d].mounted
      BY UnmountedCalls DEF IInv
    <2>2. new \in Request /\ new.phase = "sent"
      BY NewCallType DEF IInv, NewCall
    <2>3. calls' = [left EXCEPT ![c] = new]
      OBVIOUS
    <2> HIDE DEF left, new
    <2>4. QED BY <2>1, <2>2, <2>3
  <1>2. calls'[c].mounted
    <2>1. calls'[c] = NewCall
      BY UnmountedCalls DEF IInv
    <2>2. QED BY <2>1 DEF NewCall
  <1>3. Answers' = {}
    BY <1>1 DEF Answers
  <1>4. /\ page' = "live" /\ view'.shown = 0 /\ view'.socket = "connecting"
        /\ view'.frames = <<>>
    OBVIOUS
  <1>5. /\ table' \in 0 .. MaxVersions /\ unsent' \subseteq 1 .. table'
        /\ 0 \in 0 .. MaxVersions /\ 0 \in 0 .. table'
    BY LiveTradesAssumption DEF IInv, TypeOK, LiveTypeOK
  <1>6. view' \in LiveView
    <2>1. <<>> \in Seq(1 .. MaxVersions)
      BY EmptySeq
    <2>2. QED BY <1>5, <2>1 DEF LiveView
  <1>7. AnswersAreRead'
    BY <1>3 DEF AnswersAreRead
  <1>8. LiveShowsWrites'
    <2>1. <<>> \in Seq(1 .. table')
      BY EmptySeq
    <2>2. QED BY <1>1, <1>4, <1>5, <2>1 DEF LiveShowsWrites
  <1>9. NothingMissed'
    BY <1>2, <1>3, <1>4 DEF NothingMissed
  <1>10. failures' \in 0 .. MaxFailures
    BY DEF IInv, TypeOK, SessionTypeOK
  <1>11. QED BY <1>1, <1>4, <1>5, <1>6, <1>7, <1>8, <1>9, <1>10, LivePageStep

LEMMA ServeLoadInv ==
  ASSUME IInv, NEW c \in Calls, ServeLoad(c), UNCHANGED row PROVE IInv'
  <1> USE DEF ServeLoad, liveVars
  <1>1. /\ table \in Nat /\ table \in 0 .. table /\ table \in 0 .. MaxVersions
        /\ unsent \subseteq 1 .. table /\ view \in LiveView
        /\ failures \in 0 .. MaxFailures
    BY LiveTradesAssumption DEF IInv, TypeOK, LiveTypeOK, SessionTypeOK
  <1>2. /\ calls' \in [Calls -> Request]
        /\ \A d \in Calls : calls'[d].mounted = calls[d].mounted
        /\ \A d \in Calls \ {c} : calls'[d] = calls[d]
        /\ calls'[c].phase = "answered" => calls'[c].answer = table
    BY <1>1, ServeCalls DEF IInv
  <1>3. UNCHANGED <<token, isAuthenticated, signIn, expired, page, view, failures>>
    BY DEF Serve
  <1>4. \A d \in Answers' : \/ d \in Answers /\ calls'[d] = calls[d]
                            \/ calls'[d].answer = table
    BY <1>2 DEF Answers
  <1>5. AnswersAreRead'
    BY <1>1, <1>3, <1>4 DEF IInv, AnswersAreRead
  <1>6. LiveShowsWrites'
    BY <1>2, <1>3 DEF IInv, LiveShowsWrites
  <1>7. UpToDate(table) /\ \A v : UpToDate(v)' <=> UpToDate(v)
    BY <1>1 DEF UpToDate
  <1>8. NothingMissed'
    <2> SUFFICES ASSUME ~view.missed
                 PROVE  /\ view.frames # <<>> => UpToDate(view.frames[Len(view.frames)])'
                        /\ view.frames = <<>> =>
                             /\ \A d \in Answers' : view.shown <= calls'[d].answer =>
                                                     UpToDate(calls[d].answer)'
                             /\ (\A d \in Calls : ~calls'[d].mounted) => UpToDate(view.shown)'
      BY <1>3 DEF NothingMissed
    <2>1. view.frames # <<>> => UpToDate(view.frames[Len(view.frames)])'
      BY <1>3, <1>7 DEF IInv, NothingMissed, UpToDate
    <2>2. ASSUME view.frames = <<>>, NEW d \in Answers', view.shown <= calls'[d].answer
          PROVE  UpToDate(calls[d].answer)'
      <3>1. UpToDate(calls'[d].answer)
        BY <1>4, <1>7, <2>2 DEF IInv, NothingMissed
      <3>2. QED BY <3>1 DEF UpToDate
    <2>3. ~\A d \in Calls : ~calls'[d].mounted
      BY <1>2
    <2>4. QED BY <2>1, <2>2, <2>3
  <1>9. QED BY <1>1, <1>2, <1>3, <1>5, <1>6, <1>8, LivePageStep

LEMMA LoadReturnsInv ==
  ASSUME IInv, NEW c \in Calls, LoadReturns(c), UNCHANGED row PROVE IInv'
  <1> USE DEF LoadReturns, liveVars
  <1>1. /\ table \in Nat /\ table \in 0 .. MaxVersions
        /\ unsent \subseteq 1 .. table /\ view \in LiveView
        /\ failures \in 0 .. MaxFailures
    BY LiveTradesAssumption DEF IInv, TypeOK, LiveTypeOK, SessionTypeOK
  <1>2. /\ calls' \in [Calls -> Request] /\ ~calls'[c].mounted
        /\ \A d \in Calls \ {c} : calls'[d] = calls[d]
        /\ c \notin Answers' /\ Answers' \subseteq Answers
    BY ReturnedCalls
  <1>3. /\ UNCHANGED <<token, isAuthenticated, signIn, expired, page, failures>>
        /\ calls[c].mounted
    BY DEF Returns
  <1>4. Answers' = {}
    BY <1>2, <1>3 DEF Answers, IInv, LiveShowsWrites
  <1>5. AnswersAreRead'
    BY <1>4 DEF AnswersAreRead
  <1>6. CASE Returns(c, "answered",
               [view EXCEPT !.shown = calls[c].answer,
                            !.missed = @ \/ calls[c].answer < view.shown])
    <2> DEFINE a == calls[c].answer
               late == view.missed \/ a < view.shown
    <2>1. c \in Answers
      BY <1>6 DEF Returns, Answers
    <2>2. a \in 0 .. table /\ a \in 0 .. MaxVersions
      BY <1>1, <2>1, LiveTradesAssumption DEF IInv, AnswersAreRead
    <2>3. view' = [view EXCEPT !.shown = a, !.missed = late]
      BY <1>6 DEF Returns
    <2>4. /\ view' \in LiveView /\ view'.shown = a /\ view'.missed = late
          /\ view'.frames = view.frames /\ view'.socket = view.socket
      <3>1. late \in BOOLEAN
        OBVIOUS
      <3> HIDE DEF late, a
      <3>2. QED BY <1>1, <2>2, <2>3, <3>1 DEF LiveView
    <2>5. LiveShowsWrites'
      BY <1>2, <1>3, <2>2, <2>4 DEF IInv, LiveShowsWrites
    <2>6. NothingMissed'
      <3> SUFFICES ASSUME ~late
                   PROVE  /\ view.frames # <<>> => UpToDate(view.frames[Len(view.frames)])
                          /\ view.frames = <<>> => UpToDate(a)
        BY <1>4, <2>4 DEF NothingMissed, UpToDate
      <3>1. view.shown <= a
        BY <1>1, <2>2 DEF LiveView
      <3>2. QED BY <2>1, <3>1 DEF IInv, NothingMissed
    <2>7. QED BY <1>1, <1>2, <1>3, <1>5, <2>4, <2>5, <2>6, LivePageStep
  <1>7. CASE Returns(c, "failed", [view EXCEPT !.missed = TRUE])
    <2>1. view' = [view EXCEPT !.missed = TRUE]
      BY <1>7 DEF Returns
    <2>2. /\ view' \in LiveView /\ view'.shown = view.shown /\ view'.missed
          /\ view'.frames = view.frames /\ view'.socket = view.socket
      BY <1>1, <2>1 DEF LiveView
    <2>3. LiveShowsWrites'
      BY <1>2, <1>3, <2>2 DEF IInv, LiveShowsWrites
    <2>4. NothingMissed'
      BY <2>2 DEF NothingMissed
    <2>5. QED BY <1>1, <1>2, <1>3, <1>5, <2>2, <2>3, <2>4, LivePageStep
  <1>8. QED BY <1>6, <1>7

\* While the load has yet to read the table, there is no answer, and the page
\* has a request.
LEMMA LoadAheadAlone ==
  ASSUME IInv, page = "live", LoadAhead
  PROVE  Answers = {} /\ ~\A c \in Calls : ~calls[c].mounted
  BY DEF LoadAhead, Answers, IInv, LiveShowsWrites

\* A step of the backend that the page does not hear of: the latest write is
\* still to be broadcast, or the load will read it, or nothing changes for a page
\* that had missed nothing, or the page has missed something.
LEMMA BackendStep ==
  ASSUME IInv, NEW late, page = "live" => late \in BOOLEAN,
         UNCHANGED UnchangedSessionBut, UNCHANGED row, view' = Marked(late),
         table' \in 0 .. MaxVersions, table <= table', unsent' \subseteq 1 .. table',
         page = "live" =>
           \/ late
           \/ table' \in unsent'
           \/ LoadAhead /\ view.frames = <<>>
           \/ ~view.missed /\ table' = table /\ (table \in unsent => table \in unsent')
  PROVE  IInv'
  <1> USE DEF UnchangedSessionBut
  <1>1. /\ table \in Nat /\ table' \in Nat /\ failures' \in 0 .. MaxFailures
        /\ 1 .. table \subseteq 1 .. table' /\ 0 .. table \subseteq 0 .. table'
    BY LiveTradesAssumption DEF IInv, TypeOK, LiveTypeOK, SessionTypeOK
  <1>2. Answers' = Answers
    BY DEF Answers
  <1>3. AnswersAreRead'
    BY <1>1, <1>2 DEF IInv, AnswersAreRead
  <1>4. CASE page # "live"
    <2>1. view' = view
      BY <1>4 DEF Marked
    <2>2. SessionTypeOK' /\ PolledTypeOK' /\ LiveTypeOK' /\ PagesAreApart'
      BY <1>4, <2>1 DEF IInv, TypeOK, SessionTypeOK, PolledTypeOK, LiveTypeOK, PagesAreApart
    <2>3. LiveShowsWrites' /\ NothingMissed'
      BY <1>4 DEF LiveShowsWrites, NothingMissed
    <2>4. QED BY <1>3, <2>2, <2>3 DEF IInv, TypeOK
  <1>5. CASE page = "live"
    <2>1. view' = [view EXCEPT !.missed = late] /\ view \in LiveView
      BY <1>5 DEF Marked, IInv, TypeOK, LiveTypeOK
    <2>2. /\ view' \in LiveView /\ view'.frames = view.frames /\ view'.missed = late
          /\ view'.shown = view.shown /\ view'.socket = view.socket
      BY <1>5, <2>1 DEF LiveView
    <2>3. LiveShowsWrites'
      <3>1. /\ view.shown \in 0 .. table /\ view.frames \in Seq(1 .. table)
            /\ view.frames # <<>> => view.socket = "open"
            /\ \A c, d \in Calls : calls[c].mounted /\ calls[d].mounted => c = d
        BY <1>5 DEF IInv, LiveShowsWrites
      <3>2. view.frames \in Seq(1 .. table')
        BY <1>1, <3>1, SeqMonotonic
      <3>3. QED BY <1>1, <2>2, <3>1, <3>2 DEF LiveShowsWrites
    <2>4. NothingMissed'
      <3>1. CASE late
        BY <2>2, <3>1 DEF NothingMissed
      <3>2. CASE table' \in unsent'
        BY <3>2 DEF NothingMissed, UpToDate
      <3>3. CASE LoadAhead /\ view.frames = <<>>
        BY <1>2, <1>5, <2>2, <3>3, LoadAheadAlone DEF NothingMissed
      <3>4. CASE ~view.missed /\ table' = table /\ (table \in unsent => table \in unsent')
        <4>1. \A v : UpToDate(v) => UpToDate(v)'
          BY <3>4 DEF UpToDate
        <4>2. /\ view.frames # <<>> => UpToDate(view.frames[Len(view.frames)])
              /\ view.frames = <<>> =>
                   /\ \A c \in Answers : view.shown <= calls[c].answer =>
                                           UpToDate(calls[c].answer)
                   /\ (\A c \in Calls : ~calls[c].mounted) => UpToDate(view.shown)
          BY <1>5, <3>4 DEF IInv, NothingMissed
        <4>3. QED BY <1>2, <2>2, <4>1, <4>2 DEF NothingMissed, UpToDate
      <3>5. QED BY <1>5, <3>1, <3>2, <3>3, <3>4
    <2>5. QED BY <1>1, <1>3, <1>5, <2>2, <2>3, <2>4, LivePageStep DEF IInv
  <1>6. QED BY <1>4, <1>5

LEMMA WriteOrderInv ==
  ASSUME IInv, WriteOrder, UNCHANGED row PROVE IInv'
  <1>1. /\ table \in Nat /\ table' \in 0 .. MaxVersions /\ table <= table'
        /\ unsent' \subseteq 1 .. table' /\ table' \in unsent'
    BY LiveTradesAssumption DEF IInv, TypeOK, LiveTypeOK, WriteOrder
  <1>2. view' = Marked(FALSE) /\ UNCHANGED UnchangedSessionBut
    BY DEF WriteOrder
  <1>3. QED BY <1>1, <1>2, BackendStep

LEMMA CreatePendingInv ==
  ASSUME IInv, CreatePending, UNCHANGED row PROVE IInv'
  <1>1. /\ table = 0 /\ table' \in 0 .. MaxVersions /\ table <= table'
        /\ unsent' \subseteq 1 .. table'
    BY LiveTradesAssumption DEF IInv, TypeOK, LiveTypeOK, CreatePending
  <1>2. page = "live" => view.frames = <<>>
    <2>1. 1 .. table = {}
      BY <1>1
    <2>2. page = "live" => view.frames \in Seq(1 .. table)
      BY DEF IInv, LiveShowsWrites
    <2>3. \A q \in Seq({}) : q = <<>>
      BY EmptySeq
    <2>4. QED BY <2>1, <2>2, <2>3
  <1>3. view' = Marked(~LoadAhead) /\ UNCHANGED UnchangedSessionBut
    BY DEF CreatePending
  <1>4. (~LoadAhead) \in BOOLEAN
    OBVIOUS
  <1>5. QED BY <1>1, <1>2, <1>3, <1>4, BackendStep

\* A broadcast that this page does not receive, one that is not made included.
LEMMA NotReceivedInv ==
  ASSUME IInv, NEW v \in unsent, unsent' = unsent \ {v}, UNCHANGED table,
         view' = Marked(view.missed \/ Unheard(v)),
         UNCHANGED UnchangedSessionBut, UNCHANGED row
  PROVE  IInv'
  <1> DEFINE late == view.missed \/ Unheard(v)
  <1>1. /\ table \in Nat /\ table' \in 0 .. MaxVersions /\ table <= table'
        /\ unsent' \subseteq 1 .. table'
    BY LiveTradesAssumption DEF IInv, TypeOK, LiveTypeOK
  <1>2. page = "live" => view.missed \in BOOLEAN
    BY DEF IInv, TypeOK, LiveTypeOK, LiveView
  <1>3. page = "live" => late \in BOOLEAN
    BY <1>2
  <1>4. \/ late
        \/ LoadAhead /\ view.frames = <<>>
        \/ ~view.missed /\ table' = table /\ (table \in unsent => table \in unsent')
    BY DEF Unheard
  <1> HIDE DEF late
  <1>5. view' = Marked(late)
    BY DEF late
  <1>6. QED BY <1>1, <1>3, <1>4, <1>5, BackendStep

LEMMA BroadcastLostInv ==
  ASSUME IInv, NEW v \in unsent, BroadcastLost(v), UNCHANGED row PROVE IInv'
  BY NotReceivedInv DEF BroadcastLost

\* A broadcast that the page receives.
LEMMA ReceivedInv ==
  ASSUME IInv, NEW v \in unsent, Broadcast(v), page = "live", view.socket = "open",
         UNCHANGED row
  PROVE  IInv'
  <1> USE DEF Broadcast, UnchangedSessionBut
  <1>1. /\ table \in Nat /\ table \in 0 .. MaxVersions /\ v \in 1 .. table
        /\ v \in 1 .. MaxVersions
        /\ unsent' \subseteq 1 .. table' /\ table' = table
        /\ view \in LiveView /\ failures' \in 0 .. MaxFailures
    BY LiveTradesAssumption DEF IInv, TypeOK, LiveTypeOK, SessionTypeOK
  <1>2. /\ view.shown \in 0 .. table /\ view.frames \in Seq(1 .. table)
        /\ view.frames # <<>> => view.socket = "open"
        /\ \A c, d \in Calls : calls[c].mounted /\ calls[d].mounted => c = d
    BY DEF IInv, LiveShowsWrites
  <1>3. Answers' = Answers
    BY DEF Answers
  <1>4. AnswersAreRead'
    BY <1>3 DEF IInv, AnswersAreRead
  <1> DEFINE q == Append(view.frames, v)
             late == view.missed \/ Overtaken(v)
  <1>5. view' = [view EXCEPT !.frames = q, !.missed = late]
    OBVIOUS
  <1>6. /\ q \in Seq(1 .. table) /\ q \in Seq(1 .. MaxVersions)
        /\ Len(q) \in Nat \ {0} /\ q[Len(q)] = v
    <2>1. view.frames \in Seq(1 .. MaxVersions)
      BY <1>1 DEF LiveView
    <2>2. /\ q \in Seq(1 .. table) /\ Len(q) = Len(view.frames) + 1
          /\ q[Len(view.frames) + 1] = v
      BY <1>1, <1>2, AppendProperties
    <2>3. q \in Seq(1 .. MaxVersions)
      BY <1>1, <2>1, AppendProperties
    <2>4. Len(view.frames) \in Nat
      BY <1>2, LenProperties
    <2>5. QED BY <2>2, <2>3, <2>4
  <1>7. q # <<>>
    BY <1>6, EmptySeq
  <1>8. /\ view' \in LiveView /\ view'.frames = q /\ view'.missed = late
        /\ view'.shown = view.shown /\ view'.socket = "open"
    <2>1. late \in BOOLEAN
      BY <1>1 DEF LiveView
    <2> HIDE DEF late, q
    <2>2. QED BY <1>1, <1>5, <1>6, <2>1 DEF LiveView
  <1> HIDE DEF q
  <1>9. LiveShowsWrites'
    BY <1>1, <1>2, <1>6, <1>8 DEF LiveShowsWrites
  <1>10. NothingMissed'
    <2> SUFFICES ASSUME ~late PROVE UpToDate(v)'
      BY <1>6, <1>7, <1>8 DEF NothingMissed, UpToDate
    <2>1. v = table \/ (table \in unsent /\ table # v)
      BY <1>1 DEF Overtaken
    <2>2. QED BY <1>1, <2>1 DEF UpToDate
  <1>11. QED BY <1>1, <1>4, <1>8, <1>9, <1>10, LivePageStep DEF IInv

LEMMA BroadcastInv ==
  ASSUME IInv, NEW v \in unsent, Broadcast(v), UNCHANGED row PROVE IInv'
  <1>1. CASE page = "live" /\ view.socket = "open"
    BY <1>1, ReceivedInv
  <1>2. CASE ~(page = "live" /\ view.socket = "open")
    BY <1>2, NotReceivedInv DEF Broadcast
  <1>3. QED BY <1>1, <1>2

\* A step of the socket that brings nothing.
LEMMA SocketStep ==
  ASSUME IInv, page = "live", UNCHANGED <<token, isAuthenticated, signIn, expired, page, calls>>,
         failures' \in 0 .. MaxFailures, UNCHANGED liveVars, UNCHANGED row,
         view' \in LiveView, view'.shown = view.shown,
         \/ view'.frames = view.frames /\ view'.missed = view.missed
         \/ view'.frames = <<>> /\ (~view'.missed => ~view.missed /\ LoadAhead),
         view'.frames # <<>> => view'.socket = "open"
  PROVE  IInv'
  <1> USE DEF liveVars
  <1>1. /\ table' \in 0 .. MaxVersions /\ unsent' \subseteq 1 .. table'
        /\ Answers' = Answers
    BY DEF IInv, TypeOK, LiveTypeOK, Answers
  <1>2. AnswersAreRead'
    BY <1>1 DEF IInv, AnswersAreRead
  <1>3. LiveShowsWrites'
    <2>1. <<>> \in Seq(1 .. table)
      BY EmptySeq
    <2>2. QED BY <2>1 DEF IInv, LiveShowsWrites
  <1>4. NothingMissed'
    <2>1. CASE view'.frames = view.frames /\ view'.missed = view.missed
      BY <1>1, <2>1 DEF IInv, NothingMissed, UpToDate
    <2>2. CASE view'.frames = <<>> /\ (~view'.missed => ~view.missed /\ LoadAhead)
      BY <1>1, <2>2, LoadAheadAlone DEF NothingMissed
    <2>3. QED BY <2>1, <2>2
  <1>5. QED BY <1>1, <1>2, <1>3, <1>4, LivePageStep DEF IInv

LEMMA SocketInv ==
  ASSUME IInv, SocketOpens \/ SocketDrops \/ Reconnect, UNCHANGED row PROVE IInv'
  <1>1. /\ page = "live" /\ failures \in 0 .. MaxFailures /\ view \in LiveView
        /\ view.frames # <<>> => view.socket = "open"
        /\ <<>> \in Seq(1 .. MaxVersions)
    BY EmptySeq DEF IInv, TypeOK, SessionTypeOK, LiveTypeOK, LiveShowsWrites,
                    SocketOpens, SocketDrops, Reconnect
  <1>2. CASE SocketOpens
    <2>1. /\ view' \in LiveView /\ view'.shown = view.shown
          /\ view'.frames = view.frames /\ view'.missed = view.missed
          /\ view.frames = <<>>
      BY <1>1, <1>2 DEF SocketOpens, LiveView
    <2>2. QED BY <1>1, <1>2, <2>1, SocketStep DEF SocketOpens, UnchangedSessionBut
  <1>3. CASE Reconnect
    <2>1. /\ view' \in LiveView /\ view'.shown = view.shown
          /\ view'.frames = view.frames /\ view'.missed = view.missed
          /\ view.frames = <<>>
      BY <1>1, <1>3 DEF Reconnect, LiveView
    <2>2. QED BY <1>1, <1>3, <2>1, SocketStep DEF Reconnect, UnchangedSessionBut
  <1>4. CASE SocketDrops
    <2> DEFINE late == view.missed \/ (view.frames # <<>> /\ ~LoadAhead)
    <2>1. view' = [view EXCEPT !.socket = "closed", !.frames = <<>>, !.missed = late]
      BY <1>4 DEF SocketDrops
    <2>2. /\ view' \in LiveView /\ view'.shown = view.shown
          /\ view'.frames = <<>> /\ view'.missed = late
      <3>1. late \in BOOLEAN
        BY <1>1 DEF LiveView
      <3> HIDE DEF late
      <3>2. QED BY <1>1, <2>1, <3>1 DEF LiveView
    <2>3. \/ view'.frames = view.frames /\ view'.missed = view.missed
          \/ view'.frames = <<>> /\ (~view'.missed => ~view.missed /\ LoadAhead)
      <3>1. CASE view.frames = <<>>
        <4>1. view.missed \in BOOLEAN
          BY <1>1 DEF LiveView
        <4>2. late = view.missed
          BY <3>1, <4>1
        <4>3. QED BY <2>2, <3>1, <4>2
      <3>2. CASE view.frames # <<>>
        BY <2>2, <3>2
      <3>3. QED BY <3>1, <3>2
    <2>4. failures' \in 0 .. MaxFailures
      BY <1>1, <1>4, AdminSessionAssumption DEF SocketDrops
    <2>5. QED BY <1>1, <1>4, <2>2, <2>3, <2>4, SocketStep DEF SocketDrops
  <1>5. QED BY <1>2, <1>3, <1>4

LEMMA MergeFrameInv ==
  ASSUME IInv, MergeFrame, UNCHANGED row PROVE IInv'
  <1> USE DEF MergeFrame, UnchangedSessionBut, liveVars
  <1>1. /\ table \in Nat /\ table \in 0 .. MaxVersions /\ unsent \subseteq 1 .. table
        /\ view \in LiveView /\ failures \in 0 .. MaxFailures /\ page = "live"
    BY LiveTradesAssumption DEF IInv, TypeOK, LiveTypeOK, SessionTypeOK
  <1>2. /\ view.frames \in Seq(1 .. table) /\ view.frames # <<>>
        /\ view.socket = "open"
        /\ \A c, d \in Calls : calls[c].mounted /\ calls[d].mounted => c = d
    BY <1>1 DEF IInv, LiveShowsWrites
  <1> DEFINE q == view.frames
             f == Head(q)
             r == Tail(q)
  <1>3. /\ Len(q) \in Nat \ {0} /\ f \in 1 .. table /\ f = q[1]
        /\ r \in Seq(1 .. table) /\ Len(r) = Len(q) - 1
        /\ \A i \in 1 .. Len(r) : r[i] = q[i + 1]
    <2>1. Head(q) = q[1]
      OBVIOUS
    <2>2. QED BY <1>2, <2>1, HeadTailProperties, EmptySeq
  <1>4. view' = [view EXCEPT !.shown = f, !.frames = r]
    OBVIOUS
  <1>5. /\ view' \in LiveView /\ view'.shown = f /\ view'.frames = r
        /\ view'.missed = view.missed /\ view'.socket = "open"
    <2>1. r \in Seq(1 .. MaxVersions)
      BY <1>1, <1>2, HeadTailProperties DEF LiveView
    <2>2. f \in 0 .. MaxVersions
      BY <1>1, <1>3, LiveTradesAssumption
    <2> HIDE DEF f, r, q
    <2>3. QED BY <1>1, <1>2, <1>4, <2>1, <2>2 DEF LiveView
  <1>6. Answers' = Answers
    BY DEF Answers
  <1>7. AnswersAreRead'
    BY <1>6 DEF IInv, AnswersAreRead
  <1>8. LiveShowsWrites'
    <2>1. f \in 0 .. table
      BY <1>1, <1>3
    <2> HIDE DEF f, r, q
    <2>2. QED BY <1>2, <1>3, <1>5, <2>1 DEF LiveShowsWrites
  <1>9. NothingMissed'
    <2> SUFFICES ASSUME ~view.missed
                 PROVE  /\ r # <<>> => UpToDate(r[Len(r)])
                        /\ r = <<>> =>
                             /\ \A c \in Answers : f <= calls[c].answer =>
                                                    UpToDate(calls[c].answer)
                             /\ UpToDate(f)
      <3> HIDE DEF f, r, q
      <3>1. QED BY <1>5, <1>6 DEF NothingMissed, UpToDate
    <2>1. UpToDate(q[Len(q)])
      BY <1>1, <1>2 DEF IInv, NothingMissed
    <2> HIDE DEF f, r, q
    <2>2. ASSUME r # <<>> PROVE UpToDate(r[Len(r)])
      <3>1. Len(r) \in Nat \ {0}
        BY <1>3, <2>2, EmptySeq
      <3>2. r[Len(r)] = q[Len(q)]
        BY <1>3, <3>1
      <3>3. QED BY <2>1, <3>2
    <2>3. ASSUME r = <<>> PROVE UpToDate(f)
      <3>1. Len(q) = 1
        <4>1. Len(r) = 0
          BY <2>3, EmptySeq
        <4>2. QED BY <1>3, <4>1
      <3>2. f = q[Len(q)]
        BY <1>3, <3>1
      <3>3. QED BY <2>1, <3>2
    <2>4. ASSUME r = <<>>, NEW c \in Answers, f <= calls[c].answer
          PROVE  UpToDate(calls[c].answer)
      <3>1. UpToDate(f)
        BY <2>3, <2>4
      <3>2. calls[c].answer \in 0 .. table
        BY <1>1 DEF IInv, AnswersAreRead
      <3>3. QED BY <1>1, <1>3, <2>4, <3>1, <3>2 DEF UpToDate
    <2>5. QED BY <2>2, <2>3, <2>4
  <1>10. QED BY <1>1, <1>5, <1>7, <1>8, <1>9, LivePageStep DEF IInv

(***************************************************************************)
(* The theorems.                                                           *)
(***************************************************************************)
LEMMA NextInv == IInv /\ [Next]_vars => IInv'
  <1> SUFFICES ASSUME IInv, [Next]_vars PROVE IInv'
    OBVIOUS
  <1>1. CASE UNCHANGED vars
    <2>1. UNCHANGED <<token, isAuthenticated, signIn, expired, page, view, calls, failures>>
          /\ UNCHANGED <<row, liveVars>>
      BY <1>1 DEF vars, sessionVars
    <2>2. failures' \in 0 .. MaxFailures /\ Answers' = Answers
      BY <2>1 DEF IInv, TypeOK, SessionTypeOK, Answers
    <2>3. QED BY <2>1, <2>2, RequestStep DEF IInv
  <1>2. ASSUME \/ SubmitLogin \/ LoginArrives \/ Logout \/ TokenExpires
               \/ \E c \in Calls : \/ CallFails(c) \/ Unauthorized(c) \/ ServeUnmounted(c)
                                   \/ UnmountedReturns(c),
               UNCHANGED <<row, liveVars>>
        PROVE  IInv'
    BY <1>2, SubmitLoginInv, LoginArrivesInv, LogoutInv, TokenExpiresInv, CallFailsInv,
       UnauthorizedInv, ServeUnmountedInv, UnmountedReturnsInv
  <1>3. ASSUME PolledStep, UNCHANGED liveVars PROVE IInv'
    BY <1>3, OpenPolledInv, RowChangesInv, PollInv, ServePollInv, PollReturnsInv DEF PolledStep
  <1>4. ASSUME LiveStep, UNCHANGED row PROVE IInv'
    <2>1. ASSUME NEW v \in unsent, Broadcast(v) \/ BroadcastLost(v) PROVE IInv'
      BY <1>4, <2>1, BroadcastInv, BroadcastLostInv
    <2>2. QED BY <1>4, <2>1, OpenLiveInv, ServeLoadInv, LoadReturnsInv, WriteOrderInv,
                 CreatePendingInv, SocketInv, MergeFrameInv DEF LiveStep
  <1>5. QED BY <1>1, <1>2, <1>3, <1>4 DEF Next

LEMMA CurrentUnlessMissed == IInv => LiveIsCurrentUnlessMissed
  <1> SUFFICES ASSUME IInv, page = "live", ~view.missed, unsent = {}, view.frames = <<>>,
                      \A c \in Calls : ~calls[c].mounted
               PROVE  view.shown = table
    BY DEF LiveIsCurrentUnlessMissed
  <1>1. UpToDate(view.shown)
    BY DEF IInv, NothingMissed
  <1>2. QED BY <1>1 DEF UpToDate

\* The invariant holds throughout.
THEOREM DashboardInvariance == Spec => []IInv
  BY InitInv, NextInv, PTL DEF Spec

\* Session, requests, pages and the rows they show keep their types.
THEOREM DashboardTypes == Spec => []TypeOK
  BY DashboardInvariance, PTL DEF IInv

\* A Live Trades page that has handled what it was sent shows the status of the
\* row as it is, unless since the latest write (TradesPage.tsx, ws.ts,
\* adminWsGateway.ts, copyEngine.ts) that write was not broadcast at all or while
\* the socket was not open, frames were lost, an older broadcast came later, a load
\* overwrote something newer, or the load failed.
THEOREM LiveIsCurrent == Spec => []LiveIsCurrentUnlessMissed
  BY DashboardInvariance, CurrentUnlessMissed, PTL
=============================================================================
