----------------------------- MODULE LiveTrades -----------------------------
(***************************************************************************)
(* The Live Trades page (frontend/src/pages/TradesPage.tsx over            *)
(* lib/ws.ts), GET /api/copy-orders and the broadcasts to the dashboards   *)
(* (backend/src/modules/realtime/adminWsGateway.ts) that follow the writes *)
(* of a copy_orders row, most of them.                                     *)
(*                                                                         *)
(* One row is enough: the page handles each by itself.  Its writes are     *)
(* numbered, 0 is a row that does not exist.  The number stands for the    *)
(* status that the write leaves, which its broadcast repeats; it does not  *)
(* stand for the ticket and the reason, which some broadcasts leave out.   *)
(***************************************************************************)
EXTENDS AdminSession, Sequences

CONSTANT MaxVersions  \* bound on writes of the row

ASSUME LiveTradesAssumption == MaxVersions \in Nat

VARIABLES
  table,   \* the row in copy_orders
  unsent   \* writes whose broadcast is still to come

liveVars == <<table, unsent>>

\* missed is history: since the latest write something happened for which the
\* page may be without it.
LiveView == [shown : 0 .. MaxVersions, socket : {"connecting", "open", "closed"},
             frames : Seq(1 .. MaxVersions), missed : BOOLEAN]

LiveTypeOK ==
  /\ table \in 0 .. MaxVersions
  /\ unsent \subseteq 1 .. table
  /\ page = "live" => view \in LiveView

LiveInit == table = 0 /\ unsent = {}

UnchangedSessionBut == <<token, isAuthenticated, signIn, expired, page, calls, failures>>

\* The page loads the table and connects.
OpenLive(c) ==
  /\ isAuthenticated /\ page # "live"
  /\ page' = "live"
  /\ view' = [shown |-> 0, socket |-> "connecting", frames |-> <<>>, missed |-> FALSE]
  /\ calls[c].phase = "idle"
  /\ calls' = [Unmounted EXCEPT ![c] = NewCall]
  /\ UNCHANGED <<token, isAuthenticated, signIn, expired, failures>>
  /\ UNCHANGED liveVars

(***************************************************************************)
(* loadInitial: what it read replaces the rows, newer broadcasts included. *)
(***************************************************************************)
ServeLoad(c) ==
  /\ page = "live" /\ calls[c].mounted
  /\ Serve(c, table)
  /\ UNCHANGED liveVars

LoadReturns(c) ==
  /\ page = "live"
  /\ \/ Returns(c, "answered",
          [view EXCEPT !.shown = calls[c].answer,
                       !.missed = @ \/ calls[c].answer < view.shown])
     \/ Returns(c, "failed", [view EXCEPT !.missed = TRUE])
  /\ UNCHANGED liveVars

(***************************************************************************)
(* The backend: a write, and the broadcast after it has been awaited.      *)
(***************************************************************************)
\* The page's load has yet to read the table.
LoadAhead == \E c \in Calls : calls[c].mounted /\ calls[c].phase = "sent"

\* The page hears of v, the latest write, neither now nor from its load, or an
\* older broadcast on its way replaces what the load brings.
Unheard(v) == v = table /\ (LoadAhead => view.frames # <<>>)

\* The latest write has been broadcast, or never will be, before this one.
Overtaken(v) == v < table /\ table \notin unsent

Marked(missed) == IF page = "live" THEN [view EXCEPT !.missed = missed] ELSE view

\* Mutant: a status is written and not broadcast.
WriteSilently ==
  /\ table < MaxVersions
  /\ table' = table + 1
  /\ view' = Marked(FALSE)
  /\ UNCHANGED unsent
  /\ UNCHANGED UnchangedSessionBut

\* Nothing missed before matters after it.
WriteOrder ==
  /\ table < MaxVersions
  /\ table' = table + 1
  /\ unsent' = unsent \cup {table + 1}
  /\ view' = Marked(FALSE)
  /\ UNCHANGED UnchangedSessionBut

\* The PENDING row that copyToSlave inserts: for an MT5 Slave it is not
\* broadcast, nor for an MT4 Slave that turns out to be offline.
CreatePending ==
  /\ table = 0 /\ table < MaxVersions
  /\ table' = 1
  /\ view' = Marked(~LoadAhead)
  /\ UNCHANGED unsent
  /\ UNCHANGED UnchangedSessionBut

Broadcast(v) ==
  /\ v \in unsent
  /\ unsent' = unsent \ {v}
  /\ view' = IF page = "live" /\ view.socket = "open"
             THEN [view EXCEPT !.frames = Append(@, v), !.missed = @ \/ Overtaken(v)]
             ELSE Marked(view.missed \/ Unheard(v))
  /\ UNCHANGED table
  /\ UNCHANGED UnchangedSessionBut

\* The backend stops between the write and the broadcast (its sockets drop as
\* well), or the reply of the write is lost and the call ends.
BroadcastLost(v) ==
  /\ v \in unsent
  /\ unsent' = unsent \ {v}
  /\ view' = Marked(view.missed \/ Unheard(v))
  /\ UNCHANGED table
  /\ UNCHANGED UnchangedSessionBut

(***************************************************************************)
(* The socket.  A handshake without a valid token ends in a close as well, *)
(* and a close in another attempt.                                         *)
(***************************************************************************)
SocketOpens ==
  /\ page = "live" /\ view.socket = "connecting"
  /\ view' = [view EXCEPT !.socket = IF Authorized(token) THEN "open" ELSE "closed"]
  /\ UNCHANGED liveVars
  /\ UNCHANGED UnchangedSessionBut

SocketDrops ==
  /\ page = "live" /\ view.socket \in {"connecting", "open"}
  /\ failures < MaxFailures
  /\ failures' = failures + 1
  /\ view' = [view EXCEPT !.socket = "closed", !.frames = <<>>,
                          !.missed = @ \/ (view.frames # <<>> /\ ~LoadAhead)]
  /\ UNCHANGED liveVars
  /\ UNCHANGED <<token, isAuthenticated, signIn, expired, page, calls>>

Reconnect ==
  /\ page = "live" /\ view.socket = "closed"
  /\ view' = [view EXCEPT !.socket = "connecting"]
  /\ UNCHANGED liveVars
  /\ UNCHANGED UnchangedSessionBut

\* useAdminTradeFeed's callback: the row is replaced, or put in front.
MergeFrame ==
  /\ page = "live" /\ view.frames # <<>>
  /\ view' = [view EXCEPT !.shown = Head(view.frames), !.frames = Tail(@)]
  /\ UNCHANGED liveVars
  /\ UNCHANGED UnchangedSessionBut

LiveStep ==
  \/ \E c \in Calls : OpenLive(c) \/ ServeLoad(c) \/ LoadReturns(c)
  \/ WriteOrder \/ CreatePending
  \/ \E v \in unsent : Broadcast(v) \/ BroadcastLost(v)
  \/ SocketOpens \/ SocketDrops \/ Reconnect \/ MergeFrame
=============================================================================
