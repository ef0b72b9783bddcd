----------------------------- MODULE Dashboard -----------------------------
(***************************************************************************)
(* The admin dashboard: a session, of whose pages one at a time is         *)
(* mounted, with the parts of the backend they talk to.                    *)
(***************************************************************************)
EXTENDS PolledPage, LiveTrades

vars == <<sessionVars, row, liveVars>>

TypeOK == SessionTypeOK /\ PolledTypeOK /\ LiveTypeOK

Init == SessionInit /\ PolledInit /\ LiveInit

Next ==
  \/ /\ \/ SubmitLogin \/ LoginArrives \/ Logout \/ TokenExpires
        \/ \E c \in Calls :
             CallFails(c) \/ Unauthorized(c) \/ ServeUnmounted(c) \/ UnmountedReturns(c)
     /\ UNCHANGED <<row, liveVars>>
  \/ PolledStep /\ UNCHANGED liveVars
  \/ LiveStep /\ UNCHANGED row

(***************************************************************************)
(* The interval timer goes on firing while the page is there, requests are *)
(* answered and their answers handled.  Nothing is assumed of the admin,   *)
(* of the copies or of the socket.                                         *)
(***************************************************************************)
Fairness ==
  /\ WF_vars((\E c \in Calls : Poll(c)) /\ UNCHANGED liveVars)
  /\ \A c \in Calls :
       /\ WF_vars((ServePoll(c) \/ PollReturns(c)) /\ UNCHANGED liveVars)
       /\ WF_vars((Unauthorized(c) \/ ServeUnmounted(c) \/ UnmountedReturns(c))
                    /\ UNCHANGED <<row, liveVars>>)

Spec == Init /\ [][Next]_vars /\ Fairness

(***************************************************************************)
(* Properties.                                                             *)
(***************************************************************************)
\* Polls overlap, answers come in any order, and a stale one replaces a newer
\* one.  Still, a polled page that stays open in a session that lasts ends up
\* showing the row as it is (it changes finitely often).
ViewCatchesUp ==
  <>[](page = "polled" /\ Authorized(token))
    => <>[](page = "polled" => view = [data |-> row, error |-> FALSE])

\* "an expired/invalid token doesn't leave the UI stuck showing stale data":
\* the polls of a page whose token has expired end the session, whatever is
\* still under way and whatever fails, unless the admin leaves for Live Trades.
ExpiredIsNoticed ==
  (page = "polled" /\ token \in expired) ~> (page # "polled")

\* Once every broadcast has been made and handled and the load has returned,
\* the Live Trades page shows the status of the row as it is, unless since the
\* latest write one of six things happened: the write was not broadcast (the
\* PENDING row of an MT5 Slave, or a backend that stopped in between), or was
\* while the socket was not open, frames were lost with the socket, a broadcast
\* of an older write came later, a load overwrote something newer, or the load
\* failed.  What was missed before the latest write does not matter.
LiveIsCurrentUnlessMissed ==
  ( /\ page = "live" /\ ~view.missed
    /\ unsent = {} /\ view.frames = <<>>
    /\ \A c \in Calls : ~calls[c].mounted )
  => view.shown = table
=============================================================================
