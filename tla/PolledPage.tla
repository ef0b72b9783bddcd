----------------------------- MODULE PolledPage -----------------------------
(***************************************************************************)
(* A page of the dashboard that polls (frontend/src/lib/usePolling.ts):    *)
(* every page but Live Trades.  What it shows is whatever one query of the *)
(* backend returns; the answers are numbered in the order in which the     *)
(* database comes to hold them.                                            *)
(***************************************************************************)
EXTENDS AdminSession

CONSTANT MaxRevisions  \* bound on changes of what is shown

ASSUME PolledPageAssumption == MaxRevisions \in Nat

VARIABLE row  \* what the query returns

PolledView == [data : 0 .. MaxRevisions \cup {Nothing}, error : BOOLEAN]

PolledTypeOK ==
  /\ row \in 0 .. MaxRevisions
  /\ page = "polled" => view \in PolledView

PolledInit == row = 0

\* A page starts without data.  (Another polled page starts like the same one
\* does after a visit to Live Trades.)
OpenPolled ==
  /\ isAuthenticated /\ page # "polled"
  /\ page' = "polled" /\ view' = FreshPolled
  /\ calls' = Unmounted
  /\ UNCHANGED <<token, isAuthenticated, signIn, expired, failures, row>>

\* Mutant: no interval.
PollOnce(c) ==
  /\ page = "polled" /\ view.data = Nothing
  /\ Send(c)
  /\ UNCHANGED row

\* On mount, at every interval and after the page's own PATCH; a call does
\* not wait for the one before it.
Poll(c) ==
  /\ page = "polled"
  /\ Send(c)
  /\ UNCHANGED row

ServePoll(c) ==
  /\ page = "polled" /\ calls[c].mounted
  /\ Serve(c, row)
  /\ UNCHANGED row

PollReturns(c) ==
  /\ page = "polled"
  /\ \/ Returns(c, "answered", [data |-> calls[c].answer, error |-> FALSE])
     \/ Returns(c, "failed", [view EXCEPT !.error = TRUE])
  /\ UNCHANGED row

\* The page's own PATCH, another admin's, a heartbeat, a copy.
RowChanges ==
  /\ row < MaxRevisions
  /\ row' = row + 1
  /\ UNCHANGED sessionVars

PolledStep ==
  \/ OpenPolled \/ RowChanges
  \/ \E c \in Calls : Poll(c) \/ ServePoll(c) \/ PollReturns(c)
=============================================================================
