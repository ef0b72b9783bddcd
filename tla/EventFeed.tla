------------------------------ MODULE EventFeed ------------------------------
(***************************************************************************)
(* What ingest promises the Copy Engine, and all the Copy Engine may       *)
(* assume: an event is put on the bus at most once, its trade_events row   *)
(* is written after that if at all, and a stored event stays stored.       *)
(* Ingest implements this; CopyEngine's environment behaves like this.     *)
(***************************************************************************)
CONSTANT Events

VARIABLES
  published,  \* events put on the bus
  trade       \* the trade_events table: "none", "due" (being written), "stored"

feedVars == <<published, trade>>

Init ==
  /\ published = {}
  /\ trade = [e \in Events |-> "none"]

Publish(e) ==
  /\ e \notin published
  /\ published' = published \cup {e}
  /\ trade' = [trade EXCEPT ![e] = "due"]

Persist(e) ==
  /\ trade[e] = "due"
  /\ trade' = [trade EXCEPT ![e] = "stored"]
  /\ UNCHANGED published

\* Writes under way fail, or die with the process.
Abandon(es) ==
  /\ \A e \in es : trade[e] = "due"
  /\ trade' = [e \in Events |-> IF e \in es THEN "none" ELSE trade[e]]
  /\ UNCHANGED published

Next ==
  \/ \E e \in Events : Publish(e) \/ Persist(e)
  \/ \E es \in SUBSET Events : Abandon(es)

Spec == Init /\ [][Next]_feedVars
=============================================================================
