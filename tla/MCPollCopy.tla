----------------------------- MODULE MCPollCopy -----------------------------
(***************************************************************************)
(* Small instances of PollCopy.                                            *)
(***************************************************************************)
EXTENDS PollCopy, TLC

CONSTANTS s1, s2, t1, t2, k1, k2

Event(type, ticket) == [type |-> type, ticket |-> ticket]

OpenClose == {Event("OPEN", t1), Event("CLOSE", t1)}

TwoOpensOneClose == OpenClose \cup {Event("OPEN", t2)}

(***************************************************************************)
(* Two positions of the Master, or trouble with one: once the second one   *)
(* is opened the EA is online, nothing times out or fails, and polls do    *)
(* not overlap.                                                            *)
(***************************************************************************)
OneAtATime ==
  handler[Event("OPEN", t2)] # "unpublished" =>
    /\ timeouts = 0 /\ faults = 0
    /\ \A s \in Slaves :
         online[s] /\ \E k \in Slots : \A l \in Slots \ {k} : poll[s][l] = FreePoll

MCTypeOf == [e \in Events |-> e.type]
MCTicketOf == [e \in Events |-> e.ticket]

\* The backend does not tell one request's handler from another's.
SlotSymmetry == Permutations(Slots)
=============================================================================
