----------------------------- MODULE MCPushCopy -----------------------------
(***************************************************************************)
(* Small instances of PushCopy.  An event is named by its type and its     *)
(* Master ticket.                                                          *)
(***************************************************************************)
EXTENDS PushCopyInvariant

CONSTANTS s1, s2, t1, t2

\* The event names double as the definition of their type and ticket.
Event(type, ticket) == [type |-> type, ticket |-> ticket]

OpenClose == {Event("OPEN", t1), Event("CLOSE", t1)}

\* t2 was open on the Master before the Slave was assigned: nothing is copied
\* of it but its changes.
OpenModifyOther == {Event("OPEN", t1), Event("MODIFY", t1), Event("CLOSE", t2)}

TwoOpens == {Event("OPEN", t1), Event("OPEN", t2)}

MCTypeOf == [e \in Events |-> e.type]
MCTicketOf == [e \in Events |-> e.ticket]
=============================================================================
