------------------------------ MODULE CopyOnce ------------------------------
(***************************************************************************)
(* What copying promises, without the machinery: each copy is entered in   *)
(* the ledger, refused or run at most once on the Slave's terminal, and    *)
(* reported as executed only if it was carried out.  A refusal excludes a  *)
(* run.  A report may be forgotten again (the ledger then shows the copy   *)
(* as under way), but it is never turned into another one.                 *)
(***************************************************************************)
CONSTANTS
  Copies,
  NoTicket,
  MayActOn(_, _)  \* MayActOn(c, t): copy c may act on the position t

VARIABLES
  ledger,  \* "absent", "open", "refused", "executed" or "failed"
  ran,     \* whether the terminal was asked to run the copy
  target   \* the position it acted on, or NoTicket

onceVars == <<ledger, ran, target>>

Init ==
  /\ ledger = [c \in Copies |-> "absent"]
  /\ ran = [c \in Copies |-> FALSE]
  /\ target = [c \in Copies |-> NoTicket]

Enter(c) ==
  /\ ledger[c] = "absent"
  /\ ledger' = [ledger EXCEPT ![c] = "open"]
  /\ UNCHANGED <<ran, target>>

Refuse(c) ==
  /\ ledger[c] \in {"absent", "open"} /\ ~ran[c]
  /\ ledger' = [ledger EXCEPT ![c] = "refused"]
  /\ UNCHANGED <<ran, target>>

Run(c) ==
  /\ ledger[c] = "open" /\ ~ran[c]
  /\ ran' = [ran EXCEPT ![c] = TRUE]
  /\ \E t \in Copies \cup {NoTicket} :
       /\ t # NoTicket => MayActOn(c, t)
       /\ target' = [target EXCEPT ![c] = t]
  /\ UNCHANGED ledger

Report(c) ==
  /\ ledger[c] = "open" /\ ran[c]
  /\ \E outcome \in {"executed", "failed"} :
       /\ outcome = "executed" => target[c] # NoTicket
       /\ ledger' = [ledger EXCEPT ![c] = outcome]
  /\ UNCHANGED <<ran, target>>

Forget(c) ==
  /\ ledger[c] \in {"executed", "failed"}
  /\ ledger' = [ledger EXCEPT ![c] = "open"]
  /\ UNCHANGED <<ran, target>>

Next == \E c \in Copies : Enter(c) \/ Refuse(c) \/ Run(c) \/ Report(c) \/ Forget(c)

Spec == Init /\ [][Next]_onceVars
=============================================================================
