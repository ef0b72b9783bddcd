-------------------------- MODULE PollCopyInvariant --------------------------
(***************************************************************************)
(* Why PollCopy is safe: an inductive invariant.  A row leaves PENDING     *)
(* before the instruction leaves the backend and never becomes PENDING     *)
(* again; only the poll that the EA waits for can make it execute, and it  *)
(* waits for one that began after its last execution.                      *)
(***************************************************************************)
EXTENDS PollCopy, CopyInvariant

\* The row exists and no risk limit has refused it.
Admitted(c) == Exists(orders, c) /\ orders[c].errorReason # "RISK"

\* It has been handed out, or given up.
Taken(c) == Admitted(c) /\ orders[c].status # "PENDING"

RunOnceTaken ==
  \A c \in Copies :
    /\ attempts[c] <= 1
    /\ attempts[c] > 0 => Taken(c)
    /\ orders[c].status = "PENDING" => orders[c].errorReason # "RISK"

\* A poll handler that has found a row; if it is the one the EA waits for, the
\* copy has not been run.
HoldsRow(s, k) ==
  LET p == poll[s][k]
  IN  /\ p.copy \in Copies /\ SlaveOf(p.copy) = s
      /\ Admitted(p.copy)
      /\ p.pc = "reply" => Taken(p.copy)
      /\ p.pc \in {"mark", "reply"} => Entitled(p.copy, p.slaveTicket)
      /\ ea[s].awaits = k => attempts[p.copy] = 0

PollsSound ==
  \A s \in Slaves, k \in Slots :
    poll[s][k].pc \in {"lookup", "fail", "mark", "reply"} => HoldsRow(s, k)

\* What may be executed.
Executable(s) ==
  {i \in Instruction : /\ SlaveOf(i.copy) = s
                       /\ Taken(i.copy)
                       /\ Entitled(i.copy, i.slaveTicket)
                       /\ attempts[i.copy] = 0}

Posting(s) == ea[s].busy \in {"posting", "awaiting", "refused"}

EASound(s) ==
  /\ ea[s].awaits # NoSlot => ea[s].busy = "polling"
  /\ ea[s].busy = "executing" => ea[s].instruction \in Executable(s)

EAsSound == \A s \in Slaves : EASound(s)

\* Every result an EA is posting or keeps for a retry is in P.
Carries(P) ==
  /\ retryQueue \in [Slaves -> Seq(Waiting(P))]
  /\ \A s \in Slaves :
       /\ Len(retryQueue[s]) <= MaxQueue
       /\ Posting(s) => ea[s].result \in P /\ ea[s].from \in 0..Len(retryQueue[s])

HonestResults == {r \in Result : Honest(r)}

ResultsHonest == Carries(HonestResults)

BackendInv == JobsInOrder /\ RecordingsHonest /\ RowsHonest

TransportInv == RunOnceTaken /\ PollsSound /\ EAsSound /\ ResultsHonest /\ ActedOnEntitled

IInv == TypeOK /\ BackendInv /\ TransportInv

(***************************************************************************)
(* Everything said about a copy names the same ticket, `said`, wherever it *)
(* waits and however often it is repeated.                                 *)
(***************************************************************************)
Says(said, r) == r.slaveTicket = said[r.copy]

SameResults(said) == {r \in Result : Says(said, r)}

Agree(said) ==
  /\ Carries(SameResults(said))
  /\ \A r \in recording : Says(said, r)
  /\ \A c \in Copies : orders[c].slaveTicket \in {NoTicket, said[c]}

ReportsAgree == \E said \in [Copies -> Tickets] : Agree(said)
=============================================================================
