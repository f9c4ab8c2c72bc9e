------------------------------- MODULE Outbox -------------------------------
(***************************************************************************)
(* What the rest of the game expects of the Discord notifier (misc/discord *)
(* .cc): messages are accepted in some order, handed to the web service in *)
(* that order and at most once each, and the box closes only when nothing  *)
(* accepted is left behind.  The one exception is a process that dies.     *)
(***************************************************************************)
EXTENDS Naturals, Sequences

CONSTANT Channel   \* the webhooks a message can be meant for

VARIABLES accepted,   \* every message accepted so far, oldest first
          handed,     \* every message handed to the web service, oldest first
          box         \* "open", "closed" or "dead"

outboxVars == <<accepted, handed, box>>

OutboxInit ==
  /\ accepted = <<>>
  /\ handed = <<>>
  /\ box = "open"

(* A caller leaves a message and goes on without waiting for it. *)
Accept(c) ==
  /\ box = "open"
  /\ accepted' = Append(accepted, c)
  /\ UNCHANGED <<handed, box>>

(* The oldest message not handed over yet is handed over. *)
HandOver ==
  /\ box = "open"
  /\ Len(handed) < Len(accepted)
  /\ handed' = Append(handed, accepted[Len(handed) + 1])
  /\ UNCHANGED <<accepted, box>>

(* An orderly end waits for the last message. *)
Close ==
  /\ box = "open"
  /\ handed = accepted
  /\ box' = "closed"
  /\ UNCHANGED <<accepted, handed>>

(* A signal, an abort or a fault ends the process with the box in any state. *)
Die ==
  /\ box = "open"
  /\ box' = "dead"
  /\ UNCHANGED <<accepted, handed>>

OutboxNext == (\E c \in Channel : Accept(c)) \/ HandOver \/ Close \/ Die

OutboxSpec == OutboxInit /\ [][OutboxNext]_outboxVars
=============================================================================
