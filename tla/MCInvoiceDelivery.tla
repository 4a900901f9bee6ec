-------------------------- MODULE MCInvoiceDelivery --------------------------
(* Instances of InvoiceDelivery for TLC. *)
EXTENDS InvoiceDelivery, TLC

\* Whether the environment is an orderly one in this behaviour.
VARIABLE orderly

MCVars == <<vars, orderly>>

\* An orderly environment.  A send waits until the earlier delivery is settled
\* and nothing of it is queued, running or about to be retried ...
Settled ==
  /\ ~inv.pending
  /\ \A w \in Workers : worker[w].pc = "idle"
  /\ \A r \in Requests : request[r].pc = "idle"
  /\ \A a \in Attempts : queue[a] = "none"
  /\ cron = 0

SendsApart == (\E r \in Requests : BeginSend(r)) => Settled

\* ... and an attempt that was claimed is over, or its worker dead, within the
\* fifteen minutes the retry cron waits.
ShortAttempts ==
  Tick => \A w \in Workers : worker[w].pc \in {"idle", "claiming"}

\* ... and no fault strikes: the liveness properties promise nothing after one.
OrderlyNext == SendsApart /\ ShortAttempts /\ UNCHANGED faults

MCInit == Init /\ orderly \in BOOLEAN
MCNext == Next /\ (orderly => OrderlyNext) /\ UNCHANGED orderly

MCSpec == MCInit /\ [][MCNext]_MCVars /\ Fairness

\* SendStartsCycle, in an orderly environment: every send gets its first attempt,
\* unless a later one replaces it.
OrderlySendStartsCycle ==
  \A c \in Cycles : (orderly /\ cycle = c) ~> (claims[c][1] > 0 \/ cycle > c)

\* PendingSettles, in an orderly environment: a pending delivery is delivered, opted
\* out of, given up or replaced.
OrderlyPendingSettles ==
  \A c \in Cycles : (orderly /\ cycle = c /\ inv.pending) ~> (~inv.pending \/ cycle > c)
==============================================================================
