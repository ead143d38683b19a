-------------------------- MODULE TaskQueueLedger --------------------------
(***************************************************************************)
(* The task queue as an implementation of TaskLedger.  A row is waiting in *)
(* the ledger from its insertion until its turn/start, however often a     *)
(* hold, a deferral or a recovery moves it between pending and processing. *)
(***************************************************************************)
EXTENDS TaskQueue

LedgerEntry(u) ==
  CASE status[u] = "absent"      -> "unseen"
    [] status[u] \in Terminal    -> "settled"
    [] OTHER                     -> IF handed[u] > 0 THEN "handed" ELSE "waiting"

Ledger == INSTANCE TaskLedger
            WITH ledger <- [u \in Updates |-> LedgerEntry(u)], hands <- handed

\* The queue keeps the ledger's promises when Telegram answers, the app-server stays
\* up and no other process touches the database: across any crashes and restarts,
\* updates are taken and handed to Codex in order, each once, and stay settled.
LedgerSpec == Ledger!Spec
============================================================================
