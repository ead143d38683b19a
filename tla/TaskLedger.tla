----------------------------- MODULE TaskLedger -----------------------------
(***************************************************************************)
(* What the task queue promises, with the worker, the rows, the records    *)
(* and the crashes left out: updates are accepted in order, each is handed *)
(* to Codex at most once and oldest first, and each is settled once, which *)
(* is final.  A task may settle without being handed (it failed first).    *)
(***************************************************************************)
EXTENDS Naturals

CONSTANT NumUpdates

Updates == 1..NumUpdates

VARIABLES
  ledger,   \* "unseen", "waiting", "handed" or "settled"
  hands     \* how often each update was handed to Codex

Init ==
  /\ ledger = [u \in Updates |-> "unseen"]
  /\ hands = [u \in Updates |-> 0]

Accept(u) ==
  /\ ledger[u] = "unseen"
  /\ \A v \in Updates : v < u => ledger[v] # "unseen"
  /\ ledger' = [ledger EXCEPT ![u] = "waiting"]
  /\ UNCHANGED hands

Hand(u) ==
  /\ ledger[u] = "waiting"
  /\ hands[u] = 0
  /\ \A v \in Updates : v < u => ledger[v] \notin {"unseen", "waiting"}
  /\ ledger' = [ledger EXCEPT ![u] = "handed"]
  /\ hands' = [hands EXCEPT ![u] = 1]

Settle(u) ==
  /\ ledger[u] \in {"waiting", "handed"}
  /\ ledger' = [ledger EXCEPT ![u] = "settled"]
  /\ UNCHANGED hands

Next == \E u \in Updates : Accept(u) \/ Hand(u) \/ Settle(u)

Spec == Init /\ [][Next]_<<ledger, hands>>
=============================================================================
