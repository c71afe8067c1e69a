--------------------------- MODULE ToolCallLedger ---------------------------
(***************************************************************************)
(* What Hermes may rely on for the tool calls of a run, whatever requests, *)
(* retries, stops and restarts happen: a call is admitted once, its tool   *)
(* is started at most once, its outcome is written once, a completed call  *)
(* was started, a denied one was not, and everybody who is told an outcome *)
(* is told that one.  HermesTools is shown to implement it.                *)
(***************************************************************************)
EXTENDS Naturals

CONSTANTS Call, Request, None

VARIABLES
  outcome,  \* None, "open", "started", or how the call ended
  starts,   \* how often the tool of each call was started
  told      \* what each request was told

ledger == <<outcome, starts, told>>

Final == {"completed", "denied", "failed", "unknown"}

LedgerInit ==
  /\ outcome = [c \in Call |-> None]
  /\ starts = [c \in Call |-> 0]
  /\ told = [q \in Request |-> None]

Open(c) ==
  /\ outcome[c] = None
  /\ outcome' = [outcome EXCEPT ![c] = "open"]
  /\ UNCHANGED <<starts, told>>

Start(c) ==
  /\ outcome[c] = "open"
  /\ outcome' = [outcome EXCEPT ![c] = "started"]
  /\ starts' = [starts EXCEPT ![c] = @ + 1]
  /\ UNCHANGED told

MayEnd(from, s) ==
  \/ from = "open" /\ s \in {"denied", "failed", "unknown"}
  \/ from = "started" /\ s \in {"completed", "failed", "unknown"}

Conclude(c, s) ==
  /\ MayEnd(outcome[c], s)
  /\ outcome' = [outcome EXCEPT ![c] = s]
  /\ UNCHANGED starts

(* One request at most learns the outcome of its call.                     *)
Tell ==
  \/ UNCHANGED told
  \/ \E q \in Request, c \in Call :
       /\ told[q] = None
       /\ outcome'[c] \in Final
       /\ told' = [told EXCEPT ![q] = <<c, outcome'[c]>>]

(* A restart ends every call in flight.                                    *)
Crash ==
  /\ outcome' = [c \in Call |-> IF outcome[c] \in {"open", "started"}
                               THEN "unknown" ELSE outcome[c]]
  /\ UNCHANGED <<starts, told>>

LedgerNext ==
  \/ \E c \in Call : Open(c) \/ Start(c)
  \/ Tell /\ \/ \E c \in Call, s \in Final : Conclude(c, s)
             \/ UNCHANGED <<outcome, starts>>
  \/ Crash

LedgerSpec == LedgerInit /\ [][LedgerNext]_ledger
=============================================================================
