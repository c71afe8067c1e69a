---------------------------- MODULE HermesTools ----------------------------
(***************************************************************************)
(* One Hermes run and the tool callbacks Hermes makes for it:              *)
(* plugins/dataclaw-hermes tool_executor.py (admission, idempotency,       *)
(* serialization, approval, execution), the durable records of             *)
(* dataclaw/storage/runtime_runs.py, and of the chat task and the cancel   *)
(* and decision endpoints of dataclaw/api/routers/chat.py what touches the *)
(* same state.                                                             *)
(*                                                                         *)
(* All of it runs on one event loop.  A step is the code between two real  *)
(* suspension points; the store's and the context's idempotency locks      *)
(* guard bodies without an await and are never contended.  The execution   *)
(* lock is held across awaits and is modelled.                             *)
(***************************************************************************)
EXTENDS Naturals, FiniteSets

CONSTANTS
  Call,         \* tool_call_ids Hermes uses in the run
  Request,      \* callback requests, first attempts and retries alike
  Params,       \* argument digests
  MaxRestarts,  \* bound: process restarts
  None

ASSUME CallAssumption    == None \notin Call \cup Request \cup Params
ASSUME RestartAssumption == MaxRestarts \in Nat

VARIABLES
  status,     \* RunState.status of this run
  tracked,    \* the tracker still maps the thread to this run
  successor,  \* status of the run that replaced it on the thread
  stopped,    \* ActiveRunContext.cancel_event
  chat,       \* where the chat task of the run (past its first step) stands
  cancelling, \* agent_cancel is awaiting the runtime inside callback_scope
  runRecord,  \* status in the durable run record
  record,     \* durable tool-call records
  pc,         \* where each request stands
  target,     \* the call a request is about
  lock,       \* holder of ctx.execution_lock
  future,     \* ctx.tool_futures
  prompt,     \* state of the call's approval in guardrail_requests
  decision,   \* guardrail_decisions
  expired,    \* approval waits whose deadline has passed
  answer,     \* what each request was answered
  started,    \* history: how often the tool of a call was invoked
  restarts

runVars   == <<status, tracked, successor, stopped, chat, cancelling, runRecord>>
callVars  == <<record, pc, target, lock, future, answer, started>>
askVars   == <<prompt, decision, expired>>
vars      == <<runVars, callVars, askVars, restarts>>

-----------------------------------------------------------------------------
(* The transition tables *)

RunStatus == {"queued", "running", "waiting_approval", "stopping",
              "completed", "failed", "cancelled", "unknown"}

RunTransitions ==
  [s \in RunStatus |->
     CASE s = "queued"   -> {"running", "failed", "cancelled"}
       [] s = "running"  -> {"waiting_approval", "stopping", "completed",
                             "failed", "cancelled", "unknown"}
       [] s = "waiting_approval" ->
            {"running", "stopping", "failed", "cancelled", "unknown"}
       [] s = "stopping" -> {"completed", "cancelled", "failed", "unknown"}
       [] s = "unknown"  -> {"completed", "failed", "cancelled"}
       [] OTHER          -> {}]

RunTerminal  == {"completed", "failed", "cancelled"}
ToolTerminal == {"completed", "denied", "failed", "unknown"}
ToolState    == {"received", "waiting_approval", "approved", "executing"}
                  \cup ToolTerminal

(* update_run under the callers' try: a transition outside the table (or a *)
(* missing record) leaves the record as it is.                             *)
UpdateRun(s) ==
  runRecord' = IF runRecord # None /\ s \in RunTransitions[runRecord]
               THEN s ELSE runRecord

(* Tracker statuses a callback may still execute under. *)
Executable   == {"running", "waiting_approval"}
TrackerEnded == {"finished", "error", "cancelled"}
TrackerLive  == {"running", "waiting_approval", "stopping"}

NoRecord == [state |-> None, params |-> None]

(* callback_scope: requests inside it keep the lease. *)
Inside   == {"following", "queued", "preparing", "asking", "executing", "posting"}
Leading  == Inside \ {"following"}
Leased   == \/ chat # "ended"
            \/ cancelling
            \/ \E q \in Request : pc[q] \in Inside

Answers == ToolTerminal \cup {"refused", "aborted"}

(* What stands for "nothing yet" is none of the values something can have, *)
(* here or in the ledger.                                                  *)
PromptState == {"pending", "approved", "denied", "timed_out", "cancelled"}

ASSUME NoneAssumption ==
  None \notin RunStatus \cup ToolState \cup Answers \cup PromptState \cup {"open", "started"}

TypeOK ==
  /\ status \in TrackerLive \cup TrackerEnded \cup {"gone"}
  /\ tracked \in BOOLEAN
  /\ successor \in {None} \cup TrackerLive \cup TrackerEnded
  /\ stopped \in BOOLEAN
  /\ chat \in {"starting", "submitting", "streaming", "closing", "ended"}
  /\ cancelling \in BOOLEAN
  /\ runRecord \in {None} \cup RunStatus
  /\ record \in [Call -> {NoRecord} \cup [state: ToolState, params: Params]]
  /\ pc \in [Request -> {"idle", "done"} \cup Inside]
  /\ target \in [Request -> Call \cup {None}]
  /\ lock \in Request \cup {None}
  /\ future \in [Call -> {None, "pending"} \cup ToolTerminal]
  /\ prompt \in [Call -> {None} \cup PromptState]
  /\ decision \in [Call -> {None, "approve", "deny"}]
  /\ expired \subseteq Request
  /\ answer \in [Request -> {None} \cup Answers]
  /\ started \in [Call -> Nat]
  /\ restarts \in 0 .. MaxRestarts

Init ==
  /\ status = "running"
  /\ tracked = TRUE
  /\ successor = None
  /\ stopped = FALSE
  /\ chat = "starting"
  /\ cancelling = FALSE
  /\ runRecord = None
  /\ record = [c \in Call |-> NoRecord]
  /\ pc = [q \in Request |-> "idle"]
  /\ target = [q \in Request |-> None]
  /\ lock = None
  /\ future = [c \in Call |-> None]
  /\ prompt = [c \in Call |-> None]
  /\ decision = [c \in Call |-> None]
  /\ expired = {}
  /\ answer = [q \in Request |-> None]
  /\ started = [c \in Call |-> 0]
  /\ restarts = 0

-----------------------------------------------------------------------------
(* Admission: _load_correlated_context and the first part of               *)
(* _idempotent_execute.  Nothing here suspends.                            *)

Correlated == runRecord # None /\ tracked /\ Leased

Answer(q, c, a) ==
  /\ pc' = [pc EXCEPT ![q] = "done"]
  /\ target' = [target EXCEPT ![q] = c]
  /\ answer' = [answer EXCEPT ![q] = a]

Refuse(q, c, p) ==
  /\ pc[q] = "idle"
  /\ \/ ~Correlated
     \/ record[c] # NoRecord /\ record[c].params # p
     \/ record[c] = NoRecord /\ status \notin Executable
  /\ Answer(q, c, "refused")
  /\ UNCHANGED <<runVars, record, lock, future, started, askVars, restarts>>

(* A terminal record answers every retry. *)
Replay(q, c, p) ==
  /\ pc[q] = "idle"
  /\ Correlated
  /\ record[c].params = p
  /\ record[c].state \in ToolTerminal
  /\ Answer(q, c, record[c].state)
  /\ UNCHANGED <<runVars, record, lock, future, started, askVars, restarts>>

(* A retry of a call in flight shares the leader's future; a record in     *)
(* flight without a future lost its leader and is never retried.           *)
Join(q, c, p) ==
  /\ pc[q] = "idle"
  /\ Correlated
  /\ record[c].params = p
  /\ record[c].state \notin ToolTerminal
  /\ IF future[c] = None
     THEN /\ record' = [record EXCEPT ![c].state = "unknown"]
          /\ Answer(q, c, "unknown")
     ELSE /\ pc' = [pc EXCEPT ![q] = "following"]
          /\ target' = [target EXCEPT ![q] = c]
          /\ UNCHANGED <<record, answer>>
  /\ UNCHANGED <<runVars, lock, future, started, askVars, restarts>>

\* Mutant: a call that failed is admitted again.
Admit_AfterFailure(q, c, p) ==
  /\ pc[q] = "idle"
  /\ Correlated
  /\ record[c].state \in {None, "failed"}
  /\ status \in Executable
  /\ record' = [record EXCEPT ![c] = [state |-> "received", params |-> p]]
  /\ future' = [future EXCEPT ![c] = "pending"]
  /\ pc' = [pc EXCEPT ![q] = "queued"]
  /\ target' = [target EXCEPT ![q] = c]
  /\ UNCHANGED <<runVars, lock, answer, started, askVars, restarts>>

Admit(q, c, p) ==
  /\ pc[q] = "idle"
  /\ Correlated
  /\ record[c] = NoRecord
  /\ status \in Executable
  /\ record' = [record EXCEPT ![c] = [state |-> "received", params |-> p]]
  /\ future' = [future EXCEPT ![c] = "pending"]
  /\ pc' = [pc EXCEPT ![q] = "queued"]
  /\ target' = [target EXCEPT ![q] = c]
  /\ UNCHANGED <<runVars, lock, answer, started, askVars, restarts>>

\* Mutant: a follower does not wait for the leader.
FollowerAnswers_Early(q) ==
  /\ pc[q] = "following"
  /\ Answer(q, target[q], future[target[q]])
  /\ UNCHANGED <<runVars, record, lock, future, started, askVars, restarts>>

(* `return await asyncio.shield(future)' *)
FollowerAnswers(q) ==
  /\ pc[q] = "following"
  /\ future[target[q]] # "pending"
  /\ Answer(q, target[q], future[target[q]])
  /\ UNCHANGED <<runVars, record, lock, future, started, askVars, restarts>>

-----------------------------------------------------------------------------
(* The leader: _execute_leader under the execution lock                    *)

MayExecute == ~stopped /\ status \in Executable

\* Mutant: the shared future is not resolved.
Leave_Unshared(q, s, a) ==
  LET c == target[q] IN
  /\ record' = IF record[c].state \in ToolTerminal THEN record
               ELSE [record EXCEPT ![c].state = s]
  /\ lock' = IF lock = q THEN None ELSE lock
  /\ Answer(q, c, a)
  /\ UNCHANGED future

(* The leader leaves with result s and its request is answered a: the      *)
(* result is stored unless the record is terminal already and shared with  *)
(* the followers; the execution lock is given back.                        *)
Leave(q, s, a) ==
  LET c == target[q] IN
  /\ record' = IF record[c].state \in ToolTerminal THEN record
               ELSE [record EXCEPT ![c].state = s]
  /\ future' = IF future[c] = "pending" THEN [future EXCEPT ![c] = s] ELSE future
  /\ lock' = IF lock = q THEN None ELSE lock
  /\ Answer(q, c, a)

Settle(q, s) == Leave(q, s, s)

\* Mutant: no execution lock.
LockAcquired_Unlocked(q) ==
  /\ pc[q] = "queued"
  /\ IF MayExecute
     THEN /\ lock' = q
          /\ pc' = [pc EXCEPT ![q] = "preparing"]
          /\ UNCHANGED <<record, target, future, answer>>
     ELSE Settle(q, "failed")
  /\ UNCHANGED <<runVars, started, askVars, restarts>>

LockAcquired(q) ==
  /\ pc[q] = "queued"
  /\ lock = None
  /\ IF MayExecute
     THEN /\ lock' = q
          /\ pc' = [pc EXCEPT ![q] = "preparing"]
          /\ UNCHANGED <<record, target, future, answer>>
     ELSE Settle(q, "failed")
  /\ UNCHANGED <<runVars, started, askVars, restarts>>

(* The last gate before the tool is invoked. *)
BeginExecution(q, may) ==
  IF may
  THEN /\ record' = [record EXCEPT ![target[q]].state = "executing"]
       /\ started' = [started EXCEPT ![target[q]] = @ + 1]
       /\ pc' = [pc EXCEPT ![q] = "executing"]
       /\ UNCHANGED <<target, lock, future, answer>>
  ELSE Settle(q, "failed") /\ UNCHANGED started

\* Mutant: no second look at the run after the hooks.
HooksAllow_Unchecked(q) ==
  /\ pc[q] = "preparing"
  /\ UNCHANGED <<runVars, askVars, restarts>>
  /\ BeginExecution(q, TRUE)

(* resolve_tools and the preToolCallHook chain let the call through. *)
HooksAllow(q) ==
  /\ pc[q] = "preparing"
  /\ UNCHANGED <<runVars, askVars, restarts>>
  /\ BeginExecution(q, MayExecute)

(* The tool is unknown or disabled, or a hook raises; or a hook removed    *)
(* the call without asking for approval.                                   *)
HooksRefuse(q, s) ==
  /\ pc[q] = "preparing"
  /\ s \in {"failed", "denied"}
  /\ Settle(q, s)
  /\ UNCHANGED <<runVars, started, askVars, restarts>>

(* RunTracker.transition_run is given the thread, so it acts on whichever  *)
(* run the thread has now; between "running" and "waiting_approval" it     *)
(* goes both ways.                                                         *)
Current == IF tracked THEN status ELSE successor

TransitionThread(s) ==
  IF Current \notin Executable THEN UNCHANGED <<status, successor>>
  ELSE IF tracked THEN status' = s /\ UNCHANGED successor
  ELSE successor' = s /\ UNCHANGED status

HooksAsk(q) ==
  LET c == target[q] IN
  /\ pc[q] = "preparing"
  /\ TransitionThread("waiting_approval")
  /\ IF Current \in Executable
     THEN /\ UpdateRun("waiting_approval")
          /\ record' = [record EXCEPT ![c].state = "waiting_approval"]
          /\ prompt' = [prompt EXCEPT ![c] = "pending"]
          /\ pc' = [pc EXCEPT ![q] = "asking"]
          /\ UNCHANGED <<target, lock, future, answer>>
     ELSE /\ prompt' = [prompt EXCEPT ![c] = "cancelled"]
          /\ Settle(q, "failed")
          /\ UNCHANGED runRecord
  /\ UNCHANGED <<tracked, stopped, chat, cancelling, started, decision,
                 expired, restarts>>

(* The deadline of the approval wait passes before a decision; the waiting *)
(* task resumes later, and by then reports the timeout whatever was        *)
(* decided in between.                                                     *)
ApprovalExpires(q) ==
  /\ pc[q] = "asking"
  /\ decision[target[q]] = None
  /\ expired' = expired \cup {q}
  /\ UNCHANGED <<runVars, callVars, prompt, decision, restarts>>

(* POST /agent/guardrail/{thread}/{approval}: only a pending approval of   *)
(* the thread's current run accepts a decision.                            *)
Decide(c, d) ==
  /\ tracked
  /\ prompt[c] = "pending"
  /\ \E q \in Request : pc[q] = "asking" /\ target[q] = c
  /\ decision' = [decision EXCEPT ![c] = d]
  /\ prompt' = [prompt EXCEPT ![c] = IF d = "approve" THEN "approved" ELSE "denied"]
  /\ UNCHANGED <<runVars, callVars, expired, restarts>>

(* The waiting leader runs again: stop wins over a decision, the deadline  *)
(* wins over a later decision.                                             *)
StopWins(q) ==
  LET c == target[q] IN
  /\ pc[q] = "asking"
  /\ stopped \/ decision[c] # None \/ q \in expired
  /\ ~MayExecute
  /\ prompt' = [prompt EXCEPT ![c] = "cancelled"]
  /\ decision' = [decision EXCEPT ![c] = None]
  /\ Settle(q, "failed")
  /\ UNCHANGED <<runVars, started, expired, restarts>>

\* Mutant: the run is not put back to running.
ResumeRun_Forgotten == UNCHANGED <<status, successor, runRecord>>

ResumeRun ==
  IF status = "waiting_approval"
  THEN TransitionThread("running") /\ UpdateRun("running")
  ELSE UNCHANGED <<status, successor, runRecord>>

\* Mutant: a denied or expired approval falls through to the execution.
ApprovalDenied_FallsThrough(q) ==
  LET c == target[q] IN
  /\ pc[q] = "asking"
  /\ MayExecute
  /\ q \in expired \/ decision[c] = "deny"
  /\ prompt' = [prompt EXCEPT ![c] = IF q \in expired THEN "timed_out" ELSE "denied"]
  /\ decision' = [decision EXCEPT ![c] = None]
  /\ ResumeRun
  /\ BeginExecution(q, TRUE)
  /\ UNCHANGED <<tracked, stopped, chat, cancelling, expired, restarts>>

ApprovalDenied(q) ==
  LET c == target[q] IN
  /\ pc[q] = "asking"
  /\ MayExecute
  /\ q \in expired \/ decision[c] = "deny"
  /\ prompt' = [prompt EXCEPT ![c] = IF q \in expired THEN "timed_out" ELSE "denied"]
  /\ decision' = [decision EXCEPT ![c] = None]
  /\ ResumeRun
  /\ Settle(q, "denied")
  /\ UNCHANGED <<tracked, stopped, chat, cancelling, started, expired, restarts>>

ApprovalGranted(q) ==
  LET c == target[q] IN
  /\ pc[q] = "asking"
  /\ MayExecute
  /\ q \notin expired
  /\ decision[c] = "approve"
  /\ decision' = [decision EXCEPT ![c] = None]
  /\ ResumeRun
  /\ prompt' = [prompt EXCEPT ![c] = IF status = "waiting_approval"
                                    THEN "approved" ELSE "cancelled"]
  /\ BeginExecution(q, status = "waiting_approval")
  /\ UNCHANGED <<tracked, stopped, chat, cancelling, expired, restarts>>

ToolReturns(q) ==
  /\ pc[q] = "executing"
  /\ pc' = [pc EXCEPT ![q] = "posting"]
  /\ UNCHANGED <<runVars, record, target, lock, future, answer, started,
                 askVars, restarts>>

(* postToolCallHook returned: the message is persisted and the result      *)
(* stored; a failing tool or a failing hook stores "failed".               *)
PostHookReturns(q, s) ==
  /\ pc[q] = "posting"
  /\ s \in {"completed", "failed"}
  /\ Settle(q, s)
  /\ UNCHANGED <<runVars, started, askVars, restarts>>

(* The server cancels a callback task. *)
CallbackCancelled(q) ==
  LET c == target[q] IN
  /\ pc[q] \in Inside
  /\ IF pc[q] = "following"
     THEN Answer(q, c, "aborted") /\ UNCHANGED <<record, lock, future>>
     ELSE Leave(q, "unknown", "aborted")
  /\ IF pc[q] = "asking"
     THEN /\ prompt' = [prompt EXCEPT ![c] = "cancelled"]
          /\ decision' = [decision EXCEPT ![c] = None]
     ELSE UNCHANGED <<prompt, decision>>
  /\ UNCHANGED <<runVars, started, expired, restarts>>

-----------------------------------------------------------------------------
(* The chat task: HermesAgentProvider.stream_turn and what _run_agent_loop *)
(* does around it                                                          *)

Terminalize(s) == status' = IF status \in TrackerLive THEN s ELSE status

Submit ==
  /\ chat = "starting"
  /\ status # "stopping"
  /\ chat' = "submitting"
  /\ runRecord' = "running"
  /\ UNCHANGED <<status, tracked, successor, stopped, cancelling, callVars,
                 askVars, restarts>>

(* Hermes accepted the run: from now on a stop also reaches the runtime.   *)
Accepted ==
  /\ chat = "submitting"
  /\ status # "stopping"
  /\ chat' = "streaming"
  /\ UNCHANGED <<status, tracked, successor, stopped, cancelling, runRecord,
                 callVars, askVars, restarts>>

(* Event run.completed: the durable record is closed first; hooks and the  *)
(* final message of the chat loop follow.                                  *)
StreamCompletes ==
  /\ chat = "streaming"
  /\ status # "stopping"
  /\ chat' = "closing"
  /\ UpdateRun("completed")
  /\ UNCHANGED <<status, tracked, successor, stopped, cancelling, callVars,
                 askVars, restarts>>

(* A hook or a provider fails outside the stream, or the closing hooks end *)
(* well: the durable record is not touched.                                *)
ChatEnds(s) ==
  /\ \/ chat = "starting" /\ s = "error"
     \/ chat = "closing" /\ s \in {"error", "finished"}
  /\ status # "stopping"
  /\ chat' = "ended"
  /\ Terminalize(s)
  /\ UNCHANGED <<tracked, successor, stopped, cancelling, runRecord, callVars,
                 askVars, restarts>>

(* The submission fails, run.failed arrives or the stream is lost: the     *)
(* record says what is known, the run fails.                               *)
StreamFails(o) ==
  /\ \/ chat = "submitting" /\ o = "failed"
     \/ chat = "streaming" /\ o \in {"failed", "cancelled", "unknown"}
  /\ status # "stopping"
  /\ chat' = "ended"
  /\ UpdateRun(o)
  /\ Terminalize("error")
  /\ UNCHANGED <<tracked, successor, stopped, cancelling, callVars, askVars,
                 restarts>>

(* CancelledError: from the cancelled task, which sees it at its next      *)
(* step, or raised by the provider for event run.cancelled.                *)
ChatCancelled ==
  /\ \/ status = "stopping" /\ chat # "ended"
     \/ chat = "streaming"
  /\ chat' = "ended"
  /\ IF chat \in {"submitting", "streaming"}
     THEN UpdateRun("cancelled") ELSE UNCHANGED runRecord
  /\ Terminalize("cancelled")
  /\ UNCHANGED <<tracked, successor, stopped, cancelling, callVars, askVars,
                 restarts>>

-----------------------------------------------------------------------------
(* The cancel endpoint, the thread's next run, and the process             *)

(* agent_cancel; one request at a time is in flight.  Until the runtime    *)
(* accepted the run there is nothing to await.                             *)
Stop ==
  /\ tracked
  /\ status \in TrackerLive
  /\ ~cancelling
  /\ status' = "stopping"
  /\ stopped' = IF Leased THEN TRUE ELSE stopped
  /\ IF Leased THEN UpdateRun("stopping") ELSE UNCHANGED runRecord
  /\ cancelling' = (Leased /\ chat \in {"streaming", "closing"})
  /\ UNCHANGED <<tracked, successor, chat, callVars, askVars, restarts>>

\* Mutant: the answer of the runtime is not recorded.
CancelReturns_Unrecorded(o) ==
  /\ cancelling
  /\ o \in {"completed", "failed", "cancelled", "unknown"}
  /\ cancelling' = FALSE
  /\ UNCHANGED <<status, tracked, successor, stopped, chat, runRecord, callVars,
                 askVars, restarts>>

(* The runtime was told and asked: its answer reconciles an open record.   *)
CancelReturns(o) ==
  /\ cancelling
  /\ o \in {"completed", "failed", "cancelled", "unknown"}
  /\ cancelling' = FALSE
  /\ UpdateRun(o)
  /\ UNCHANGED <<status, tracked, successor, stopped, chat, callVars, askVars,
                 restarts>>

(* run_agent replaces a run that is not live; an ended run also expires.   *)
(* After a restart nothing of this run is left that could disturb another. *)
NewRun ==
  /\ Current \notin TrackerLive
  /\ restarts = 0
  /\ successor' = "running"
  /\ tracked' = FALSE
  /\ UNCHANGED <<status, stopped, chat, cancelling, runRecord, callVars,
                 askVars, restarts>>

Forget ==
  /\ tracked
  /\ status \in TrackerEnded
  /\ tracked' = FALSE
  /\ UNCHANGED <<status, successor, stopped, chat, cancelling, runRecord,
                 callVars, askVars, restarts>>

SuccessorEnds ==
  /\ successor \in TrackerLive
  /\ successor' = "finished"
  /\ UNCHANGED <<status, tracked, stopped, chat, cancelling, runRecord,
                 callVars, askVars, restarts>>

(* The process dies and starts again: memory is lost, the callbacks in     *)
(* flight are answered by nobody, and startup closes every open record.    *)
Restart ==
  /\ restarts < MaxRestarts
  /\ restarts' = restarts + 1
  /\ tracked' = FALSE /\ status' = "gone" /\ chat' = "ended"
  /\ stopped' = FALSE /\ cancelling' = FALSE
  /\ successor' = None
  /\ runRecord' = IF runRecord \in RunTerminal \cup {None} THEN runRecord ELSE "failed"
  /\ record' = [c \in Call |->
                  IF record[c] = NoRecord \/ record[c].state \in ToolTerminal
                  THEN record[c] ELSE [record[c] EXCEPT !.state = "unknown"]]
  /\ pc' = [q \in Request |-> IF pc[q] \in Inside THEN "done" ELSE pc[q]]
  /\ answer' = [q \in Request |-> IF pc[q] \in Inside THEN "aborted" ELSE answer[q]]
  /\ lock' = None
  /\ future' = [c \in Call |-> None]
  /\ prompt' = [c \in Call |-> None]
  /\ decision' = [c \in Call |-> None]
  /\ expired' = {}
  /\ UNCHANGED <<target, started>>

-----------------------------------------------------------------------------
Arrive(q) ==
  \E c \in Call, p \in Params :
     Refuse(q, c, p) \/ Replay(q, c, p) \/ Join(q, c, p) \/ Admit(q, c, p)

(* What a callback does once it is inside.                                 *)
Proceed(q) ==
  \/ FollowerAnswers(q)
  \/ LockAcquired(q)
  \/ HooksAllow(q)
  \/ \E s \in {"failed", "denied"} : HooksRefuse(q, s)
  \/ HooksAsk(q)
  \/ ApprovalExpires(q)
  \/ StopWins(q)
  \/ ApprovalDenied(q)
  \/ ApprovalGranted(q)
  \/ ToolReturns(q)
  \/ \E s \in {"completed", "failed"} : PostHookReturns(q, s)

ChatTask ==
  \/ Submit
  \/ Accepted
  \/ StreamCompletes
  \/ \E s \in {"error", "finished"} : ChatEnds(s)
  \/ \E o \in {"failed", "cancelled", "unknown"} : StreamFails(o)
  \/ ChatCancelled

Next ==
  \/ \E q \in Request : Arrive(q)
  \/ \E q \in Request : Proceed(q)
  \/ \E q \in Request : CallbackCancelled(q)
  \/ \E c \in Call, d \in {"approve", "deny"} : Decide(c, d)
  \/ ChatTask
  \/ Stop
  \/ \E o \in {"completed", "failed", "cancelled", "unknown"} : CancelReturns(o)
  \/ NewRun
  \/ Forget
  \/ SuccessorEnds
  \/ Restart

Spec == Init /\ [][Next]_vars

(* The event loop runs a ready task again, asyncio.Lock is handed on in    *)
(* order, the approval wait has a deadline, and tools and hooks return.    *)
FairSpec == Spec /\ \A q \in Request : WF_vars(Proceed(q))

-----------------------------------------------------------------------------
(* What the bridge promises *)

(* The calls as Hermes sees them, for the refinement to ToolCallLedger.    *)
Outcome(c) ==
  LET s == record[c].state IN
  IF s \in ToolTerminal \cup {None} THEN s
  ELSE IF s = "executing" THEN "started" ELSE "open"

Ledger == INSTANCE ToolCallLedger WITH
  outcome <- [c \in Call |-> Outcome(c)],
  starts  <- started,
  told    <- [q \in Request |-> IF answer[q] \in ToolTerminal
                               THEN <<target[q], answer[q]>> ELSE None]

(* Requests, retries, stops, approvals and restarts implement the ledger:  *)
(* a tool is started at most once per tool_call_id, an outcome is written  *)
(* once, and every answer is that outcome.                                 *)
CallsFollowLedger == Ledger!LedgerSpec

(* Distinct calls of a run are prepared, approved and executed one at a    *)
(* time, by the holder of execution_lock, even across approval waits.      *)
OneAtATime ==
  \A q \in Request : pc[q] \in Leading \ {"queued"} => lock = q

(* A call that asked for approval was started only if the approval stands  *)
(* approved: no timeout, denial or stop is recorded for a tool that ran.   *)
ApprovalRespected ==
  \A c \in Call : started[c] > 0 /\ prompt[c] # None => prompt[c] = "approved"

(* A run that shows waiting_approval has a callback waiting for it; only   *)
(* the server's cancellation of that callback leaves it behind.            *)
WaitingIsOwned ==
  status = "waiting_approval" =>
    \/ \E q \in Request : pc[q] = "asking"
    \/ \E q \in Request : answer[q] = "aborted"

(* No tool starts after a stop was accepted or after the chat task of its  *)
(* run ended, although the callback may have been admitted, queued, in a   *)
(* hook or waiting for approval at that time.                              *)
StartsWhileLive ==
  [][started' # started => ~stopped /\ chat # "ended"]_vars

(* A stop is always reconciled: once the chat task and the cancel request  *)
(* are over, the durable record does not stay "stopping".                  *)
StopReconciled == chat = "ended" /\ ~cancelling => runRecord # "stopping"

(* Every callback is answered: it never waits for ever on the execution    *)
(* lock, on another request's future or on a user who does not decide.     *)
EveryCallbackAnswered ==
  \A q \in Request : pc[q] \in Inside ~> pc[q] = "done"
=============================================================================
