----------------------------- MODULE DirectTurn -----------------------------
(***************************************************************************)
(* One run of an in-process runtime: the model asks for tool calls, the    *)
(* hooks judge them, the user approves some of them, the tools run one     *)
(* after another, and the results go to the session file and back to the   *)
(* model (_run_agent_loop), with the prompts shared by the task, the       *)
(* decision endpoint and the session page.                                 *)
(*                                                                         *)
(* The task suspends only where `phase` is in Suspended: between two such  *)
(* phases nothing else runs, but a crash may fall anywhere.                *)
(***************************************************************************)
EXTENDS Naturals, Sequences

CONSTANTS
    Call,       \* call ids
    MaxTurns,   \* app.max_turns
    MaxStored,  \* prompts kept in the session file
    None

ASSUME BoundsAssumption == MaxTurns \in Nat \ {0} /\ MaxStored \in Nat \ {0}

VARIABLES
    phase,    \* where the task is
    status,   \* the run's status in the tracker
    turn,     \* turns of the model so far
    batch,    \* the calls of this turn, in the order the model asked for them
    verdict,  \* what the guardrails said of each call
    asks,     \* the calls of the batch that still have to be approved
    refused,  \* denied_ids
    left,     \* the calls of the batch that still have to run
    args,     \* the input a tool was started with, as the hooks left it or raw
    prompt,   \* run.guardrail_requests
    decided,  \* guardrail_decisions of the prompt that waits, None before
    expired,  \* the deadline of that prompt has fired
    stored,   \* pendingActions of the session file
    outcome,  \* what became of each call
    starts,   \* how often its tool was started
    record,   \* the result of each call in the session file
    ran,      \* the calls of the batch that did run or failed, in order
    results,  \* results_list and errors_list: whose result, and which
    slipped,  \* a result was noted twice
    shown     \* what the model is given as the result of each call

approval == <<prompt, decided, expired, stored>>
history == <<record, shown>>
lists == <<ran, results, slipped>>
vars == <<phase, status, turn, batch, verdict, asks, refused, left, args,
          approval, outcome, starts, history, lists>>

Suspended == {"model", "hooks", "waiting", "tool", "post hooks"}
Over == {"over", "crashed"}
Settled == {"approved", "denied", "timed_out", "cancelled"}
Final == {"completed", "denied", "failed", "unknown"}

(* "bad": the tool returned what json.dumps refuses.                       *)
Noted == Final \cup {"bad"}

ASSUME NoneAssumption ==
    None \notin Call \cup Noted \cup (Call \X Noted) \cup Settled \cup BOOLEAN
                \cup {"open", "started", "pending", "run", "auto_reply", "user_approval"}

InSeq(x, s) == \E i \in 1 .. Len(s) : s[i] = x
Calls(s) == {c \in Call : InSeq(c, s)}

TypeOK ==
    /\ phase \in Suspended \cup Over \cup {"asking", "reporting", "starting"}
    /\ status \in {"running", "waiting_approval", "stopping", "finished", "error", "cancelled"}
    /\ turn \in 1 .. MaxTurns
    /\ batch \in Seq(Call) /\ asks \in Seq(Call) /\ left \in Seq(Call)
    /\ verdict \in [Call -> {None, "run", "auto_reply", "user_approval"}]
    /\ refused \in SUBSET Call
    /\ args \in [Call -> {None, "raw", "hooked"}]
    /\ prompt \in [Call -> {None, "pending"} \cup Settled]
    /\ decided \in {None, TRUE, FALSE}
    /\ expired \in BOOLEAN
    /\ stored \in Seq([call: Call, state: {"pending"} \cup Settled])
    /\ outcome \in [Call -> {None, "open", "started"} \cup Final]
    /\ starts \in [Call -> Nat]
    /\ record \in [Call -> {None} \cup Final]
    /\ ran \in Seq(Call)
    /\ results \in Seq(Call \X Noted)
    /\ slipped \in BOOLEAN
    /\ shown \in [Call -> {None} \cup (Call \X Noted)]

Init ==
    /\ phase = "model" /\ status = "running" /\ turn = 1
    /\ batch = <<>> /\ asks = <<>> /\ left = <<>> /\ refused = {}
    /\ verdict = [c \in Call |-> None]
    /\ args = [c \in Call |-> None]
    /\ prompt = [c \in Call |-> None]
    /\ decided = None /\ expired = FALSE
    /\ stored = <<>>
    /\ outcome = [c \in Call |-> None]
    /\ starts = [c \in Call |-> 0]
    /\ record = [c \in Call |-> None]
    /\ ran = <<>> /\ results = <<>> /\ slipped = FALSE
    /\ shown = [c \in Call |-> None]

-----------------------------------------------------------------------------
(* How a run ends, whatever it is doing: the calls under way stay without  *)
(* a result.                                                               *)

Abandoned == [c \in Call |-> IF outcome[c] \in {"open", "started"}
                             THEN "unknown" ELSE outcome[c]]

EndsWith(s) ==
    /\ phase' = "over"
    /\ status' = s
    /\ outcome' = Abandoned

(* A cancelled task does nothing but unwind.                               *)
Working == status # "stopping"

-----------------------------------------------------------------------------
(* The model's turn.                                                       *)

CallIssued(c) ==
    /\ phase = "model" /\ Working
    /\ outcome[c] = None
    /\ batch' = Append(batch, c)
    /\ outcome' = [outcome EXCEPT ![c] = "open"]
    /\ UNCHANGED <<phase, status, turn, verdict, asks, refused, left, args,
                   approval, starts, history, lists>>

(* TurnComplete without calls: the run finishes with the model's text.     *)
ModelFinishes ==
    /\ phase = "model" /\ Working
    /\ batch = <<>>
    /\ EndsWith("finished")
    /\ UNCHANGED <<turn, batch, verdict, asks, refused, left, args, approval,
                   starts, history, lists>>

ModelFails ==
    /\ phase = "model" /\ Working
    /\ EndsWith("error")
    /\ UNCHANGED <<turn, batch, verdict, asks, refused, left, args, approval,
                   starts, history, lists>>

(* The guardrails are the first of the hooks: they take the calls they     *)
(* object to out of the batch, and the hooks after them see the rest.      *)
GuardrailsJudge ==
    /\ phase = "model" /\ Working
    /\ batch # <<>>
    /\ \E v \in [Calls(batch) -> {"run", "auto_reply", "user_approval"}] :
         verdict' = [c \in Call |-> IF InSeq(c, batch) THEN v[c] ELSE verdict[c]]
    /\ refused' = {}
    /\ phase' = "hooks"
    /\ UNCHANGED <<status, turn, batch, asks, left, args, approval, outcome,
                   starts, history, lists>>

Judged(v) == {c \in Calls(batch) : verdict[c] = v}

(* The orders of the calls in S, and the one the model asked for them in.  *)
Orders(S) ==
    {f \in UNION {[1 .. n -> S] : n \in 0 .. Len(batch)} :
        /\ \A i, j \in DOMAIN f : f[i] = f[j] => i = j
        /\ \A c \in S : InSeq(c, f)}

AsIssued(S) ==
    {f \in Orders(S) : \A i, j \in DOMAIN f :
        i < j => \E k, l \in DOMAIN batch : k < l /\ batch[k] = f[i] /\ batch[l] = f[j]}

HooksDone ==
    /\ phase = "hooks" /\ Working
    /\ asks' \in AsIssued(Judged("user_approval"))
    /\ phase' = "asking"
    /\ UNCHANGED <<status, turn, batch, verdict, refused, left, args, approval,
                   outcome, starts, history, lists>>

HooksFail ==
    /\ phase \in {"hooks", "post hooks"} /\ Working
    /\ EndsWith("error")
    /\ UNCHANGED <<turn, batch, verdict, asks, refused, left, args, approval,
                   starts, history, lists>>

-----------------------------------------------------------------------------
(* Approvals, one after another.                                           *)

(* upsert_pending_action: replaced in place, or appended and the oldest    *)
(* dropped.                                                                *)
Capped(s) == IF Len(s) <= MaxStored THEN s ELSE SubSeq(s, Len(s) - MaxStored + 1, Len(s))

Upsert(c, s) ==
    IF \E i \in 1 .. Len(stored) : stored[i].call = c
    THEN [i \in 1 .. Len(stored) |->
            IF stored[i].call = c THEN [call |-> c, state |-> s] ELSE stored[i]]
    ELSE Capped(Append(stored, [call |-> c, state |-> s]))

Ask ==
    /\ phase = "asking" /\ asks # <<>>
    /\ prompt' = [prompt EXCEPT ![Head(asks)] = "pending"]
    /\ stored' = Upsert(Head(asks), "pending")
    /\ decided' = None /\ expired' = FALSE
    /\ status' = "waiting_approval"
    /\ phase' = "waiting"
    /\ UNCHANGED <<turn, batch, verdict, asks, refused, left, args, outcome,
                   starts, history, lists>>

DeadlineFires ==
    /\ phase = "waiting" /\ ~expired
    /\ expired' = TRUE
    /\ UNCHANGED <<phase, status, turn, batch, verdict, asks, refused, left, args,
                   prompt, decided, stored, outcome, starts, history, lists>>

(* The decision endpoint: the first decision on a pending prompt counts,   *)
(* repetitions are answered from the prompt and change nothing.            *)
Decide(c, yes) ==
    /\ phase = "waiting" /\ c = Head(asks)
    /\ prompt[c] = "pending"
    /\ decided' = yes
    /\ LET s == IF yes THEN "approved" ELSE "denied" IN
         /\ prompt' = [prompt EXCEPT ![c] = s]
         /\ stored' = Upsert(c, s)
    /\ UNCHANGED <<phase, status, turn, batch, verdict, asks, refused, left, args,
                   expired, outcome, starts, history, lists>>

(* resolve_guardrail_action, when the task comes back to its prompt.       *)
Settle(s) ==
    /\ prompt' = [prompt EXCEPT ![Head(asks)] = s]
    /\ stored' = Upsert(Head(asks), s)
    /\ decided' = None /\ expired' = FALSE

Resumes ==
    /\ phase = "waiting" /\ Working
    /\ status' = "running"
    /\ asks' = Tail(asks)
    /\ phase' = "asking"
    /\ UNCHANGED <<turn, batch, verdict, left, args, starts, history, lists>>

ApprovalGranted ==
    /\ Resumes
    /\ decided = TRUE /\ ~expired
    /\ Settle("approved")
    /\ UNCHANGED <<refused, outcome>>

ApprovalRefused_NoDeadline ==
    /\ Resumes
    /\ decided = FALSE
    /\ Settle(IF expired THEN "timed_out" ELSE "denied")
    /\ refused' = refused \cup {Head(asks)}
    /\ outcome' = [outcome EXCEPT ![Head(asks)] = "denied"]

(* A deadline that has fired counts, also against a decision made since.   *)
ApprovalRefused ==
    /\ Resumes
    /\ expired \/ decided = FALSE
    /\ Settle(IF expired THEN "timed_out" ELSE "denied")
    /\ refused' = refused \cup {Head(asks)}
    /\ outcome' = [outcome EXCEPT ![Head(asks)] = "denied"]

AsksDone ==
    /\ phase = "asking" /\ asks = <<>>
    /\ phase' = "reporting"
    /\ UNCHANGED <<status, turn, batch, verdict, asks, refused, left, args, approval,
                   outcome, starts, history, lists>>

-----------------------------------------------------------------------------
(* The calls that do not run are answered first, then the others run.      *)

Blocked == {c \in Calls(batch) : verdict[c] = "auto_reply"} \cup refused

ReportBlocked(c) ==
    /\ phase = "reporting"
    /\ c \in Blocked /\ record[c] = None
    /\ outcome' = [outcome EXCEPT ![c] = "denied"]
    /\ record' = [record EXCEPT ![c] = "denied"]
    /\ UNCHANGED <<phase, status, turn, batch, verdict, asks, refused, left, args,
                   approval, starts, shown, lists>>

(* The approved calls are a set: they come after the others in any order.  *)
Remaining_Everyone ==
    \E f \in AsIssued(Judged("run")), g \in Orders(Judged("user_approval")) :
        left' = f \o g

Remaining ==
    \E f \in AsIssued(Judged("run")), g \in Orders(Judged("user_approval") \ refused) :
        left' = f \o g

ReportsDone ==
    /\ phase = "reporting"
    /\ \A c \in Blocked : record[c] # None
    /\ Remaining
    /\ ran' = <<>> /\ results' = <<>>
    /\ shown' = [c \in Call |-> IF c \in Blocked THEN <<c, "denied">> ELSE shown[c]]
    /\ phase' = "starting"
    /\ UNCHANGED <<status, turn, batch, verdict, asks, refused, args, approval,
                   outcome, starts, record, slipped>>

Ends_LastRecordWins(o, notes) ==
    /\ outcome' = [outcome EXCEPT ![Head(left)] = o]
    /\ record' = [record EXCEPT ![Head(left)] = notes[Len(notes)][2]]
    /\ left' = Tail(left)
    /\ ran' = Append(ran, Head(left))
    /\ results' = results \o notes
    /\ phase' = "starting"
    /\ UNCHANGED <<status, turn, batch, verdict, asks, refused, args, approval,
                   starts, shown>>

(* A call has ended as o, the session file says so, and the lists for the  *)
(* model have grown by `notes`.                                            *)
Ends(o, notes) ==
    /\ outcome' = [outcome EXCEPT ![Head(left)] = o]
    /\ record' = [record EXCEPT ![Head(left)] = o]
    /\ left' = Tail(left)
    /\ ran' = Append(ran, Head(left))
    /\ results' = results \o notes
    /\ phase' = "starting"
    /\ UNCHANGED <<status, turn, batch, verdict, asks, refused, args, approval,
                   starts, shown>>

Note(o) == <<Head(left), o>>

UnknownTool_Silent ==
    /\ phase = "starting" /\ left # <<>>
    /\ outcome' = [outcome EXCEPT ![Head(left)] = "failed"]
    /\ left' = Tail(left)
    /\ UNCHANGED <<phase, status, turn, batch, verdict, asks, refused, args, approval,
                   starts, history, lists>>

UnknownTool ==
    /\ phase = "starting" /\ left # <<>>
    /\ Ends("failed", <<Note("failed")>>)
    /\ UNCHANGED slipped

(* A call that was approved is put back as the model asked for it, without *)
(* what the hooks would have added.                                        *)
StartTool ==
    /\ phase = "starting" /\ left # <<>>
    /\ LET c == Head(left) IN
         /\ outcome' = [outcome EXCEPT ![c] = "started"]
         /\ starts' = [starts EXCEPT ![c] = @ + 1]
         /\ args' = [args EXCEPT ![c] = IF verdict[c] = "run" THEN "hooked" ELSE "raw"]
    /\ phase' = "tool"
    /\ UNCHANGED <<status, turn, batch, verdict, asks, refused, left, approval,
                   history, lists>>

ToolReturns(o) ==
    /\ phase = "tool" /\ Working
    /\ Ends(o, <<Note(o)>>)
    /\ UNCHANGED slipped

(* The result is noted before it is written as JSON; if that fails, the    *)
(* failure is noted too.                                                   *)
ResultUnwritable ==
    /\ phase = "tool" /\ Working
    /\ Ends("failed", <<Note("bad"), Note("failed")>>)
    /\ slipped' = TRUE

(* The same, when the result is recorded and what follows its record fails *)
(* (the second record is dropped: append_message knows the messageId).     *)
ArtifactsFail ==
    /\ phase = "tool" /\ Working
    /\ Ends("completed", <<Note("completed"), Note("failed")>>)
    /\ slipped' = TRUE

(* build_tool_result_message pairs calls and results by position, before   *)
(* the post hooks see the results.                                         *)
Pairs_LastFirst ==
    [c \in Call |-> IF InSeq(c, ran)
                     THEN results[Len(results) + 1 - CHOOSE i \in DOMAIN ran : ran[i] = c]
                     ELSE shown[c]]

Pairs ==
    [c \in Call |-> IF InSeq(c, ran)
                     THEN results[CHOOSE i \in DOMAIN ran : ran[i] = c]
                     ELSE shown[c]]

Writable == \A i \in DOMAIN ran : results[i][2] # "bad"

BatchDone ==
    /\ phase = "starting" /\ left = <<>>
    /\ Writable
    /\ shown' = Pairs
    /\ phase' = "post hooks"
    /\ UNCHANGED <<status, turn, batch, verdict, asks, refused, left, args, approval,
                   outcome, starts, record, lists>>

BatchUnwritable ==
    /\ phase = "starting" /\ left = <<>>
    /\ ~Writable
    /\ EndsWith("error")
    /\ UNCHANGED <<turn, batch, verdict, asks, refused, left, args, approval,
                   starts, history, lists>>

NextTurn_OneMore ==
    /\ phase = "post hooks" /\ Working
    /\ turn <= MaxTurns
    /\ turn' = turn + 1
    /\ batch' = <<>>
    /\ phase' = "model"
    /\ UNCHANGED <<status, verdict, asks, refused, left, args, approval, outcome,
                   starts, history, lists>>

NextTurn ==
    /\ phase = "post hooks" /\ Working
    /\ turn < MaxTurns
    /\ turn' = turn + 1
    /\ batch' = <<>>
    /\ phase' = "model"
    /\ UNCHANGED <<status, verdict, asks, refused, left, args, approval, outcome,
                   starts, history, lists>>

TurnsExhausted ==
    /\ phase = "post hooks" /\ Working
    /\ turn = MaxTurns
    /\ EndsWith("finished")
    /\ UNCHANGED <<turn, batch, verdict, asks, refused, left, args, approval,
                   starts, history, lists>>

-----------------------------------------------------------------------------
(* Stop, and the loss of the process.                                      *)

(* agent_cancel: the task is told, and unwinds when it is next scheduled.  *)
Stop ==
    /\ phase \in Suspended
    /\ status \in {"running", "waiting_approval"}
    /\ status' = "stopping"
    /\ UNCHANGED <<phase, turn, batch, verdict, asks, refused, left, args, approval,
                   outcome, starts, history, lists>>

StopDelivered_PromptLeft ==
    /\ phase \in Suspended /\ status = "stopping"
    /\ UNCHANGED approval
    /\ EndsWith("cancelled")
    /\ UNCHANGED <<turn, batch, verdict, asks, refused, left, args, starts, history, lists>>

StopDelivered ==
    /\ phase \in Suspended /\ status = "stopping"
    /\ IF phase = "waiting" THEN Settle("cancelled") ELSE UNCHANGED approval
    /\ EndsWith("cancelled")
    /\ UNCHANGED <<turn, batch, verdict, asks, refused, left, args, starts, history, lists>>

(* Memory is lost; the session file stays as it is.                        *)
Crash ==
    /\ phase \notin Over
    /\ phase' = "crashed"
    /\ outcome' = Abandoned
    /\ prompt' = [c \in Call |-> None]
    /\ decided' = None /\ expired' = FALSE
    /\ UNCHANGED <<status, turn, batch, verdict, asks, refused, left, args, stored,
                   starts, history, lists>>

-----------------------------------------------------------------------------
Work ==
    \/ HooksDone \/ Ask \/ ApprovalGranted \/ ApprovalRefused \/ AsksDone
    \/ \E c \in Call : ReportBlocked(c)
    \/ ReportsDone \/ UnknownTool \/ StartTool \/ BatchDone \/ BatchUnwritable
    \/ NextTurn \/ TurnsExhausted \/ StopDelivered

ToolEnds ==
    \/ \E o \in {"completed", "failed"} : ToolReturns(o)
    \/ ResultUnwritable \/ ArtifactsFail

Next ==
    \/ Work \/ ToolEnds
    \/ \E c \in Call : CallIssued(c)
    \/ ModelFinishes \/ ModelFails \/ GuardrailsJudge \/ HooksFail
    \/ DeadlineFires
    \/ \E c \in Call, yes \in BOOLEAN : Decide(c, yes)
    \/ Stop \/ Crash

Spec == Init /\ [][Next]_vars

(* The event loop runs a task that can go on, and its timers fire.  Models *)
(* and tools need not return, and the user need not answer or stop.        *)
FairSpec == Spec /\ WF_vars(Work) /\ WF_vars(DeadlineFires)

-----------------------------------------------------------------------------
(* A call is admitted once, its tool starts at most once, its outcome is   *)
(* written once and the record in the session file gives that outcome,     *)
(* however approvals, deadlines, stops and crashes fall: the run keeps the *)
(* ledger the Hermes bridge keeps.                                         *)
Ledger == INSTANCE ToolCallLedger
    WITH Request <- Call,
         told <- [c \in Call |-> IF record[c] = None THEN None ELSE <<c, record[c]>>]

CallsFollowLedger == Ledger!LedgerSpec

(* A tool has run only if no guardrail objected to its call, or one asked  *)
(* the user and the prompt stands approved for good, in memory and in the  *)
(* session file (_run_agent_loop, the rebuilt list of pending calls).      *)
StartedWasAllowed ==
    \A c \in Call : starts[c] > 0 =>
        /\ verdict[c] # "auto_reply"
        /\ verdict[c] = "user_approval" =>
             /\ phase # "crashed" => prompt[c] = "approved"
             /\ \A i \in DOMAIN stored : stored[i].call = c => stored[i].state = "approved"

(* The prompts of the session file are those in memory; a prompt that      *)
(* waits is among them, and one that reads pending is the one the task     *)
(* waits for: after the run nothing is left that looks answerable          *)
(* (upsert_pending_action, resolve_guardrail_action).                      *)
PromptsAgree ==
    phase # "crashed" =>
        /\ \A i \in DOMAIN stored : stored[i].state = prompt[stored[i].call]
        /\ \A c \in Call : prompt[c] = "pending" =>
             /\ phase = "waiting" /\ c = Head(asks)
             /\ \E i \in DOMAIN stored : stored[i].call = c

(* Before the model speaks again every call of its earlier turns has an    *)
(* outcome, a record in the session file and an answer in the context: a   *)
(* provider refuses a conversation with an unanswered call.                *)
TurnsAnswered ==
    phase = "model" =>
        \A c \in Call \ Calls(batch) : outcome[c] # None =>
            outcome[c] \in Final /\ record[c] = outcome[c] /\ shown[c] # None

(* As long as no result was noted twice, the model is told of each call    *)
(* what the session file says of it.                                       *)
OwnResult ==
    \A c \in Call : shown[c] # None /\ ~slipped => shown[c] = <<c, record[c]>>

(* Nobody waits for ever on a prompt, answered or not.                     *)
PromptsSettle ==
    \A c \in Call : prompt[c] = "pending" ~> prompt[c] # "pending"
=============================================================================
