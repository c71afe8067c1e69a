---------------------------- MODULE RunLifecycle ----------------------------
(***************************************************************************)
(* The runs of one chat thread: dataclaw/api/run_tracker.py, and of        *)
(* dataclaw/api/routers/chat.py the start of a run, its background task,   *)
(* its one terminalization path, cancellation, the external callback and   *)
(* the deletion of the session.                                            *)
(*                                                                         *)
(* The tracker knows one run per thread and nearly every call names the    *)
(* thread, not the run: the step of a task acts on whatever run the thread *)
(* has then.  A step is the code between two real suspension points of the *)
(* event loop; bodies under the session's and the run's locks do not       *)
(* suspend.                                                                *)
(***************************************************************************)
EXTENDS Naturals

CONSTANTS
  Run,         \* runs the thread may ever have
  External,    \* those of them served by a fire-and-forget runtime
  EarlyStop,   \* may a cancellation overtake the first step of the task?
  Deletion,    \* may the session be deleted?
  MaxTurns,    \* app.max_turns; a turn asks for one approval at most here
  None

\* One deletion request at a time is modelled.
ASSUME TurnAssumption == MaxTurns \in Nat
ASSUME RunAssumption  == None \notin Run /\ External \subseteq Run
ASSUME FlagAssumption == EarlyStop \in BOOLEAN /\ Deletion \in BOOLEAN

VARIABLES
  session,    \* the session file exists
  deleted,    \* a deletion of the session was reported as done
  current,    \* RunTracker._runs of the thread
  status,     \* RunState.status
  task,       \* where the background task of each run stands
  cancelled,  \* runs whose task.cancel() is not delivered yet
  lease,      \* runs that hold their runtime bundle
  turns,      \* turns of each task that asked for an approval
  awaited,    \* the run object a suspended task has in hand
  remote,     \* where the external runtime stands with a run's message
  ends,       \* RUN_FINISHED events in the log of each run
  answers,    \* assistant messages persisted by the task of each run
  deletion,   \* where the delete handler stands
  doomed      \* the run whose task it waits for

tracker == <<current, status, ends>>
vars == <<session, deleted, current, status, task, cancelled, lease, turns,
          awaited, remote, ends, answers, deletion, doomed>>

Live     == {"running", "waiting_approval", "stopping"}
Terminal == {"finished", "error", "cancelled"}
Busy     == {"working", "asking"}

TypeOK ==
  /\ session \in BOOLEAN
  /\ deleted \in BOOLEAN
  /\ current \in Run \cup {None}
  /\ status \in [Run -> {"new"} \cup Live \cup Terminal]
  /\ task \in [Run -> {"none", "created", "done", "waiting"} \cup Busy]
  /\ cancelled \subseteq Run
  /\ lease \subseteq Run
  /\ turns \in [Run -> 0 .. MaxTurns]
  /\ awaited \in [Run -> Run \cup {None}]
  /\ remote \in [Run -> {"none", "posted", "over"}]
  /\ ends \in [Run -> Nat]
  /\ answers \in [Run -> Nat]
  /\ deletion \in {"idle", "stopping", "cleaning"}
  /\ doomed \in Run \cup {None}

Init ==
  /\ session = TRUE
  /\ deleted = FALSE
  /\ current = None
  /\ status = [r \in Run |-> "new"]
  /\ task = [r \in Run |-> "none"]
  /\ cancelled = {}
  /\ lease = {}
  /\ turns = [r \in Run |-> 0]
  /\ awaited = [r \in Run |-> None]
  /\ remote = [r \in Run |-> "none"]
  /\ ends = [r \in Run |-> 0]
  /\ answers = [r \in Run |-> 0]
  /\ deletion = "idle"
  /\ doomed = None

-----------------------------------------------------------------------------
(* The tracker, by thread *)

IsLive(r) == r # None /\ status[r] \in Live

\* Mutant: the table has no way out of "stopping".
MayMove_StopIsFinal(from, to) ==
  CASE to = "running"          -> from = "waiting_approval"
    [] to = "waiting_approval" -> from = "running"
    [] OTHER                   -> from \in {"running", "waiting_approval"}

(* The table _RUN_TRANSITIONS on the statuses in use. *)
MayMove(from, to) ==
  CASE to = "running"          -> from = "waiting_approval"
    [] to = "waiting_approval" -> from = "running"
    [] to = "stopping"         -> from \in {"running", "waiting_approval"}
    [] OTHER                   -> from \in Live

Transition(to) ==
  status' = IF current # None /\ MayMove(status[current], to)
            THEN [status EXCEPT ![current] = to] ELSE status

\* Mutant: a later terminal signal is not ignored.
Terminalize_Again(outcome) ==
  /\ Transition(outcome)
  /\ ends' = [r \in Run |-> IF r = current THEN ends[r] + 1 ELSE ends[r]]

(* _terminalize_run: the first outcome of the thread's run counts, every   *)
(* later signal is ignored.                                                *)
Terminalize(outcome) ==
  IF IsLive(current)
  THEN /\ Transition(outcome)
       /\ ends' = [ends EXCEPT ![current] = @ + 1]
  ELSE UNCHANGED <<status, ends>>

(* RunTracker.cancel_run *)
CancelRun ==
  /\ Transition("stopping")
  /\ cancelled' = cancelled \cup {r \in {current} : task[r] # "done"}

-----------------------------------------------------------------------------
(* Starting a run *)

\* Mutant: only the literal "running" counts as an active run.
StartRun_OverLiveRun(r) ==
  /\ session
  /\ \A c \in {current} \ {None} : status[c] # "running"
  /\ status[r] = "new"
  /\ status' = [status EXCEPT ![r] = "running"]
  /\ current' = r
  /\ task' = [task EXCEPT ![r] = "created"]
  /\ lease' = lease \cup {r}
  /\ UNCHANGED <<session, deleted, ends, cancelled, turns, awaited, remote,
                 answers, deletion, doomed>>

(* run_agent: a live run is tailed, never replaced.                        *)
StartRun(r) ==
  /\ session
  /\ ~IsLive(current)
  /\ status[r] = "new"
  /\ status' = [status EXCEPT ![r] = "running"]
  /\ current' = r
  /\ task' = [task EXCEPT ![r] = "created"]
  /\ lease' = lease \cup {r}
  /\ UNCHANGED <<session, deleted, ends, cancelled, turns, awaited,
                 remote, answers, deletion, doomed>>

(* The first step persists the user's message; append_message creates the  *)
(* session file if it is gone.                                             *)
FirstStep(r) ==
  /\ task[r] = "created"
  /\ r \notin cancelled
  /\ task' = [task EXCEPT ![r] = "working"]
  /\ session' = TRUE
  /\ UNCHANGED <<deleted, tracker, cancelled, lease, turns, awaited,
                 remote, answers, deletion, doomed>>

(* A task cancelled before its first step never enters _run_agent_loop:    *)
(* neither its handlers nor its `finally' run.                             *)
NeverRun(r) ==
  /\ task[r] = "created"
  /\ r \in cancelled
  /\ task' = [task EXCEPT ![r] = "done"]
  /\ cancelled' = cancelled \ {r}
  /\ UNCHANGED <<session, deleted, tracker, lease, turns, awaited, remote,
                 answers, deletion, doomed>>

-----------------------------------------------------------------------------
(* The body of the task *)

TaskEnds(r) ==
  /\ task' = [task EXCEPT ![r] = "done"]
  /\ lease' = lease \ {r}

(* A tool returned: its message is appended.                               *)
ToolStep(r) ==
  /\ task[r] = "working"
  /\ r \notin cancelled
  /\ session' = TRUE
  /\ UNCHANGED <<deleted, tracker, task, cancelled, lease, turns, awaited,
                 remote, answers, deletion, doomed>>

AskApproval(r) ==
  /\ task[r] = "working"
  /\ r \notin cancelled \cup External
  /\ current # None
  /\ turns[r] < MaxTurns
  /\ turns' = [turns EXCEPT ![r] = @ + 1]
  /\ awaited' = [awaited EXCEPT ![r] = current]
  /\ Transition("waiting_approval")
  /\ task' = [task EXCEPT ![r] = "asking"]
  /\ UNCHANGED <<session, deleted, current, ends, cancelled, lease,
                 remote, answers, deletion, doomed>>

(* Decision or timeout.                                                    *)
ApprovalEnds(r) ==
  /\ task[r] = "asking"
  /\ r \notin cancelled
  /\ IF status[awaited[r]] = "waiting_approval"
     THEN Transition("running") ELSE UNCHANGED status
  /\ task' = [task EXCEPT ![r] = "working"]
  /\ UNCHANGED <<session, deleted, current, ends, cancelled, lease, turns,
                 awaited, remote, answers, deletion, doomed>>

(* The last turn is over, with or without a text to persist (an external   *)
(* runtime that cannot be reached also ends here).                         *)
Succeed(r, text) ==
  /\ task[r] = "working"
  /\ r \notin cancelled
  /\ Terminalize("finished")
  /\ IF text /\ IsLive(current)
     THEN session' = TRUE /\ answers' = [answers EXCEPT ![r] = @ + 1]
     ELSE UNCHANGED <<session, answers>>
  /\ TaskEnds(r)
  /\ UNCHANGED <<deleted, current, cancelled, turns, awaited, remote,
                 deletion, doomed>>

Fail(r) ==
  /\ task[r] = "working"
  /\ r \notin cancelled
  /\ Terminalize("error")
  /\ TaskEnds(r)
  /\ UNCHANGED <<session, deleted, current, cancelled, turns, awaited,
                 remote, answers, deletion, doomed>>

\* Mutant: a cancelled task persists the text it has so far.
CancelDelivered_KeepsText(r) ==
  /\ task[r] \in Busy \cup {"waiting"}
  /\ r \in cancelled
  /\ cancelled' = cancelled \ {r}
  /\ Terminalize("cancelled")
  /\ session' = TRUE
  /\ answers' = [answers EXCEPT ![r] = @ + 1]
  /\ TaskEnds(r)
  /\ UNCHANGED <<deleted, current, turns, awaited, remote, deletion, doomed>>

(* The cancellation reaches the task where it is suspended.                *)
CancelDelivered(r) ==
  /\ task[r] \in Busy \cup {"waiting"}
  /\ r \in cancelled
  /\ cancelled' = cancelled \ {r}
  /\ Terminalize("cancelled")
  /\ TaskEnds(r)
  /\ UNCHANGED <<session, deleted, current, turns, awaited, remote,
                 answers, deletion, doomed>>

(* The external runtime got the message in a task nobody waits for; the    *)
(* run stays open until the thread's run, whichever it is, is completed.   *)
HandOver(r) ==
  /\ r \in External
  /\ task[r] = "working"
  /\ r \notin cancelled
  /\ remote' = [remote EXCEPT ![r] = "posted"]
  /\ IF current # None
     THEN /\ awaited' = [awaited EXCEPT ![r] = current]
          /\ task' = [task EXCEPT ![r] = "waiting"]
          /\ UNCHANGED lease
     ELSE TaskEnds(r) /\ UNCHANGED awaited
  /\ UNCHANGED <<session, deleted, tracker, cancelled, turns, answers,
                 deletion, doomed>>

CompletionSeen(r) ==
  /\ task[r] = "waiting"
  /\ r \notin cancelled
  /\ status[awaited[r]] \in Terminal
  /\ TaskEnds(r)
  /\ UNCHANGED <<session, deleted, tracker, cancelled, turns, awaited,
                 remote, answers, deletion, doomed>>

-----------------------------------------------------------------------------
(* Requests *)

Overtaken == current # None /\ task[current] = "created"

(* agent_cancel *)
Stop ==
  /\ IsLive(current)
  /\ Overtaken => EarlyStop
  /\ CancelRun
  /\ UNCHANGED <<session, deleted, current, ends, task, lease, turns,
                 awaited, remote, answers, deletion, doomed>>

(* POST /agent/callback/{thread}: the reply names the thread only.         *)
Callback(r) ==
  /\ remote[r] = "posted"
  /\ remote' = [remote EXCEPT ![r] = "over"]
  /\ Terminalize("finished")
  /\ UNCHANGED <<session, deleted, current, task, cancelled, lease, turns,
                 awaited, answers, deletion, doomed>>

(* The post fails or the runtime has no text: it is logged, nobody is told. *)
RemoteLost(r) ==
  /\ remote[r] = "posted"
  /\ remote' = [remote EXCEPT ![r] = "over"]
  /\ UNCHANGED <<session, deleted, tracker, task, cancelled, lease, turns,
                 awaited, answers, deletion, doomed>>

(* A run that ended is forgotten ten minutes later.                        *)
Expire ==
  /\ current # None
  /\ status[current] \in Terminal
  /\ current' = None
  /\ UNCHANGED <<session, deleted, status, ends, task, cancelled, lease,
                 turns, awaited, remote, answers, deletion, doomed>>

(* delete_chat_session: stop the owner task, clean up, remove the file.    *)
DeleteBegins ==
  /\ Deletion
  /\ session
  /\ deletion = "idle"
  /\ Overtaken => EarlyStop
  /\ IF IsLive(current)
     THEN CancelRun /\ deletion' = "stopping" /\ doomed' = current
     ELSE deletion' = "cleaning" /\ UNCHANGED <<status, cancelled, doomed>>
  /\ UNCHANGED <<session, deleted, current, ends, task, lease, turns,
                 awaited, remote, answers>>

(* wait_for(run.task, 5) cancels the task again when its time is up but    *)
(* returns only with the task: it is done, also when the answer is 409.    *)
DeleteWaited(stopped) ==
  /\ deletion = "stopping"
  /\ task[doomed] = "done"
  /\ deletion' = IF stopped THEN "cleaning" ELSE "idle"
  /\ doomed' = None
  /\ UNCHANGED <<session, deleted, tracker, task, cancelled, lease, turns,
                 awaited, remote, answers>>

(* A cleanup handler failed; or all ran, and the record goes.              *)
DeleteAborts ==
  /\ deletion = "cleaning"
  /\ deletion' = "idle"
  /\ UNCHANGED <<session, deleted, tracker, task, cancelled, lease, turns,
                 awaited, remote, answers, doomed>>

DeleteFinishes ==
  /\ deletion = "cleaning"
  /\ session
  /\ session' = FALSE
  /\ deleted' = TRUE
  /\ current' = None
  /\ deletion' = "idle"
  /\ UNCHANGED <<status, ends, task, cancelled, lease, turns, awaited,
                 remote, answers, doomed>>

-----------------------------------------------------------------------------
(* What the background task does by itself. *)
TaskStep(r) ==
  \/ FirstStep(r)
  \/ NeverRun(r)
  \/ AskApproval(r)
  \/ ApprovalEnds(r)
  \/ Fail(r)
  \/ \E text \in BOOLEAN : Succeed(r, text)
  \/ HandOver(r)
  \/ CompletionSeen(r)
  \/ CancelDelivered(r)

Next ==
  \/ \E r \in Run : StartRun(r)
  \/ \E r \in Run : TaskStep(r)
  \/ \E r \in Run : ToolStep(r)
  \/ Stop
  \/ \E r \in Run : Callback(r)
  \/ \E r \in Run : RemoteLost(r)
  \/ Expire
  \/ DeleteBegins
  \/ \E stopped \in BOOLEAN : DeleteWaited(stopped)
  \/ DeleteAborts
  \/ DeleteFinishes

Spec == Init /\ [][Next]_vars

(* The event loop runs a ready task again; model calls and tools return    *)
(* and an approval wait ends after 300 seconds.                            *)
FairSpec == Spec /\ \A r \in Run : WF_vars(TaskStep(r))

-----------------------------------------------------------------------------
(* What the run lifecycle promises *)

(* The log of a run ends once, and exactly when the run reaches a terminal *)
(* status, whoever brings the outcome: the task, a cancellation, a         *)
(* callback of the external runtime, late or twice (_terminalize_run).     *)
EndsOnce ==
  \A r \in Run : ends[r] = IF status[r] \in Terminal THEN 1 ELSE 0

(* A task that works for a thread works for the thread's current run, and  *)
(* the run is live: what it emits and ends by thread is its own.  This is  *)
(* what makes addressing by thread sound.                                  *)
TaskOwnsThread ==
  \A r \in Run : task[r] \in {"created"} \cup Busy => current = r /\ IsLive(r)

(* A run persists at most one answer, and only if it is reported as        *)
(* finished: what ends by a stop or an error, in whatever turn, leaves no  *)
(* answer in the session, though the answer is written for whichever run   *)
(* the thread has (_terminalize_run).                                      *)
AnswerOfFinishedRun ==
  \A r \in Run : answers[r] <= 1 /\ (answers[r] = 1 => status[r] = "finished")

(* Every run of an in-process runtime comes to an end and gives its bundle *)
(* back, whatever is stopped, asked or answered in between.                *)
RunEnds == \A r \in Run : status[r] \in Live ~> status[r] \in Terminal /\ r \notin lease
=============================================================================
