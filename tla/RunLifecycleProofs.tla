------------------------- MODULE RunLifecycleProofs -------------------------
(***************************************************************************)
(* Proofs about RunLifecycle, for every set of runs and every MaxTurns.    *)
(* All of them rest on two facts about the tracker: a transition only ever *)
(* moves the thread's current run, out of a live status; and a             *)
(* terminalization of a live run both ends it and appends one end event.   *)
(***************************************************************************)
EXTENDS RunLifecycle, TLAPS

Status == {"new"} \cup Live \cup Terminal

(* A transition moves the current run, out of a live status, or nothing.   *)
LEMMA TransitionMoves ==
  ASSUME TypeOK, NEW to \in Live \cup Terminal, Transition(to)
  PROVE  /\ status' \in [Run -> Status]
         /\ \A s \in Run : \/ status'[s] = status[s]
                           \/ s = current /\ status[s] \in Live /\ status'[s] = to
<1>1. CASE current # None /\ MayMove(status[current], to)
  <2>1. current \in Run /\ status \in [Run -> Status]
    BY <1>1 DEF TypeOK, Status
  <2>2. status[current] \in Live
    BY <1>1 DEF MayMove, Live
  <2>3. status' = [status EXCEPT ![current] = to]
    BY <1>1 DEF Transition
  <2> QED
    BY <2>1, <2>2, <2>3 DEF Status
<1>2. CASE ~(current # None /\ MayMove(status[current], to))
  BY <1>2 DEF Transition, TypeOK, Status
<1> QED
  BY <1>1, <1>2

(* Terminalizing a live run gives it the outcome and one end event; else   *)
(* nothing happens.                                                        *)
LEMMA TerminalizeEnds ==
  ASSUME TypeOK, NEW outcome \in Terminal, Terminalize(outcome)
  PROVE  \/ /\ IsLive(current)
            /\ status' = [status EXCEPT ![current] = outcome]
            /\ ends' = [ends EXCEPT ![current] = @ + 1]
         \/ ~IsLive(current) /\ UNCHANGED <<status, ends>>
<1>1. CASE IsLive(current)
  <2>1. MayMove(status[current], outcome)
    BY <1>1 DEF IsLive, MayMove, Live, Terminal
  <2> QED
    BY <1>1, <2>1 DEF Terminalize, Transition, IsLive
<1> QED
  BY <1>1 DEF Terminalize

(* What both lemmas give for the type of the tracker's fields.             *)
LEMMA TerminalizeTypes ==
  ASSUME TypeOK, NEW outcome \in Terminal, Terminalize(outcome)
  PROVE  status' \in [Run -> Status] /\ ends' \in [Run -> Nat]
<1>1. IsLive(current) => current \in Run
  BY DEF IsLive, TypeOK
<1> QED
  BY <1>1, TerminalizeEnds DEF TypeOK, Status

-----------------------------------------------------------------------------
(* Type *)

LEMMA InitTypes == Init => TypeOK
<1> SUFFICES ASSUME Init PROVE TypeOK
  OBVIOUS
<1>1. turns \in [Run -> 0 .. MaxTurns]
  BY TurnAssumption DEF Init
<1>2. status \in [Run -> {"new"} \cup Live \cup Terminal]
  BY DEF Init
<1>3. task \in [Run -> {"none", "created", "done", "waiting"} \cup Busy]
  BY DEF Init
<1> QED
  BY <1>1, <1>2, <1>3 DEF Init, TypeOK

LEMMA NextTypes == TypeOK /\ [Next]_vars => TypeOK'
<1> SUFFICES ASSUME TypeOK, [Next]_vars PROVE TypeOK'
  OBVIOUS
<1> USE DEF Status, Live, Terminal, Busy
<1>1. ASSUME NEW r \in Run, StartRun(r) PROVE TypeOK'
  BY <1>1 DEF StartRun, TypeOK
<1>2. ASSUME NEW r \in Run, FirstStep(r) PROVE TypeOK'
  BY <1>2 DEF FirstStep, TypeOK, tracker
<1>3. ASSUME NEW r \in Run, NeverRun(r) PROVE TypeOK'
  BY <1>3 DEF NeverRun, TypeOK, tracker
<1>4. ASSUME NEW r \in Run, AskApproval(r) PROVE TypeOK'
  <2>1. status' \in [Run -> Status]
    <3>1. Transition("waiting_approval")
      BY <1>4 DEF AskApproval
    <3> QED
      BY <3>1, TransitionMoves
  <2>2. turns' \in [Run -> 0 .. MaxTurns]
    BY <1>4, TurnAssumption DEF AskApproval, TypeOK
  <2> QED
    BY <1>4, <2>1, <2>2 DEF AskApproval, TypeOK
<1>5. ASSUME NEW r \in Run, ApprovalEnds(r) PROVE TypeOK'
  <2>1. status' \in [Run -> Status]
    BY <1>5, TransitionMoves DEF ApprovalEnds, TypeOK
  <2> QED
    BY <1>5, <2>1 DEF ApprovalEnds, TypeOK
<1>6. ASSUME NEW r \in Run, Fail(r) PROVE TypeOK'
  <2>1. status' \in [Run -> Status] /\ ends' \in [Run -> Nat]
    BY <1>6, TerminalizeTypes DEF Fail
  <2> QED
    BY <1>6, <2>1 DEF Fail, TaskEnds, TypeOK
<1>7. ASSUME NEW r \in Run, NEW text \in BOOLEAN, Succeed(r, text)
      PROVE  TypeOK'
  <2>1. status' \in [Run -> Status] /\ ends' \in [Run -> Nat]
    BY <1>7, TerminalizeTypes DEF Succeed
  <2>2. session' \in BOOLEAN /\ answers' \in [Run -> Nat]
    <3>1. CASE text /\ IsLive(current)
      <4>1. session' = TRUE /\ answers' = [answers EXCEPT ![r] = @ + 1]
        BY <1>7, <3>1 DEF Succeed
      <4> QED
        BY <4>1 DEF TypeOK
    <3>2. CASE ~(text /\ IsLive(current))
      BY <1>7, <3>2 DEF Succeed, TypeOK
    <3> QED
      BY <3>1, <3>2
  <2> QED
    BY <1>7, <2>1, <2>2 DEF Succeed, TaskEnds, TypeOK
<1>8. ASSUME NEW r \in Run, HandOver(r) PROVE TypeOK'
  BY <1>8 DEF HandOver, TaskEnds, TypeOK, tracker
<1>9. ASSUME NEW r \in Run, CompletionSeen(r) PROVE TypeOK'
  BY <1>9 DEF CompletionSeen, TaskEnds, TypeOK, tracker
<1>10. ASSUME NEW r \in Run, CancelDelivered(r) PROVE TypeOK'
  <2>1. status' \in [Run -> Status] /\ ends' \in [Run -> Nat]
    BY <1>10, TerminalizeTypes DEF CancelDelivered
  <2> QED
    BY <1>10, <2>1 DEF CancelDelivered, TaskEnds, TypeOK
<1>11. ASSUME NEW r \in Run, ToolStep(r) PROVE TypeOK'
  BY <1>11 DEF ToolStep, TypeOK, tracker
<1>12. ASSUME Stop PROVE TypeOK'
  <2>1. status' \in [Run -> Status] /\ current \in Run
    BY <1>12, TransitionMoves DEF Stop, CancelRun, IsLive, TypeOK
  <2> QED
    BY <1>12, <2>1 DEF Stop, CancelRun, TypeOK
<1>13. ASSUME NEW r \in Run, Callback(r) PROVE TypeOK'
  <2>1. status' \in [Run -> Status] /\ ends' \in [Run -> Nat]
    BY <1>13, TerminalizeTypes DEF Callback
  <2> QED
    BY <1>13, <2>1 DEF Callback, TypeOK
<1>14. ASSUME NEW r \in Run, RemoteLost(r) PROVE TypeOK'
  BY <1>14 DEF RemoteLost, TypeOK, tracker
<1>15. ASSUME Expire PROVE TypeOK'
  BY <1>15 DEF Expire, TypeOK
<1>16. ASSUME DeleteBegins PROVE TypeOK'
  <2>1. CASE IsLive(current)
    <3>1. status' \in [Run -> Status] /\ current \in Run
      BY <1>16, <2>1, TransitionMoves DEF DeleteBegins, CancelRun, IsLive, TypeOK
    <3> QED
      BY <1>16, <2>1, <3>1 DEF DeleteBegins, CancelRun, TypeOK
  <2> QED
    BY <1>16, <2>1 DEF DeleteBegins, TypeOK
<1>17. ASSUME NEW stopped \in BOOLEAN, DeleteWaited(stopped) PROVE TypeOK'
  BY <1>17 DEF DeleteWaited, TypeOK, tracker
<1>18. ASSUME DeleteAborts PROVE TypeOK'
  BY <1>18 DEF DeleteAborts, TypeOK, tracker
<1>19. ASSUME DeleteFinishes PROVE TypeOK'
  BY <1>19 DEF DeleteFinishes, TypeOK
<1>20. CASE UNCHANGED vars
  BY <1>20 DEF vars, TypeOK
<1> QED
  BY <1>1, <1>2, <1>3, <1>4, <1>5, <1>6, <1>7, <1>8, <1>9, <1>10, <1>11,
     <1>12, <1>13, <1>14, <1>15, <1>16, <1>17, <1>18, <1>19, <1>20
  DEF Next, TaskStep

(* Every reachable state of the run lifecycle is well typed.               *)
THEOREM LifecycleTypes == Spec => []TypeOK
<1> QED
  BY InitTypes, NextTypes, PTL DEF Spec

-----------------------------------------------------------------------------
(* The end of the log *)

LEMMA TerminalizeKeepsEnds ==
  ASSUME TypeOK, EndsOnce, NEW outcome \in Terminal, Terminalize(outcome)
  PROVE  EndsOnce'
<1>1. CASE /\ IsLive(current)
           /\ status' = [status EXCEPT ![current] = outcome]
           /\ ends' = [ends EXCEPT ![current] = @ + 1]
  <2>1. current \in Run /\ status[current] \notin Terminal
    BY <1>1 DEF IsLive, TypeOK, Live, Terminal
  <2>2. ends[current] = 0
    BY <2>1 DEF EndsOnce
  <2>3. \A r \in Run \ {current} : status'[r] = status[r] /\ ends'[r] = ends[r]
    BY <1>1 DEF TypeOK
  <2>4. status'[current] = outcome /\ ends'[current] = 1
    BY <1>1, <2>1, <2>2 DEF TypeOK
  <2> QED
    BY <2>3, <2>4 DEF EndsOnce
<1>2. CASE UNCHANGED <<status, ends>>
  BY <1>2 DEF EndsOnce
<1> QED
  BY <1>1, <1>2, TerminalizeEnds

LEMMA TransitionKeepsEnds ==
  ASSUME TypeOK, EndsOnce, NEW to \in Live, Transition(to), UNCHANGED ends
  PROVE  EndsOnce'
<1>1. \A s \in Run : status'[s] \in Terminal <=> status[s] \in Terminal
  BY TransitionMoves DEF Live, Terminal
<1> QED
  BY <1>1 DEF EndsOnce

LEMMA NextEnds == TypeOK /\ EndsOnce /\ [Next]_vars => EndsOnce'
<1> SUFFICES ASSUME TypeOK, EndsOnce, [Next]_vars PROVE EndsOnce'
  OBVIOUS
<1>1. ASSUME UNCHANGED <<status, ends>> PROVE EndsOnce'
  BY <1>1 DEF EndsOnce
<1>2. ASSUME NEW r \in Run, StartRun(r) PROVE EndsOnce'
  <2>1. \A s \in Run : status'[s] \in Terminal <=> status[s] \in Terminal
    BY <1>2 DEF StartRun, TypeOK, Terminal
  <2> QED
    BY <1>2, <2>1 DEF StartRun, EndsOnce
<1>3. ASSUME NEW r \in Run, TaskStep(r) PROVE EndsOnce'
  <2>1. CASE FirstStep(r) \/ NeverRun(r) \/ HandOver(r) \/ CompletionSeen(r)
    BY <1>1, <2>1 DEF FirstStep, NeverRun, HandOver, CompletionSeen, tracker
  <2>2. CASE AskApproval(r)
    BY <2>2, TransitionKeepsEnds DEF AskApproval, Live
  <2>3. CASE ApprovalEnds(r)
    BY <1>1, <2>3, TransitionKeepsEnds DEF ApprovalEnds, Live
  <2>4. CASE Fail(r) \/ \E text \in BOOLEAN : Succeed(r, text)
    BY <2>4, TerminalizeKeepsEnds DEF Fail, Succeed, Terminal
  <2>5. CASE CancelDelivered(r)
    BY <2>5, TerminalizeKeepsEnds DEF CancelDelivered, Terminal
  <2> QED
    BY <1>3, <2>1, <2>2, <2>3, <2>4, <2>5 DEF TaskStep
<1>4. ASSUME Stop \/ DeleteBegins PROVE EndsOnce'
  BY <1>1, <1>4, TransitionKeepsEnds DEF Stop, DeleteBegins, CancelRun, Live
<1>5. ASSUME NEW r \in Run, Callback(r) PROVE EndsOnce'
  BY <1>5, TerminalizeKeepsEnds DEF Callback, Terminal
<1>6. ASSUME NEW r \in Run, ToolStep(r) \/ RemoteLost(r) PROVE EndsOnce'
  BY <1>1, <1>6 DEF ToolStep, RemoteLost, tracker
<1>7. ASSUME \/ Expire \/ DeleteAborts \/ DeleteFinishes
             \/ \E stopped \in BOOLEAN : DeleteWaited(stopped)
      PROVE  EndsOnce'
  BY <1>1, <1>7 DEF Expire, DeleteAborts, DeleteFinishes, DeleteWaited, tracker
<1>8. CASE UNCHANGED vars
  BY <1>1, <1>8 DEF vars
<1> QED
  BY <1>2, <1>3, <1>4, <1>5, <1>6, <1>7, <1>8 DEF Next

(* The log of every run ends exactly once, and exactly with a terminal     *)
(* status: external runs, late callbacks, early stops and deletions        *)
(* included.                                                               *)
THEOREM LogEndsOnce == Spec => []EndsOnce
<1>1. Init => EndsOnce
  BY DEF Init, EndsOnce, Terminal
<1> QED
  BY <1>1, InitTypes, NextTypes, NextEnds, PTL DEF Spec

-----------------------------------------------------------------------------
(* Whose run a task acts on *)

(* Without external runs nobody but the tasks ends a run, and without      *)
(* deletions nobody forgets a live one.                                    *)
OwnInv ==
  /\ TypeOK
  /\ \A r \in Run : status[r] = "new" => task[r] = "none"
  /\ \A r \in Run : task[r] # "waiting" /\ remote[r] = "none"
  /\ deletion = "idle"
  /\ TaskOwnsThread
  /\ AnswerOfFinishedRun

(* No run starts or ends in this step.                                     *)
KindKept ==
  \A s \in Run : /\ status'[s] \in Live <=> status[s] \in Live
                 /\ status'[s] = "finished" <=> status[s] = "finished"
                 /\ status'[s] = "new" <=> status[s] = "new"

LEMMA KindKeeps ==
  ASSUME KindKept, UNCHANGED <<current, answers>>
  PROVE  /\ AnswerOfFinishedRun => AnswerOfFinishedRun'
         /\ (/\ TaskOwnsThread
             /\ \A s \in Run : (task'[s] \in {"created"} \cup Busy =>
                                 task[s] \in {"created"} \cup Busy))
            => TaskOwnsThread'
  BY DEF KindKept, AnswerOfFinishedRun, TaskOwnsThread, IsLive

LEMMA NextOwn ==
  ASSUME External = {}, ~Deletion, OwnInv, [Next]_vars
  PROVE  OwnInv'
<1> USE DEF OwnInv
<1>1. TypeOK /\ TypeOK'
  BY NextTypes
<1>2. ASSUME NEW to \in Live, Transition(to)
      PROVE  KindKept
  BY <1>1, <1>2, TransitionMoves DEF KindKept, Live
<1>3. ASSUME KindKept, NEW r \in Run, task[r] \in {"created"} \cup Busy,
             NEW to \in Busy, task' = [task EXCEPT ![r] = to],
             UNCHANGED <<current, remote, deletion, answers>>
      PROVE  OwnInv'
  <2>1. \A s \in Run : task'[s] \in {"created"} \cup Busy =>
                         task[s] \in {"created"} \cup Busy
    BY <1>1, <1>3 DEF TypeOK
  <2>2. TaskOwnsThread'
    BY <1>3, <2>1, KindKeeps
  <2>3. AnswerOfFinishedRun'
    BY <1>3, KindKeeps
  <2>4. \A s \in Run : task[s] = "none" => task'[s] = "none"
    BY <1>1, <1>3 DEF TypeOK, Busy
  <2>5. \A s \in Run : task'[s] # "waiting"
    BY <1>1, <1>3 DEF TypeOK, Busy
  <2> QED
    BY <1>1, <1>3, <2>2, <2>3, <2>4, <2>5 DEF KindKept
<1>4. ASSUME NEW r \in Run, task[r] \in Busy, NEW outcome \in Terminal,
             Terminalize(outcome), task' = [task EXCEPT ![r] = "done"],
             \/ UNCHANGED answers
             \/ /\ outcome = "finished" /\ answers' = [answers EXCEPT ![r] = @ + 1],
             UNCHANGED <<current, remote, deletion>>
      PROVE  OwnInv'
  <2>1. current = r /\ IsLive(r) /\ answers[r] = 0
    BY <1>1, <1>4 DEF TaskOwnsThread, AnswerOfFinishedRun, IsLive, Live, TypeOK
  <2>2. status' = [status EXCEPT ![r] = outcome]
    BY <1>1, <1>4, <2>1, TerminalizeEnds
  <2>3. \A s \in Run \ {r} : task[s] \notin {"created"} \cup Busy
    BY <2>1 DEF TaskOwnsThread
  <2>4. TaskOwnsThread'
    BY <1>1, <1>4, <2>3 DEF TypeOK, TaskOwnsThread, Busy
  <2>5. AnswerOfFinishedRun'
    BY <1>1, <1>4, <2>1, <2>2 DEF TypeOK, AnswerOfFinishedRun
  <2>6. \A s \in Run : status'[s] = "new" => task'[s] = "none"
    BY <1>1, <1>4, <2>2 DEF TypeOK, Terminal
  <2> QED
    BY <1>1, <1>4, <2>4, <2>5, <2>6 DEF TypeOK
<1>5. ASSUME NEW r \in Run, StartRun(r) PROVE OwnInv'
  <2>1. \A s \in Run : task[s] \notin {"created"} \cup Busy
    BY <1>5 DEF StartRun, TaskOwnsThread
  <2>2. current' = r /\ status' = [status EXCEPT ![r] = "running"]
        /\ task' = [task EXCEPT ![r] = "created"]
    BY <1>5 DEF StartRun
  <2>3. TaskOwnsThread'
    BY <1>1, <2>1, <2>2, RunAssumption DEF TypeOK, TaskOwnsThread, IsLive, Live
  <2>4. AnswerOfFinishedRun'
    BY <1>1, <1>5, <2>2 DEF StartRun, TypeOK, AnswerOfFinishedRun
  <2> QED
    BY <1>1, <1>5, <2>2, <2>3, <2>4 DEF StartRun, TypeOK
<1>6. ASSUME NEW r \in Run, FirstStep(r) PROVE OwnInv'
  <2>1. KindKept
    BY <1>6 DEF FirstStep, tracker, KindKept
  <2> QED
    BY <1>3, <1>6, <2>1 DEF FirstStep, tracker, Busy
<1>7. ASSUME NEW r \in Run, NeverRun(r) PROVE OwnInv'
  <2>1. KindKept
    BY <1>7 DEF NeverRun, tracker, KindKept
  <2>2. \A s \in Run : /\ task'[s] \in {"created"} \cup Busy =>
                           task[s] \in {"created"} \cup Busy
                       /\ task[s] = "none" => task'[s] = "none"
                       /\ task'[s] # "waiting"
    BY <1>1, <1>7 DEF NeverRun, TypeOK, Busy
  <2>3. TaskOwnsThread' /\ AnswerOfFinishedRun'
    BY <1>7, <2>1, <2>2, KindKeeps DEF NeverRun, tracker
  <2> QED
    BY <1>1, <1>7, <2>2, <2>3 DEF NeverRun, tracker
<1>8. ASSUME NEW r \in Run, AskApproval(r) PROVE OwnInv'
  <2>1. Transition("waiting_approval")
    BY <1>8 DEF AskApproval
  <2>2. KindKept
    BY <1>2, <2>1 DEF Live
  <2> QED
    BY <1>3, <1>8, <2>2 DEF AskApproval, Busy
<1>9. ASSUME NEW r \in Run, ApprovalEnds(r) PROVE OwnInv'
  <2>1. Transition("running") \/ UNCHANGED status
    BY <1>9 DEF ApprovalEnds
  <2>2. KindKept
    BY <1>2, <2>1 DEF Live, KindKept
  <2> QED
    BY <1>3, <1>9, <2>2 DEF ApprovalEnds, Busy
<1>10. ASSUME NEW r \in Run,
              Fail(r) \/ CancelDelivered(r) \/ \E text \in BOOLEAN : Succeed(r, text)
       PROVE  OwnInv'
  BY <1>4, <1>10 DEF Fail, CancelDelivered, Succeed, TaskEnds, Busy, Terminal
<1>11. ASSUME NEW r \in Run
       PROVE  ~HandOver(r) /\ ~CompletionSeen(r) /\ ~Callback(r) /\ ~RemoteLost(r)
  BY DEF HandOver, CompletionSeen, Callback, RemoteLost
<1>12. ASSUME NEW r \in Run, ToolStep(r) PROVE OwnInv'
  BY <1>1, <1>12 DEF ToolStep, tracker, TaskOwnsThread, IsLive, AnswerOfFinishedRun
<1>13. ASSUME Stop PROVE OwnInv'
  <2>1. Transition("stopping")
    BY <1>13 DEF Stop, CancelRun
  <2>2. KindKept
    BY <1>2, <2>1 DEF Live
  <2>3. TaskOwnsThread' /\ AnswerOfFinishedRun'
    BY <1>13, <2>2, KindKeeps DEF Stop
  <2> QED
    BY <1>1, <1>13, <2>2, <2>3 DEF Stop, KindKept
<1>14. ASSUME Expire PROVE OwnInv'
  <2>1. \A s \in Run : task[s] \notin {"created"} \cup Busy
    BY <1>14 DEF Expire, TaskOwnsThread, IsLive, Live, Terminal
  <2> QED
    BY <1>1, <1>14, <2>1 DEF Expire, TaskOwnsThread, AnswerOfFinishedRun
<1>15. ~DeleteBegins /\ ~DeleteAborts /\ ~DeleteFinishes
       /\ \A stopped \in BOOLEAN : ~DeleteWaited(stopped)
  BY DEF DeleteBegins, DeleteAborts, DeleteFinishes, DeleteWaited
<1>16. CASE UNCHANGED vars
  BY <1>1, <1>16 DEF vars, TaskOwnsThread, IsLive, AnswerOfFinishedRun
<1> QED
  BY <1>5, <1>6, <1>7, <1>8, <1>9, <1>10, <1>11, <1>12, <1>13, <1>14, <1>15,
     <1>16 DEF Next, TaskStep

LEMMA InitOwn == Init => OwnInv
<1> SUFFICES ASSUME Init PROVE OwnInv
  OBVIOUS
<1>1. TaskOwnsThread
  BY DEF Init, TaskOwnsThread, Busy
<1>2. AnswerOfFinishedRun
  <2>1. \A r \in Run : answers[r] = 0
    BY DEF Init
  <2>2. 0 <= 1 /\ 0 # 1
    OBVIOUS
  <2> QED
    BY <2>1, <2>2, Zenon DEF AnswerOfFinishedRun
<1>3. \A r \in Run : task[r] = "none" /\ remote[r] = "none"
  BY DEF Init
<1>4. deletion = "idle"
  BY DEF Init
<1> QED
  BY <1>1, <1>2, <1>3, <1>4, InitTypes DEF OwnInv

LEMMA SpecOwn ==
  ASSUME External = {}, ~Deletion
  PROVE  Spec => []OwnInv
<1>1. Init => OwnInv
  BY InitOwn
<1>2. OwnInv /\ [Next]_vars => OwnInv'
  BY NextOwn
<1> QED
  BY <1>1, <1>2, PTL DEF Spec

(* Where every run is served in the process and no session is deleted, a   *)
(* task acts by thread on its own run, and the run is live; stops may      *)
(* overtake the first step of a task.                                      *)
THEOREM ThreadOwnership ==
  ASSUME External = {}, ~Deletion
  PROVE  Spec => []TaskOwnsThread
<1>1. OwnInv => TaskOwnsThread
  BY DEF OwnInv
<1> QED
  BY <1>1, SpecOwn, PTL

(* And it persists one answer at most, for a run reported as finished.     *)
THEOREM AnswersBelong ==
  ASSUME External = {}, ~Deletion
  PROVE  Spec => []AnswerOfFinishedRun
<1>1. OwnInv => AnswerOfFinishedRun
  BY DEF OwnInv
<1> QED
  BY <1>1, SpecOwn, PTL
=============================================================================
