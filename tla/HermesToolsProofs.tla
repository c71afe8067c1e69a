-------------------------- MODULE HermesToolsProofs --------------------------
(***************************************************************************)
(* Proofs about HermesTools, for every set of calls, requests and          *)
(* arguments and any number of restarts.                                   *)
(*                                                                         *)
(* The inductive invariant has two halves that do not need each other: who *)
(* leads a call and what its record, future and prompt then are (Calls),   *)
(* and how the run's tracker status, chat task, cancel request and durable *)
(* record hang together (Runs).  WaitingIsOwned needs both.                *)
(***************************************************************************)
EXTENDS HermesTools, TLAPS

(* The types of what callbacks change, and of what belongs to the run.     *)
CallTypes ==
  /\ record \in [Call -> {NoRecord} \cup [state: ToolState, params: Params]]
  /\ pc \in [Request -> {"idle", "done"} \cup Inside]
  /\ target \in [Request -> Call \cup {None}]
  /\ lock \in Request \cup {None}
  /\ future \in [Call -> {None, "pending"} \cup ToolTerminal]
  /\ answer \in [Request -> {None} \cup Answers]
  /\ started \in [Call -> Nat]

AskTypes ==
  /\ prompt \in [Call -> {None} \cup PromptState]
  /\ decision \in [Call -> {None, "approve", "deny"}]
  /\ expired \subseteq Request

RunTypes ==
  /\ status \in TrackerLive \cup TrackerEnded \cup {"gone"}
  /\ tracked \in BOOLEAN
  /\ successor \in {None} \cup TrackerLive \cup TrackerEnded
  /\ stopped \in BOOLEAN
  /\ chat \in {"starting", "submitting", "streaming", "closing", "ended"}
  /\ cancelling \in BOOLEAN
  /\ runRecord \in {None} \cup RunStatus

(* The state a record is in while its leader stands at p.                  *)
StateAt(p) ==
  IF p \in {"queued", "preparing"} THEN "received"
  ELSE IF p = "asking" THEN "waiting_approval" ELSE "executing"

(* A request is answered when it is done, and an outcome it was told is    *)
(* the record's; a follower has a future to wait for.                      *)
Requests ==
  \A q \in Request :
    /\ pc[q] # "done" => answer[q] = None
    /\ pc[q] \in Inside => target[q] \in Call
    /\ answer[q] \in ToolTerminal =>
         target[q] \in Call /\ record[target[q]].state = answer[q]
    /\ pc[q] = "following" => future[target[q]] # None

(* The leader of a call is alone, nobody else has written its record, and  *)
(* nobody has resolved its future.                                         *)
Leaders ==
  \A q \in Request : pc[q] \in Leading =>
    /\ future[target[q]] = "pending"
    /\ record[target[q]].state = StateAt(pc[q])
    /\ \A r \in Request : pc[r] \in Leading /\ target[r] = target[q] => r = q

Futures == \A c \in Call : future[c] \in ToolTerminal => record[c].state = future[c]

(* What is not begun has not been started, and what is not prepared has    *)
(* not been asked for.                                                     *)
Beginnings ==
  \A c \in Call :
    /\ record[c].state \in {None, "received"} => prompt[c] = None
    /\ record[c].state \in {None, "received", "waiting_approval"} => started[c] = 0
    /\ started[c] <= 1

Calls == /\ CallTypes /\ AskTypes
         /\ Requests /\ Leaders /\ Futures /\ Beginnings
         /\ OneAtATime /\ ApprovalRespected

(* A run whose task has ended or that a stop reached is not executable any *)
(* more, one the tracker has dropped was over; a record that says stopping *)
(* is about to be written by the cancel request or by the task.            *)
Runs ==
  /\ RunTypes
  /\ chat = "ended" => status \notin TrackerLive
  /\ stopped => status \notin Executable
  /\ ~tracked => status \notin TrackerLive
  /\ chat = "starting" => runRecord = None
  /\ runRecord = "stopping" =>
       cancelling \/ (chat = "submitting" /\ status = "stopping")

Inv == Calls /\ Runs /\ restarts \in 0 .. MaxRestarts /\ WaitingIsOwned

-----------------------------------------------------------------------------
(* Facts the steps share *)

LEMMA TypesSplit == TypeOK <=> CallTypes /\ AskTypes /\ RunTypes /\ restarts \in 0 .. MaxRestarts
BY DEF TypeOK, CallTypes, AskTypes, RunTypes

(* A record in the state of a leader is one, and is not final.             *)
LEMMA LeaderRecord ==
  ASSUME Calls, NEW q \in Request, pc[q] \in Leading
  PROVE  /\ target[q] \in Call
         /\ record[target[q]] \in [state: ToolState, params: Params]
         /\ record[target[q]].state = StateAt(pc[q])
         /\ StateAt(pc[q]) \in {"received", "waiting_approval", "executing"}
         /\ record[target[q]].state \notin ToolTerminal
         /\ future[target[q]] = "pending"
         /\ answer[q] = None
<1>1. pc[q] \in Inside /\ pc[q] # "done"
  BY DEF Leading, Inside
<1>2. target[q] \in Call /\ answer[q] = None
  BY <1>1 DEF Calls, Requests
<1>3. record[target[q]].state = StateAt(pc[q]) /\ future[target[q]] = "pending"
  BY DEF Calls, Leaders
<1>4. StateAt(pc[q]) \in {"received", "waiting_approval", "executing"}
  BY DEF StateAt
<1>5. StateAt(pc[q]) # None /\ StateAt(pc[q]) \notin ToolTerminal
  BY <1>4, NoneAssumption DEF ToolState, ToolTerminal
<1> QED
  BY <1>2, <1>3, <1>4, <1>5 DEF Calls, CallTypes, NoRecord

(* Writing the state of a record that is there.                            *)
LEMMA Restated ==
  ASSUME CallTypes, NEW c \in Call, NEW s \in ToolState,
         record[c] \in [state: ToolState, params: Params],
         record' = [record EXCEPT ![c].state = s]
  PROVE  /\ record' \in [Call -> {NoRecord} \cup [state: ToolState, params: Params]]
         /\ record'[c].state = s
         /\ record'[c].params = record[c].params
         /\ \A d \in Call \ {c} : record'[d] = record[d]
BY DEF CallTypes

-----------------------------------------------------------------------------
(* The steps of a callback keep Calls *)

(* The prompts change at most for a call that has not been started.        *)
Unprompted(c) ==
  /\ AskTypes'
  /\ \A d \in Call : prompt'[d] = prompt[d] \/ (d = c /\ started[d] = 0)

(* A leader that leaves: its record gets the result, its future too, the   *)
(* lock is free for the next.                                              *)
LEMMA LeaveEffects ==
  ASSUME Calls, NEW q \in Request, pc[q] \in Leading,
         NEW s \in ToolTerminal, NEW a \in {s, "aborted"}, Leave(q, s, a)
  PROVE  LET c == target[q] IN
         /\ record' \in [Call -> {NoRecord} \cup [state: ToolState, params: Params]]
         /\ record'[c].state = s
         /\ future' = [future EXCEPT ![c] = s]
         /\ lock' = IF lock = q THEN None ELSE lock
         /\ target' = target
         /\ pc'[q] = "done" /\ answer'[q] = a /\ a \in Answers
         /\ pc' = [pc EXCEPT ![q] = "done"] /\ answer' = [answer EXCEPT ![q] = a]
         /\ \A r \in Request \ {q} : pc'[r] = pc[r] /\ answer'[r] = answer[r]
         /\ \A d \in Call \ {c} : record'[d] = record[d]
<1> DEFINE c == target[q]
<1>1. /\ c \in Call /\ record[c] \in [state: ToolState, params: Params]
      /\ record[c].state \notin ToolTerminal /\ future[c] = "pending"
  BY LeaderRecord
<1> USE DEF Calls
<1>2. /\ record' = [record EXCEPT ![c].state = s]
      /\ future' = [future EXCEPT ![c] = s]
      /\ lock' = IF lock = q THEN None ELSE lock
      /\ pc' = [pc EXCEPT ![q] = "done"]
      /\ target' = [target EXCEPT ![q] = c]
      /\ answer' = [answer EXCEPT ![q] = a]
  BY <1>1 DEF Leave, Answer
<1>3. s \in ToolState /\ a \in Answers
  BY DEF ToolState, Answers
<1>4. /\ record' \in [Call -> {NoRecord} \cup [state: ToolState, params: Params]]
      /\ record'[c].state = s
      /\ \A d \in Call \ {c} : record'[d] = record[d]
  BY <1>1, <1>2, <1>3, Restated
<1>5. target' = target
  BY <1>2 DEF CallTypes
<1>6. /\ pc'[q] = "done" /\ answer'[q] = a
      /\ \A r \in Request \ {q} : pc'[r] = pc[r] /\ answer'[r] = answer[r]
  BY <1>2 DEF CallTypes
<1> QED
  BY <1>2, <1>3, <1>4, <1>5, <1>6

LEMMA LeaveKeeps ==
  ASSUME Calls, NEW q \in Request, pc[q] \in Leading,
         NEW s \in ToolTerminal, NEW a \in {s, "aborted"}, Leave(q, s, a),
         UNCHANGED started, Unprompted(target[q])
  PROVE  Calls'
<1> DEFINE c == target[q]
<1>1. /\ c \in Call /\ record[c] \in [state: ToolState, params: Params]
      /\ record[c].state = StateAt(pc[q])
      /\ record[c].state \notin ToolTerminal /\ future[c] = "pending" /\ answer[q] = None
  BY LeaderRecord
<1>2. /\ record' \in [Call -> {NoRecord} \cup [state: ToolState, params: Params]]
      /\ future' = [future EXCEPT ![c] = s]
      /\ lock' = IF lock = q THEN None ELSE lock
      /\ pc' = [pc EXCEPT ![q] = "done"] /\ answer' = [answer EXCEPT ![q] = a]
  BY LeaveEffects
<1>3. a \in Answers
  BY LeaveEffects
<1>4. /\ record'[c].state = s
      /\ \A d \in Call \ {c} : record'[d] = record[d]
  BY LeaveEffects
<1>5. target' = target
  BY LeaveEffects
<1> USE DEF Calls
<1>6. CallTypes'
  <2>1. pc' \in [Request -> {"idle", "done"} \cup Inside]
    BY <1>2 DEF CallTypes
  <2>2. future' \in [Call -> {None, "pending"} \cup ToolTerminal]
    BY <1>2 DEF CallTypes
  <2>3. answer' \in [Request -> {None} \cup Answers]
    BY <1>2, <1>3 DEF CallTypes
  <2>4. lock' \in Request \cup {None}
    BY <1>2 DEF CallTypes
  <2> QED
    BY <1>2, <1>5, <2>1, <2>2, <2>3, <2>4 DEF CallTypes
<1>7. /\ pc'[q] = "done" /\ answer'[q] = a /\ future'[c] = s
      /\ \A r \in Request \ {q} : pc'[r] = pc[r] /\ answer'[r] = answer[r]
      /\ \A d \in Call \ {c} : future'[d] = future[d]
  BY <1>1, <1>2 DEF CallTypes
<1>8. /\ None \notin ToolTerminal /\ "aborted" \notin ToolTerminal /\ "pending" \notin ToolTerminal
  BY NoneAssumption DEF ToolState, ToolTerminal
<1>9. "done" \notin Inside /\ "done" \notin Leading
  BY DEF Inside, Leading
<1>10. Requests'
  <2> SUFFICES ASSUME NEW r \in Request
      PROVE  /\ pc'[r] # "done" => answer'[r] = None
             /\ pc'[r] \in Inside => target'[r] \in Call
             /\ answer'[r] \in ToolTerminal =>
                  target'[r] \in Call /\ record'[target'[r]].state = answer'[r]
             /\ pc'[r] = "following" => future'[target'[r]] # None
    BY DEF Requests
  <2>1. CASE r = q
    BY <2>1, <1>1, <1>4, <1>5, <1>7, <1>8, <1>9
  <2>2. CASE r # q
    <3>1. answer[r] \in ToolTerminal => target[r] # c
      BY <1>1 DEF Requests
    <3> QED
      BY <2>2, <3>1, <1>4, <1>5, <1>7, <1>8 DEF Requests, Inside
  <2> QED
    BY <2>1, <2>2
<1>11. Leaders'
  <2> SUFFICES ASSUME NEW r \in Request, pc'[r] \in Leading
      PROVE  /\ future'[target'[r]] = "pending"
             /\ record'[target'[r]].state = StateAt(pc'[r])
             /\ \A x \in Request : pc'[x] \in Leading /\ target'[x] = target'[r] => x = r
    BY DEF Leaders, StateAt
  <2>1. r # q /\ pc[r] \in Leading
    BY <1>7, <1>9
  <2>2. target[r] # c /\ target[r] \in Call
    BY <2>1, LeaderRecord DEF Leaders
  <2> QED
    BY <2>1, <2>2, <1>4, <1>5, <1>7, <1>9 DEF Leaders, StateAt
<1>12. Futures'
  <2> SUFFICES ASSUME NEW d \in Call, future'[d] \in ToolTerminal
      PROVE  record'[d].state = future'[d]
    BY DEF Futures
  <2>1. CASE d = c
    BY <2>1, <1>4, <1>7
  <2>2. CASE d # c
    BY <2>2, <1>4, <1>7 DEF Futures
  <2> QED
    BY <2>1, <2>2
<1>13. Beginnings'
  <2>1. s \notin {None, "received", "waiting_approval"}
    BY <1>8 DEF ToolTerminal
  <2>2. c \in Call /\ \A d \in Call \ {c} : prompt'[d] = prompt[d]
    BY <1>1 DEF Unprompted
  <2> QED
    BY <2>1, <2>2, <1>4 DEF Beginnings
<1>14. OneAtATime'
  BY <1>2, <1>7, <1>9, CallAssumption DEF OneAtATime
<1>15. ApprovalRespected'
  BY DEF ApprovalRespected, Unprompted
<1> QED
  BY <1>6, <1>10, <1>11, <1>12, <1>13, <1>14, <1>15 DEF Unprompted

(* A request that is answered without leading anything.                    *)
LEMMA AnswerKeeps ==
  ASSUME Calls, NEW q \in Request, pc[q] \in {"idle", "following"},
         NEW c \in Call, NEW a \in Answers, Answer(q, c, a),
         a \in ToolTerminal => record[c].state = a,
         UNCHANGED <<record, lock, future, started, askVars>>
  PROVE  Calls'
<1> USE DEF Calls
<1>1. /\ pc' = [pc EXCEPT ![q] = "done"]
      /\ target' = [target EXCEPT ![q] = c]
      /\ answer' = [answer EXCEPT ![q] = a]
  BY DEF Answer
<1>2. pc[q] \notin Leading /\ "done" \notin Leading /\ "done" \notin Inside
  BY DEF Leading, Inside
<1>3. CallTypes'
  BY <1>1 DEF CallTypes
<1>4. /\ pc'[q] = "done" /\ target'[q] = c /\ answer'[q] = a
      /\ \A r \in Request \ {q} :
           pc'[r] = pc[r] /\ target'[r] = target[r] /\ answer'[r] = answer[r]
  BY <1>1 DEF CallTypes
<1>5. Requests'
  BY <1>2, <1>4 DEF Requests
<1>6. Leaders'
  BY <1>2, <1>4 DEF Leaders, StateAt
<1>7. OneAtATime'
  BY <1>2, <1>4 DEF OneAtATime
<1> QED
  BY <1>3, <1>5, <1>6, <1>7 DEF AskTypes, askVars, Futures, Beginnings, ApprovalRespected

(* A leader that goes on to p: only its own record, prompt and start count *)
(* change, as befits p, and it has the lock.                               *)
Advances(q, p) ==
  LET c == target[q] IN
  /\ pc' = [pc EXCEPT ![q] = p]
  /\ lock \in {None, q} /\ lock' = q
  /\ UNCHANGED <<target, future, answer>>
  /\ record' \in [Call -> {NoRecord} \cup [state: ToolState, params: Params]]
  /\ record'[c].state = StateAt(p)
  /\ AskTypes' /\ started' \in [Call -> Nat]
  /\ \A d \in Call \ {c} :
       record'[d] = record[d] /\ prompt'[d] = prompt[d] /\ started'[d] = started[d]
  /\ StateAt(p) = "received" => prompt'[c] = None
  /\ StateAt(p) # "executing" => started'[c] = 0
  /\ \/ started'[c] = 0
     \/ started'[c] = 1 /\ prompt'[c] \in {None, "approved"}

LEMMA AdvanceKeeps ==
  ASSUME Calls, NEW q \in Request, pc[q] \in Leading,
         NEW p \in Leading \ {"queued"}, Advances(q, p)
  PROVE  Calls'
<1> DEFINE c == target[q]
<1>1. /\ c \in Call
      /\ record[c].state = StateAt(pc[q]) /\ record[c].state \notin ToolTerminal
      /\ future[c] = "pending" /\ answer[q] = None
  BY LeaderRecord
<1> USE DEF Calls
<1>2. StateAt(p) \notin ToolTerminal /\ StateAt(p) # None
  <2>1. StateAt(p) \in ToolState \ ToolTerminal
    BY DEF StateAt, ToolState, ToolTerminal
  <2> QED
    BY <2>1, NoneAssumption
<1>3. /\ pc'[q] = p /\ p # "done" /\ p \in Inside /\ p # "following"
      /\ \A r \in Request \ {q} : pc'[r] = pc[r]
  BY DEF Advances, CallTypes, Leading, Inside
<1>4. CallTypes'
  <2>1. pc' \in [Request -> {"idle", "done"} \cup Inside]
    BY <1>3 DEF CallTypes, Advances
  <2> QED
    BY <2>1 DEF CallTypes, Advances
<1>5. Requests'
  <2> SUFFICES ASSUME NEW r \in Request
      PROVE  /\ pc'[r] # "done" => answer'[r] = None
             /\ pc'[r] \in Inside => target'[r] \in Call
             /\ answer'[r] \in ToolTerminal =>
                  target'[r] \in Call /\ record'[target'[r]].state = answer'[r]
             /\ pc'[r] = "following" => future'[target'[r]] # None
    BY DEF Requests
  <2>1. UNCHANGED <<target, future, answer>>
    BY DEF Advances
  <2>2. answer[r] \in ToolTerminal => target[r] \in Call /\ target[r] # c
    BY <1>1 DEF Requests
  <2>3. answer[r] \in ToolTerminal => record'[target[r]] = record[target[r]]
    BY <2>2 DEF Advances
  <2>4. pc[q] \in Inside
    BY DEF Leading
  <2> QED
    BY <2>1, <2>2, <2>3, <2>4, <1>1, <1>3 DEF Requests
<1>6. Leaders'
  <2> SUFFICES ASSUME NEW r \in Request, pc'[r] \in Leading
      PROVE  /\ future'[target'[r]] = "pending"
             /\ record'[target'[r]].state = StateAt(pc'[r])
             /\ \A x \in Request : pc'[x] \in Leading /\ target'[x] = target'[r] => x = r
    BY DEF Leaders, StateAt
  <2>1. UNCHANGED <<target, future>>
    BY DEF Advances
  <2>2. pc[r] \in Leading /\ \A x \in Request : pc'[x] \in Leading => pc[x] \in Leading
    BY <1>3
  <2>3. CASE r = q
    BY <2>1, <2>2, <2>3, <1>1, <1>3 DEF Leaders, Advances
  <2>4. CASE r # q
    <3>1. target[r] # c /\ target[r] \in Call
      BY <2>2, <2>4, LeaderRecord DEF Leaders
    <3>2. record'[target[r]] = record[target[r]] /\ pc'[r] = pc[r]
      BY <3>1, <2>4, <1>3 DEF Advances
    <3> QED
      BY <3>2, <2>1, <2>2 DEF Leaders
  <2> QED
    BY <2>3, <2>4
<1>7. Futures'
  <2> SUFFICES ASSUME NEW d \in Call, future'[d] \in ToolTerminal
      PROVE  record'[d].state = future'[d]
    BY DEF Futures
  <2>1. future' = future /\ d # c
    BY <1>1, NoneAssumption DEF Advances, ToolTerminal
  <2> QED
    BY <2>1 DEF Advances, Futures
<1>8. Beginnings'
  <2> SUFFICES ASSUME NEW d \in Call
      PROVE  /\ record'[d].state \in {None, "received"} => prompt'[d] = None
             /\ record'[d].state \in {None, "received", "waiting_approval"} => started'[d] = 0
             /\ started'[d] <= 1
    BY DEF Beginnings
  <2>1. CASE d = c
    BY <2>1, <1>2 DEF Advances, StateAt
  <2>2. CASE d # c
    BY <2>2 DEF Advances, Beginnings
  <2> QED
    BY <2>1, <2>2
<1>9. OneAtATime'
  BY <1>3, CallAssumption DEF OneAtATime, Advances
<1>10. ApprovalRespected'
  BY DEF ApprovalRespected, Advances
<1> QED
  BY <1>4, <1>5, <1>6, <1>7, <1>8, <1>9, <1>10 DEF Advances

-----------------------------------------------------------------------------
(* The callback actions *)

(* The lock is free for its holder only.                                   *)
LEMMA HolderOfLock ==
  ASSUME Calls, NEW q \in Request, pc[q] \in Leading \ {"queued"}
  PROVE  lock = q
BY DEF Calls, OneAtATime

LEMMA ArriveKeeps ==
  ASSUME Calls, NEW q \in Request, Arrive(q)
  PROVE  Calls'
<1> PICK c \in Call, p \in Params :
      Refuse(q, c, p) \/ Replay(q, c, p) \/ Join(q, c, p) \/ Admit(q, c, p)
  BY DEF Arrive
<1>1. CASE Refuse(q, c, p)
  <2>1. "refused" \in Answers /\ "refused" \notin ToolTerminal
    BY DEF Answers, ToolTerminal
  <2> QED
    BY <1>1, <2>1, AnswerKeeps DEF Refuse
<1>2. CASE Replay(q, c, p)
  BY <1>2, AnswerKeeps DEF Replay, Answers
<1>3. CASE Join(q, c, p)
  <2>1. /\ record[c] \in [state: ToolState, params: Params]
        /\ record[c].state \notin ToolTerminal \cup {None}
    <3>1. record[c] # NoRecord
      BY <1>3, CallAssumption DEF Join, NoRecord
    <3> QED
      BY <1>3, <3>1, NoneAssumption DEF Join, Calls, CallTypes
  <2>2. CASE future[c] = None
    <3>1. /\ record' = [record EXCEPT ![c].state = "unknown"]
          /\ pc' = [pc EXCEPT ![q] = "done"]
          /\ target' = [target EXCEPT ![q] = c]
          /\ answer' = [answer EXCEPT ![q] = "unknown"]
          /\ pc[q] = "idle" /\ UNCHANGED <<lock, future, started, askVars>>
      BY <1>3, <2>2 DEF Join, Answer
    <3>2. "unknown" \in ToolTerminal /\ "unknown" \in ToolState /\ "unknown" \in Answers
          /\ "unknown" \notin {None, "received", "waiting_approval"}
      BY NoneAssumption DEF ToolTerminal, ToolState, Answers
    <3>3. /\ record' \in [Call -> {NoRecord} \cup [state: ToolState, params: Params]]
          /\ record'[c].state = "unknown"
          /\ \A d \in Call \ {c} : record'[d] = record[d]
      BY <2>1, <3>1, <3>2, Restated DEF Calls
    <3> USE DEF Calls
    <3>4. "done" \notin Inside /\ "done" \notin Leading
      BY DEF Inside, Leading
    <3>5. /\ pc'[q] = "done" /\ target'[q] = c /\ answer'[q] = "unknown"
          /\ \A r \in Request \ {q} :
               pc'[r] = pc[r] /\ target'[r] = target[r] /\ answer'[r] = answer[r]
      BY <3>1 DEF CallTypes
    <3>6. CallTypes' /\ AskTypes'
      BY <3>1, <3>2, <3>3 DEF CallTypes, AskTypes, askVars
    <3>7. \A r \in Request : pc[r] \in Leading => target[r] # c /\ target[r] \in Call
      BY <2>2, LeaderRecord, NoneAssumption DEF PromptState
    <3>8. Requests'
      <4> SUFFICES ASSUME NEW r \in Request
          PROVE  /\ pc'[r] # "done" => answer'[r] = None
                 /\ pc'[r] \in Inside => target'[r] \in Call
                 /\ answer'[r] \in ToolTerminal =>
                      target'[r] \in Call /\ record'[target'[r]].state = answer'[r]
                 /\ pc'[r] = "following" => future'[target'[r]] # None
        BY DEF Requests
      <4>1. CASE r = q
        BY <4>1, <3>3, <3>4, <3>5
      <4>2. CASE r # q
        <5>1. answer[r] \in ToolTerminal => target[r] \in Call /\ target[r] # c
          BY <2>1 DEF Requests
        <5> QED
          BY <4>2, <5>1, <3>1, <3>3, <3>5 DEF Requests
      <4> QED
        BY <4>1, <4>2
    <3>9. Leaders'
      <4> SUFFICES ASSUME NEW r \in Request, pc'[r] \in Leading
          PROVE  /\ future'[target'[r]] = "pending"
                 /\ record'[target'[r]].state = StateAt(pc'[r])
                 /\ \A x \in Request : pc'[x] \in Leading /\ target'[x] = target'[r] => x = r
        BY DEF Leaders, StateAt
      <4> QED
        BY <3>1, <3>3, <3>4, <3>5, <3>7 DEF Leaders
    <3>10. Futures'
      BY <2>2, <3>1, <3>3, NoneAssumption DEF Futures, ToolState
    <3>11. Beginnings'
      BY <3>1, <3>2, <3>3 DEF Beginnings, askVars
    <3>12. OneAtATime' /\ ApprovalRespected'
      BY <3>1, <3>4, <3>5 DEF OneAtATime, ApprovalRespected, askVars
    <3> QED
      BY <3>6, <3>8, <3>9, <3>10, <3>11, <3>12
  <2>3. CASE future[c] # None
    <3>1. /\ pc' = [pc EXCEPT ![q] = "following"]
          /\ target' = [target EXCEPT ![q] = c]
          /\ pc[q] = "idle" /\ UNCHANGED <<record, answer, lock, future, started, askVars>>
      BY <1>3, <2>3 DEF Join
    <3> USE DEF Calls
    <3>2. "following" \in Inside /\ "following" \notin Leading /\ "idle" \notin Leading
      BY DEF Inside, Leading
    <3>3. /\ pc'[q] = "following" /\ target'[q] = c
          /\ \A r \in Request \ {q} : pc'[r] = pc[r] /\ target'[r] = target[r]
      BY <3>1 DEF CallTypes
    <3>4. CallTypes' /\ AskTypes'
      BY <3>1, <3>2 DEF CallTypes, AskTypes, askVars
    <3>5. answer[q] = None /\ None \notin ToolTerminal
      BY <3>1, NoneAssumption DEF Requests, ToolState
    <3>6. Requests'
      BY <2>3, <3>1, <3>3, <3>5 DEF Requests
    <3>7. Leaders'
      BY <3>1, <3>2, <3>3 DEF Leaders, StateAt
    <3>8. OneAtATime'
      BY <3>1, <3>2, <3>3 DEF OneAtATime
    <3> QED
      BY <3>1, <3>4, <3>6, <3>7, <3>8 DEF Futures, Beginnings, ApprovalRespected, askVars
  <2> QED
    BY <2>2, <2>3
<1>4. CASE Admit(q, c, p)
  <2>1. /\ record' = [record EXCEPT ![c] = [state |-> "received", params |-> p]]
        /\ future' = [future EXCEPT ![c] = "pending"]
        /\ pc' = [pc EXCEPT ![q] = "queued"]
        /\ target' = [target EXCEPT ![q] = c]
        /\ pc[q] = "idle" /\ record[c] = NoRecord
        /\ UNCHANGED <<answer, lock, started, askVars>>
    BY <1>4 DEF Admit
  <2> USE DEF Calls
  <2>2. "queued" \in Inside /\ "queued" \in Leading /\ "idle" \notin Leading
    BY DEF Inside, Leading
  <2>3. /\ pc'[q] = "queued" /\ target'[q] = c
        /\ \A r \in Request \ {q} : pc'[r] = pc[r] /\ target'[r] = target[r]
    BY <2>1 DEF CallTypes
  <2>4. /\ record'[c].state = "received" /\ future'[c] = "pending"
        /\ \A d \in Call \ {c} : record'[d] = record[d] /\ future'[d] = future[d]
    BY <2>1 DEF CallTypes
  <2>5. record[c].state = None /\ None \notin ToolTerminal /\ "pending" \notin ToolTerminal
    BY <2>1, NoneAssumption DEF NoRecord, ToolState, ToolTerminal
  <2>6. CallTypes' /\ AskTypes'
    BY <2>1, <2>2 DEF CallTypes, AskTypes, askVars, ToolState
  <2>7. \A r \in Request : pc[r] \in Leading => target[r] # c /\ target[r] \in Call
    BY <2>5, LeaderRecord, NoneAssumption DEF ToolState
  <2>8. Requests'
    <3> SUFFICES ASSUME NEW r \in Request
        PROVE  /\ pc'[r] # "done" => answer'[r] = None
               /\ pc'[r] \in Inside => target'[r] \in Call
               /\ answer'[r] \in ToolTerminal =>
                    target'[r] \in Call /\ record'[target'[r]].state = answer'[r]
               /\ pc'[r] = "following" => future'[target'[r]] # None
      BY DEF Requests
    <3>1. CASE r = q
      BY <3>1, <2>1, <2>3, <2>5 DEF Requests
    <3>2. CASE r # q
      <4>1. answer[r] \in ToolTerminal => target[r] \in Call /\ target[r] # c
        BY <2>5 DEF Requests
      <4>2. "pending" # None
        BY NoneAssumption DEF PromptState
      <4>3. pc[r] = "following" => target[r] \in Call
        BY DEF Requests, Inside
      <4> QED
        BY <3>2, <4>1, <4>2, <4>3, <2>1, <2>3, <2>4 DEF Requests
    <3> QED
      BY <3>1, <3>2
  <2>9. Leaders'
    <3> SUFFICES ASSUME NEW r \in Request, pc'[r] \in Leading
        PROVE  /\ future'[target'[r]] = "pending"
               /\ record'[target'[r]].state = StateAt(pc'[r])
               /\ \A x \in Request : pc'[x] \in Leading /\ target'[x] = target'[r] => x = r
      BY DEF Leaders, StateAt
    <3>1. CASE r = q
      BY <3>1, <2>3, <2>4, <2>7 DEF StateAt
    <3>2. CASE r # q
      BY <3>2, <2>3, <2>4, <2>7 DEF Leaders
    <3> QED
      BY <3>1, <3>2
  <2>10. Futures'
    BY <2>4, <2>5 DEF Futures
  <2>11. Beginnings'
    BY <2>1, <2>4, <2>5 DEF Beginnings, askVars
  <2>12. OneAtATime' /\ ApprovalRespected'
    BY <2>1, <2>3 DEF OneAtATime, ApprovalRespected, askVars
  <2> QED
    BY <2>6, <2>8, <2>9, <2>10, <2>11, <2>12
<1> QED
  BY <1>1, <1>2, <1>3, <1>4

(* What BeginExecution does to the calls, whichever way it goes.           *)
LEMMA BeginKeeps ==
  ASSUME Calls, NEW q \in Request, pc[q] \in {"preparing", "asking"},
         NEW may \in BOOLEAN, BeginExecution(q, may), AskTypes',
         \A d \in Call \ {target[q]} : prompt'[d] = prompt[d],
         may => prompt'[target[q]] \in {None, "approved"}
  PROVE  Calls'
<1> DEFINE c == target[q]
<1>1. pc[q] \in Leading \ {"queued"} /\ "executing" \in Leading \ {"queued"}
  BY DEF Leading, Inside
<1>2. /\ c \in Call /\ record[c] \in [state: ToolState, params: Params]
      /\ record[c].state = StateAt(pc[q])
  BY <1>1, LeaderRecord
<1>3. started[c] = 0
  BY <1>2 DEF Calls, Beginnings, StateAt
<1>4. CASE may
  <2>1. /\ record' = [record EXCEPT ![c].state = "executing"]
        /\ started' = [started EXCEPT ![c] = @ + 1]
        /\ pc' = [pc EXCEPT ![q] = "executing"]
        /\ UNCHANGED <<target, lock, future, answer>>
    BY <1>4 DEF BeginExecution
  <2>2. "executing" \in ToolState /\ StateAt("executing") = "executing"
    BY DEF ToolState, StateAt
  <2>3. /\ record' \in [Call -> {NoRecord} \cup [state: ToolState, params: Params]]
        /\ record'[c].state = "executing"
        /\ \A d \in Call \ {c} : record'[d] = record[d]
    BY <1>2, <2>1, <2>2, Restated DEF Calls
  <2>4. /\ started' \in [Call -> Nat] /\ started'[c] = 1
        /\ \A d \in Call \ {c} : started'[d] = started[d]
    BY <1>2, <1>3, <2>1 DEF Calls, CallTypes
  <2>5. lock = q
    BY <1>1, HolderOfLock
  <2>6. Advances(q, "executing")
    BY <1>4, <2>1, <2>2, <2>3, <2>4, <2>5 DEF Advances
  <2> QED
    BY <1>1, <2>6, AdvanceKeeps
<1>5. CASE ~may
  <2>1. Leave(q, "failed", "failed") /\ UNCHANGED started
    BY <1>5 DEF BeginExecution, Settle
  <2>2. Unprompted(c)
    BY <1>3 DEF Unprompted
  <2> QED
    BY <1>1, <2>1, <2>2, LeaveKeeps DEF ToolTerminal
<1> QED
  BY <1>4, <1>5

LEMMA ProceedKeeps ==
  ASSUME Calls, NEW q \in Request, Proceed(q)
  PROVE  Calls'
<1> DEFINE c == target[q]
<1>0. ASSUME UNCHANGED askVars PROVE Unprompted(c)
  BY <1>0 DEF Unprompted, AskTypes, askVars, Calls
<1>1. CASE FollowerAnswers(q)
  <2>1. c \in Call /\ future[c] \in ToolTerminal
    <3>1. c \in Call /\ future[c] # None
      BY <1>1 DEF FollowerAnswers, Calls, Requests, Inside
    <3> QED
      BY <1>1, <3>1 DEF FollowerAnswers, Calls, CallTypes
  <2>2. record[c].state = future[c] /\ future[c] \in Answers
    BY <2>1 DEF Calls, Futures, Answers
  <2> QED
    BY <1>1, <2>1, <2>2, AnswerKeeps DEF FollowerAnswers
<1>2. CASE LockAcquired(q)
  <2>1. pc[q] \in Leading /\ lock = None /\ UNCHANGED <<started, askVars>>
    BY <1>2 DEF LockAcquired, Leading, Inside
  <2>2. CASE MayExecute
    <3>1. /\ c \in Call /\ record[c].state = "received" /\ pc[q] = "queued"
      BY <1>2, <2>1, LeaderRecord DEF LockAcquired, StateAt
    <3>2. /\ lock' = q /\ pc' = [pc EXCEPT ![q] = "preparing"]
          /\ UNCHANGED <<record, target, future, answer>>
      BY <1>2, <2>2 DEF LockAcquired
    <3>3. prompt[c] = None /\ started[c] = 0
      BY <3>1 DEF Calls, Beginnings
    <3>4. Advances(q, "preparing")
      BY <2>1, <3>1, <3>2, <3>3 DEF Advances, StateAt, Calls, CallTypes, AskTypes, askVars
    <3>5. "preparing" \in Leading \ {"queued"}
      BY DEF Leading, Inside
    <3> QED
      BY <2>1, <3>4, <3>5, AdvanceKeeps
  <2>3. CASE ~MayExecute
    <3>1. Leave(q, "failed", "failed")
      BY <1>2, <2>3 DEF LockAcquired, Settle
    <3> QED
      BY <1>0, <2>1, <3>1, LeaveKeeps DEF ToolTerminal
  <2> QED
    BY <2>2, <2>3
<1>3. CASE HooksAllow(q)
  <2>1. pc[q] = "preparing" /\ pc[q] \in Leading /\ UNCHANGED askVars
    BY <1>3 DEF HooksAllow, Leading, Inside
  <2>2. BeginExecution(q, MayExecute) /\ MayExecute \in BOOLEAN
    BY <1>3 DEF HooksAllow, MayExecute
  <2>3. c \in Call /\ record[c].state = "received"
    BY <2>1, LeaderRecord DEF StateAt
  <2>4. prompt[c] = None
    BY <2>3 DEF Calls, Beginnings
  <2> QED
    BY <2>1, <2>2, <2>4, BeginKeeps DEF askVars, Calls, AskTypes
<1>4. ASSUME NEW s \in {"failed", "denied"}, HooksRefuse(q, s) PROVE Calls'
  BY <1>0, <1>4, LeaveKeeps DEF HooksRefuse, Settle, Leading, Inside, ToolTerminal
<1>5. CASE HooksAsk(q)
  <2>1. pc[q] = "preparing" /\ pc[q] \in Leading
    BY <1>5 DEF HooksAsk, Leading, Inside
  <2>2. /\ c \in Call /\ record[c] \in [state: ToolState, params: Params]
        /\ record[c].state = "received"
    BY <2>1, LeaderRecord DEF StateAt
  <2>3. started[c] = 0
    BY <2>2 DEF Calls, Beginnings
  <2>4. UNCHANGED <<started, decision, expired>>
    BY <1>5 DEF HooksAsk
  <2>5. ASSUME NEW s \in PromptState, prompt' = [prompt EXCEPT ![c] = s]
        PROVE  AskTypes' /\ \A d \in Call \ {c} : prompt'[d] = prompt[d]
    BY <2>2, <2>4, <2>5 DEF Calls, AskTypes
  <2>6. CASE Current \in Executable
    <3>1. /\ record' = [record EXCEPT ![c].state = "waiting_approval"]
          /\ prompt' = [prompt EXCEPT ![c] = "pending"]
          /\ pc' = [pc EXCEPT ![q] = "asking"]
          /\ UNCHANGED <<target, lock, future, answer>>
      BY <1>5, <2>6 DEF HooksAsk
    <3>2. /\ record' \in [Call -> {NoRecord} \cup [state: ToolState, params: Params]]
          /\ record'[c].state = "waiting_approval"
          /\ \A d \in Call \ {c} : record'[d] = record[d]
      BY <2>2, <3>1, Restated DEF Calls, ToolState
    <3>3. lock = q
      BY <2>1, HolderOfLock
    <3>4. AskTypes' /\ \A d \in Call \ {c} : prompt'[d] = prompt[d]
      BY <2>5, <3>1 DEF PromptState
    <3>5. Advances(q, "asking")
      BY <2>2, <2>3, <2>4, <3>1, <3>2, <3>3, <3>4
         DEF Advances, StateAt, Calls, CallTypes
    <3>6. "asking" \in Leading \ {"queued"}
      BY DEF Leading, Inside
    <3> QED
      BY <2>1, <3>5, <3>6, AdvanceKeeps
  <2>7. CASE Current \notin Executable
    <3>1. prompt' = [prompt EXCEPT ![c] = "cancelled"] /\ Leave(q, "failed", "failed")
      BY <1>5, <2>7 DEF HooksAsk, Settle
    <3>2. Unprompted(c)
      BY <2>3, <2>5, <3>1 DEF Unprompted, PromptState
    <3> QED
      BY <2>1, <2>4, <3>1, <3>2, LeaveKeeps DEF ToolTerminal
  <2> QED
    BY <2>6, <2>7
<1>6. CASE ApprovalExpires(q)
  BY <1>6 DEF ApprovalExpires, callVars, Calls, CallTypes, AskTypes, Requests, Leaders,
              StateAt, Futures, Beginnings, OneAtATime, ApprovalRespected
<1>7. ASSUME pc[q] = "asking"
      PROVE  /\ pc[q] \in Leading /\ c \in Call /\ started[c] = 0
             /\ \A s \in PromptState :
                  (/\ prompt' = [prompt EXCEPT ![c] = s]
                   /\ decision' = [decision EXCEPT ![c] = None]
                   /\ UNCHANGED expired) => (Unprompted(c) /\ prompt'[c] = s)
  <2>1. pc[q] \in Leading
    BY <1>7 DEF Leading, Inside
  <2>2. c \in Call /\ record[c].state = "waiting_approval"
    BY <1>7, <2>1, LeaderRecord DEF StateAt
  <2>3. started[c] = 0
    BY <2>2 DEF Calls, Beginnings
  <2> QED
    BY <2>1, <2>2, <2>3 DEF Calls, AskTypes, Unprompted
<1>8. CASE StopWins(q)
  BY <1>7, <1>8, LeaveKeeps DEF StopWins, Settle, ToolTerminal, PromptState
<1>9. CASE ApprovalDenied(q)
  <2>1. (IF q \in expired THEN "timed_out" ELSE "denied") \in PromptState
    BY DEF PromptState
  <2> QED
    BY <1>7, <1>9, <2>1, LeaveKeeps DEF ApprovalDenied, Settle, ToolTerminal
<1>10. CASE ApprovalGranted(q)
  <2> DEFINE s == IF status = "waiting_approval" THEN "approved" ELSE "cancelled"
  <2>1. s \in PromptState
    BY DEF PromptState
  <2>2. Unprompted(c) /\ prompt'[c] = s /\ c \in Call /\ started[c] = 0
    BY <1>7, <1>10, <2>1 DEF ApprovalGranted
  <2>3. BeginExecution(q, status = "waiting_approval") /\ pc[q] = "asking"
    BY <1>10 DEF ApprovalGranted
  <2> QED
    BY <2>2, <2>3, BeginKeeps DEF Unprompted
<1>11. CASE ToolReturns(q)
  <2>1. pc[q] \in Leading \ {"queued"} /\ "posting" \in Leading \ {"queued"}
    BY <1>11 DEF ToolReturns, Leading, Inside
  <2>2. c \in Call /\ record[c].state = "executing"
    BY <1>11, <2>1, LeaderRecord DEF StateAt, ToolReturns
  <2>3. lock = q
    BY <2>1, HolderOfLock
  <2>4. started[c] \in {0, 1} /\ (started[c] = 1 => prompt[c] \in {None, "approved"})
    BY <2>2 DEF Calls, CallTypes, Beginnings, ApprovalRespected
  <2>5. Advances(q, "posting")
    BY <1>11, <2>2, <2>3, <2>4
       DEF ToolReturns, Advances, StateAt, Calls, CallTypes, AskTypes, askVars
  <2> QED
    BY <2>1, <2>5, AdvanceKeeps
<1>12. ASSUME NEW s \in {"completed", "failed"}, PostHookReturns(q, s) PROVE Calls'
  BY <1>0, <1>12, LeaveKeeps DEF PostHookReturns, Settle, Leading, Inside, ToolTerminal
<1> QED
  BY <1>1, <1>2, <1>3, <1>4, <1>5, <1>6, <1>8, <1>9, <1>10, <1>11, <1>12 DEF Proceed

LEMMA CancelledKeeps ==
  ASSUME Calls, NEW q \in Request, CallbackCancelled(q)
  PROVE  Calls'
<1> DEFINE c == target[q]
<1>1. pc[q] \in Inside /\ c \in Call
  BY DEF CallbackCancelled, Calls, Requests
<1>2. CASE pc[q] = "following"
  <2>1. Answer(q, c, "aborted") /\ UNCHANGED <<record, lock, future, started, askVars>>
    BY <1>2 DEF CallbackCancelled, askVars
  <2>2. "aborted" \in Answers /\ "aborted" \notin ToolTerminal
    BY DEF Answers, ToolTerminal
  <2> QED
    BY <1>1, <1>2, <2>1, <2>2, AnswerKeeps
<1>3. CASE pc[q] # "following"
  <2>1. pc[q] \in Leading /\ Leave(q, "unknown", "aborted") /\ UNCHANGED <<started, expired>>
    BY <1>1, <1>3 DEF CallbackCancelled, Leading
  <2>2. Unprompted(c)
    <3>1. CASE pc[q] = "asking"
      <4>1. started[c] = 0
        <5>1. record[c].state = "waiting_approval"
          BY <2>1, <3>1, LeaderRecord DEF StateAt
        <5> QED
          BY <1>1, <5>1 DEF Calls, Beginnings
      <4>2. /\ prompt' = [prompt EXCEPT ![c] = "cancelled"]
            /\ decision' = [decision EXCEPT ![c] = None]
        BY <3>1 DEF CallbackCancelled
      <4> QED
        BY <1>1, <2>1, <4>1, <4>2 DEF Unprompted, Calls, AskTypes, PromptState
    <3>2. CASE pc[q] # "asking"
      BY <2>1, <3>2 DEF CallbackCancelled, Unprompted, Calls, AskTypes
    <3> QED
      BY <3>1, <3>2
  <2> QED
    BY <2>1, <2>2, LeaveKeeps DEF ToolTerminal
<1> QED
  BY <1>2, <1>3

LEMMA DecideKeeps ==
  ASSUME Calls, NEW c \in Call, NEW d \in {"approve", "deny"}, Decide(c, d)
  PROVE  Calls'
<1>1. PICK q \in Request : pc[q] = "asking" /\ target[q] = c
  BY DEF Decide
<1>2. record[c].state = "waiting_approval"
  BY <1>1, LeaderRecord DEF Leading, Inside, StateAt
<1>3. started[c] = 0 /\ "waiting_approval" \notin {None, "received"}
  BY <1>2, NoneAssumption DEF Calls, Beginnings, ToolState
<1>4. /\ prompt' = [prompt EXCEPT ![c] = IF d = "approve" THEN "approved" ELSE "denied"]
      /\ decision' = [decision EXCEPT ![c] = d]
      /\ UNCHANGED <<record, pc, target, lock, future, answer, started, expired>>
  BY DEF Decide, callVars
<1> QED
  BY <1>2, <1>3, <1>4
     DEF Calls, CallTypes, AskTypes, PromptState, Requests, Leaders, StateAt, Futures,
         Beginnings, OneAtATime, ApprovalRespected

LEMMA RestartKeeps ==
  ASSUME Calls, Restart
  PROVE  Calls'
<1> USE DEF Calls
<1>1. /\ record' = [c \in Call |->
                      IF record[c] = NoRecord \/ record[c].state \in ToolTerminal
                      THEN record[c] ELSE [record[c] EXCEPT !.state = "unknown"]]
      /\ pc' = [q \in Request |-> IF pc[q] \in Inside THEN "done" ELSE pc[q]]
      /\ answer' = [q \in Request |-> IF pc[q] \in Inside THEN "aborted" ELSE answer[q]]
      /\ lock' = None
      /\ future' = [c \in Call |-> None]
      /\ prompt' = [c \in Call |-> None]
      /\ decision' = [c \in Call |-> None]
      /\ expired' = {}
      /\ UNCHANGED <<target, started>>
  BY DEF Restart
<1>2. ASSUME NEW c \in Call
      PROVE  /\ record'[c] \in {NoRecord} \cup [state: ToolState, params: Params]
             /\ record[c].state \in ToolTerminal \cup {None} => record'[c] = record[c]
             /\ record[c].state \notin ToolTerminal \cup {None} =>
                  record'[c].state = "unknown"
  <2>1. CASE record[c] = NoRecord \/ record[c].state \in ToolTerminal
    <3>1. record'[c] = record[c]
      BY <1>1, <2>1
    <3> QED
      BY <2>1, <3>1 DEF CallTypes, NoRecord
  <2>2. CASE ~(record[c] = NoRecord \/ record[c].state \in ToolTerminal)
    <3>1. record[c] \in [state: ToolState, params: Params]
      BY <2>2 DEF CallTypes
    <3>2. record'[c] = [record[c] EXCEPT !.state = "unknown"]
      BY <1>1, <2>2
    <3>3. record[c].state \in ToolState /\ None \notin ToolState
      BY <3>1, NoneAssumption
    <3> QED
      BY <2>2, <3>1, <3>2, <3>3 DEF ToolState, ToolTerminal
  <2> QED
    BY <2>1, <2>2
<1>3. \A q \in Request : pc'[q] \notin Inside /\ pc'[q] \in {"idle", "done"}
  BY <1>1 DEF CallTypes, Inside
<1>4. CallTypes' /\ AskTypes'
  <2>1. record' \in [Call -> {NoRecord} \cup [state: ToolState, params: Params]]
    BY <1>1, <1>2
  <2>2. pc' \in [Request -> {"idle", "done"} \cup Inside]
    BY <1>1, <1>3
  <2>3. answer' \in [Request -> {None} \cup Answers]
    BY <1>1 DEF CallTypes, Answers
  <2> QED
    BY <1>1, <2>1, <2>2, <2>3 DEF CallTypes, AskTypes
<1>5. Requests'
  <2> SUFFICES ASSUME NEW q \in Request
      PROVE  /\ pc'[q] # "done" => answer'[q] = None
             /\ answer'[q] \in ToolTerminal =>
                  target'[q] \in Call /\ record'[target'[q]].state = answer'[q]
    BY <1>3 DEF Requests, Inside
  <2>1. CASE pc[q] \in Inside
    BY <1>1, <2>1 DEF ToolTerminal
  <2>2. CASE pc[q] \notin Inside
    BY <1>1, <1>2, <2>2 DEF Requests
  <2> QED
    BY <2>1, <2>2
<1>6. Leaders' /\ OneAtATime'
  BY <1>3 DEF Leaders, OneAtATime, Leading
<1>7. Futures' /\ ApprovalRespected'
  BY <1>1, NoneAssumption DEF Futures, ApprovalRespected, ToolState
<1>8. Beginnings'
  <2> SUFFICES ASSUME NEW c \in Call
      PROVE  /\ record'[c].state \in {None, "received", "waiting_approval"} => started[c] = 0
             /\ started[c] <= 1
    BY <1>1 DEF Beginnings
  <2>1. record[c].state \in ToolTerminal \cup {None} => record'[c].state = record[c].state
    BY <1>2
  <2>2. "unknown" \notin {None, "received", "waiting_approval"}
    BY NoneAssumption DEF ToolState, ToolTerminal
  <2> QED
    BY <1>2, <2>1, <2>2 DEF Beginnings
<1> QED
  BY <1>4, <1>5, <1>6, <1>7, <1>8

(* Steps of the run alone: the callbacks stand where they stood.           *)
LEMMA RunStepKeeps ==
  ASSUME Calls, UNCHANGED <<callVars, askVars>>
  PROVE  Calls'
BY DEF Calls, callVars, askVars, CallTypes, AskTypes, Requests, Leaders, StateAt, Futures,
       Beginnings, OneAtATime, ApprovalRespected

LEMMA CallsKept ==
  ASSUME Calls, [Next]_vars
  PROVE  Calls'
<1>1. CASE UNCHANGED vars
  BY <1>1, RunStepKeeps DEF vars
<1>2. ASSUME NEW q \in Request, Arrive(q) \/ Proceed(q) \/ CallbackCancelled(q)
      PROVE  Calls'
  BY <1>2, ArriveKeeps, ProceedKeeps, CancelledKeeps
<1>3. ASSUME NEW c \in Call, NEW d \in {"approve", "deny"}, Decide(c, d) PROVE Calls'
  BY <1>3, DecideKeeps
<1>4. CASE Restart
  BY <1>4, RestartKeeps
<1>5. ASSUME ChatTask PROVE UNCHANGED <<callVars, askVars>>
  BY <1>5 DEF ChatTask, Submit, Accepted, StreamCompletes, ChatEnds, StreamFails, ChatCancelled
<1>6. ASSUME \/ Stop \/ NewRun \/ Forget \/ SuccessorEnds
             \/ \E o \in {"completed", "failed", "cancelled", "unknown"} : CancelReturns(o)
      PROVE  UNCHANGED <<callVars, askVars>>
  BY <1>6 DEF Stop, NewRun, Forget, SuccessorEnds, CancelReturns
<1> QED
  BY <1>1, <1>2, <1>3, <1>4, <1>5, <1>6, RunStepKeeps DEF Next

-----------------------------------------------------------------------------
(* The steps keep Runs *)

(* update_run writes what the table allows, or nothing.                    *)
LEMMA UpdateWrites ==
  ASSUME RunTypes, NEW s \in RunStatus, UpdateRun(s)
  PROVE  /\ runRecord' \in {None} \cup RunStatus
         /\ runRecord = None => runRecord' = None
         /\ runRecord' # runRecord => runRecord' = s
         /\ runRecord = "stopping" /\ s \in {"completed", "failed", "cancelled", "unknown"} =>
              runRecord' = s
<1>1. "stopping" # None
  BY NoneAssumption DEF RunStatus
<1>2. RunTransitions["stopping"] = {"completed", "cancelled", "failed", "unknown"}
  BY DEF RunTransitions, RunStatus
<1> QED
  BY <1>1, <1>2 DEF UpdateRun, RunTypes

(* A callback moves the thread's run between running and waiting, and the  *)
(* durable record with it: nothing it does is a stop or an end.            *)
LEMMA CallbackTransitions ==
  ASSUME Runs, NEW s \in {"running", "waiting_approval"},
         TransitionThread(s), UpdateRun(s) \/ UNCHANGED runRecord,
         UNCHANGED <<tracked, stopped, chat, cancelling>>
  PROVE  Runs'
<1> USE DEF Runs
<1>1. s \in RunStatus /\ s # "stopping" /\ s \in Executable /\ s \in TrackerLive
  BY DEF RunStatus, Executable, TrackerLive
<1>2. /\ runRecord' \in {None} \cup RunStatus
      /\ runRecord = None => runRecord' = None
      /\ runRecord' = "stopping" => runRecord = "stopping"
  <2>1. CASE UpdateRun(s)
    BY <1>1, <2>1, UpdateWrites
  <2>2. CASE UNCHANGED runRecord
    BY <2>2 DEF RunTypes
  <2> QED
    BY <2>1, <2>2
<1>3. /\ status' \in TrackerLive \cup TrackerEnded \cup {"gone"}
      /\ successor' \in {None} \cup TrackerLive \cup TrackerEnded
      /\ status' = status \/ (status \in Executable /\ status' \in Executable)
  BY <1>1 DEF TransitionThread, Current, RunTypes
<1>4. RunTypes'
  BY <1>2, <1>3 DEF RunTypes
<1> QED
  BY <1>2, <1>3, <1>4 DEF Executable, TrackerLive

LEMMA RunsStay ==
  ASSUME Runs, UNCHANGED runVars
  PROVE  Runs'
BY DEF Runs, runVars, RunTypes

LEMMA RunsProceed ==
  ASSUME Runs, NEW q \in Request, Proceed(q)
  PROVE  Runs'
<1>1. CASE HooksAsk(q)
  <2>1. TransitionThread("waiting_approval") /\ UNCHANGED <<tracked, stopped, chat, cancelling>>
    BY <1>1 DEF HooksAsk
  <2>2. UpdateRun("waiting_approval") \/ UNCHANGED runRecord
    BY <1>1 DEF HooksAsk
  <2> QED
    BY <2>1, <2>2, CallbackTransitions
<1>2. ASSUME ApprovalDenied(q) \/ ApprovalGranted(q) PROVE Runs'
  <2>1. ResumeRun /\ UNCHANGED <<tracked, stopped, chat, cancelling>>
    BY <1>2 DEF ApprovalDenied, ApprovalGranted
  <2>2. CASE status = "waiting_approval"
    BY <2>1, <2>2, CallbackTransitions DEF ResumeRun
  <2>3. CASE status # "waiting_approval"
    BY <2>1, <2>3, RunsStay DEF ResumeRun, runVars
  <2> QED
    BY <2>2, <2>3
<1>3. ASSUME \/ FollowerAnswers(q) \/ LockAcquired(q) \/ HooksAllow(q) \/ ApprovalExpires(q)
             \/ StopWins(q) \/ ToolReturns(q)
             \/ \E s \in {"failed", "denied"} : HooksRefuse(q, s)
             \/ \E s \in {"completed", "failed"} : PostHookReturns(q, s)
      PROVE  UNCHANGED runVars
  BY <1>3 DEF FollowerAnswers, LockAcquired, HooksAllow, ApprovalExpires, StopWins,
              ToolReturns, HooksRefuse, PostHookReturns
<1> QED
  BY <1>1, <1>2, <1>3, RunsStay DEF Proceed

(* The chat task: whatever ends it also ends the run it works for.         *)
LEMMA RunsChatTask ==
  ASSUME Runs, ChatTask
  PROVE  Runs'
<1> USE DEF Runs
<1>1. ASSUME NEW s \in TrackerEnded, Terminalize(s)
      PROVE  /\ status' \in TrackerEnded \cup {"gone"}
             /\ status' \notin TrackerLive /\ status' \notin Executable
  BY <1>1 DEF Terminalize, RunTypes, TrackerLive, TrackerEnded, Executable
<1>2. CASE Submit
  <2>1. "running" \in RunStatus /\ "running" # "stopping"
    BY DEF RunStatus
  <2> QED
    BY <1>2, <2>1 DEF Submit, RunTypes
<1>3. CASE Accepted
  BY <1>3 DEF Accepted, RunTypes
<1>4. CASE StreamCompletes
  <2>1. runRecord' \in {None} \cup RunStatus /\ runRecord' # "stopping"
    BY <1>4, UpdateWrites, NoneAssumption DEF StreamCompletes, RunStatus
  <2> QED
    BY <1>4, <2>1 DEF StreamCompletes, RunTypes
<1>5. ASSUME NEW s \in {"error", "finished"}, ChatEnds(s) PROVE Runs'
  <2>1. s \in TrackerEnded
    BY DEF TrackerEnded
  <2> QED
    BY <1>1, <1>5, <2>1 DEF ChatEnds, RunTypes
<1>6. ASSUME NEW o \in {"failed", "cancelled", "unknown"}, StreamFails(o) PROVE Runs'
  <2>1. runRecord' \in {None} \cup RunStatus /\ runRecord' # "stopping"
    BY <1>6, UpdateWrites, NoneAssumption DEF StreamFails, RunStatus
  <2>2. "error" \in TrackerEnded
    BY DEF TrackerEnded
  <2> QED
    BY <1>1, <1>6, <2>1, <2>2 DEF StreamFails, RunTypes
<1>7. CASE ChatCancelled
  <2>1. /\ runRecord' \in {None} \cup RunStatus
        /\ runRecord' = "stopping" => runRecord = "stopping" /\ chat # "submitting"
    BY <1>7, UpdateWrites, NoneAssumption DEF ChatCancelled, RunStatus, RunTypes
  <2>2. "cancelled" \in TrackerEnded
    BY DEF TrackerEnded
  <2> QED
    BY <1>1, <1>7, <2>1, <2>2 DEF ChatCancelled, RunTypes
<1> QED
  BY <1>2, <1>3, <1>4, <1>5, <1>6, <1>7 DEF ChatTask

LEMMA RunsKept ==
  ASSUME Runs, [Next]_vars
  PROVE  Runs'
<1>1. CASE UNCHANGED vars
  BY <1>1, RunsStay DEF vars
<1>2. ASSUME NEW q \in Request, Arrive(q) \/ CallbackCancelled(q) PROVE Runs'
  <2>1. UNCHANGED runVars
    BY <1>2 DEF Arrive, Refuse, Replay, Join, Admit, CallbackCancelled
  <2> QED
    BY <2>1, RunsStay
<1>3. ASSUME NEW q \in Request, Proceed(q) PROVE Runs'
  BY <1>3, RunsProceed
<1>4. ASSUME NEW c \in Call, NEW d \in {"approve", "deny"}, Decide(c, d) PROVE Runs'
  BY <1>4, RunsStay DEF Decide
<1>5. CASE ChatTask
  BY <1>5, RunsChatTask
<1> USE DEF Runs
<1>6. CASE Stop
  <2>1. "stopping" \in RunStatus /\ "stopping" \in TrackerLive /\ "stopping" \notin Executable
    BY DEF RunStatus, TrackerLive, Executable
  <2>2. chat # "ended" /\ Leased
    BY <1>6 DEF Stop, Leased
  <2>3. /\ runRecord' \in {None} \cup RunStatus
        /\ runRecord = None => runRecord' = None
    BY <1>6, <2>1, <2>2, UpdateWrites DEF Stop
  <2>4. runRecord' = "stopping" =>
          chat \in {"submitting", "streaming", "closing"}
    BY <2>2, <2>3, NoneAssumption DEF RunTypes, RunStatus
  <2>5. /\ status' = "stopping" /\ stopped' = TRUE
        /\ UNCHANGED <<tracked, successor, chat>>
    BY <1>6, <2>2 DEF Stop
  <2>6. tracked
    BY <1>6 DEF Stop
  <2>7. cancelling' \in BOOLEAN /\ (chat \in {"streaming", "closing"} => cancelling')
    BY <1>6, <2>2 DEF Stop
  <2>8. RunTypes'
    BY <2>1, <2>3, <2>5, <2>7 DEF RunTypes
  <2> QED
    BY <2>1, <2>2, <2>3, <2>4, <2>5, <2>6, <2>7, <2>8
<1>7. ASSUME NEW o \in {"completed", "failed", "cancelled", "unknown"}, CancelReturns(o)
      PROVE  Runs'
  <2>1. o \in RunStatus /\ o # "stopping"
    BY DEF RunStatus
  <2>2. /\ runRecord' \in {None} \cup RunStatus
        /\ runRecord = None => runRecord' = None
        /\ runRecord' # "stopping"
    BY <1>7, <2>1, UpdateWrites DEF CancelReturns
  <2> QED
    BY <1>7, <2>2 DEF CancelReturns, RunTypes
<1>8. CASE NewRun
  <2>1. status \notin TrackerLive
    BY <1>8 DEF NewRun, Current
  <2> QED
    BY <1>8, <2>1 DEF NewRun, RunTypes, TrackerLive
<1>9. CASE Forget
  BY <1>9 DEF Forget, RunTypes, TrackerLive, TrackerEnded
<1>10. CASE SuccessorEnds
  BY <1>10 DEF SuccessorEnds, RunTypes, TrackerEnded
<1>11. CASE Restart
  <2>1. runRecord' \in {None} \cup RunStatus /\ runRecord' # "stopping"
    BY <1>11, NoneAssumption DEF Restart, RunTypes, RunTerminal, RunStatus
  <2>2. /\ tracked' = FALSE /\ status' = "gone" /\ chat' = "ended"
        /\ stopped' = FALSE /\ cancelling' = FALSE /\ successor' = None
    BY <1>11 DEF Restart
  <2> QED
    BY <2>1, <2>2 DEF RunTypes, TrackerLive
<1> QED
  BY <1>1, <1>2, <1>3, <1>4, <1>5, <1>6, <1>7, <1>8, <1>9, <1>10, <1>11 DEF Next

-----------------------------------------------------------------------------
(* A step of a request is its own; what was answered stays answered        *)

LEMMA OthersStand ==
  ASSUME Calls, NEW q \in Request, Arrive(q) \/ Proceed(q) \/ CallbackCancelled(q)
  PROVE  /\ pc[q] # "done"
         /\ \A r \in Request \ {q} : pc'[r] = pc[r] /\ answer'[r] = answer[r]
                                     /\ target'[r] = target[r]
<1> USE DEF Calls, CallTypes
<1>1. ASSUME Arrive(q) PROVE pc[q] # "done"
  BY <1>1 DEF Arrive, Refuse, Replay, Join, Admit
<1>2. ASSUME Proceed(q) \/ CallbackCancelled(q) PROVE pc[q] # "done"
  BY <1>2 DEF Proceed, FollowerAnswers, LockAcquired, HooksAllow, HooksRefuse, HooksAsk,
              ApprovalExpires, StopWins, ApprovalDenied, ApprovalGranted, ToolReturns,
              PostHookReturns, CallbackCancelled, Inside
<1>3. ASSUME NEW c \in Call, NEW a, Answer(q, c, a) \/ Leave(q, a, a) \/ Leave(q, a, "aborted")
      PROVE  \A r \in Request \ {q} : pc'[r] = pc[r] /\ answer'[r] = answer[r]
                                      /\ target'[r] = target[r]
  BY <1>3 DEF Leave, Answer
<1>4. ASSUME NEW may \in BOOLEAN, BeginExecution(q, may)
      PROVE  \A r \in Request \ {q} : pc'[r] = pc[r] /\ answer'[r] = answer[r]
                                      /\ target'[r] = target[r]
  BY <1>4 DEF BeginExecution, Settle, Leave, Answer
<1>5. ASSUME Arrive(q)
      PROVE  \A r \in Request \ {q} : pc'[r] = pc[r] /\ answer'[r] = answer[r]
                                      /\ target'[r] = target[r]
  BY <1>5 DEF Arrive, Refuse, Replay, Join, Admit, Answer
<1>6. ASSUME CallbackCancelled(q)
      PROVE  \A r \in Request \ {q} : pc'[r] = pc[r] /\ answer'[r] = answer[r]
                                      /\ target'[r] = target[r]
  BY <1>6 DEF CallbackCancelled, Leave, Answer
<1>7. ASSUME Proceed(q)
      PROVE  \A r \in Request \ {q} : pc'[r] = pc[r] /\ answer'[r] = answer[r]
                                      /\ target'[r] = target[r]
  <2>1. ASSUME HooksAllow(q) \/ ApprovalGranted(q)
        PROVE  \E may \in BOOLEAN : BeginExecution(q, may)
    BY <2>1 DEF HooksAllow, ApprovalGranted, MayExecute
  <2>2. ASSUME ~(HooksAllow(q) \/ ApprovalGranted(q))
        PROVE  \A r \in Request \ {q} : pc'[r] = pc[r] /\ answer'[r] = answer[r]
                                        /\ target'[r] = target[r]
    BY <1>7, <2>2
       DEF Proceed, FollowerAnswers, LockAcquired, HooksRefuse, HooksAsk,
           ApprovalExpires, StopWins, ApprovalDenied, ToolReturns, PostHookReturns,
           Settle, Leave, Answer, callVars
  <2> QED
    BY <1>4, <2>1, <2>2
<1> QED
  BY <1>1, <1>2, <1>5, <1>6, <1>7

(* Nothing else but a restart touches what requests are.                   *)
LEMMA OnlyTheirOwn ==
  ASSUME [Next]_vars
  PROVE  \/ \E q \in Request : Arrive(q) \/ Proceed(q) \/ CallbackCancelled(q)
         \/ Restart
         \/ UNCHANGED callVars
BY DEF Next, vars, ChatTask, Submit, Accepted, StreamCompletes, ChatEnds, StreamFails,
       ChatCancelled, Stop, CancelReturns, NewRun, Forget, SuccessorEnds, Decide

LEMMA AnswersStay ==
  ASSUME Calls, [Next]_vars, NEW r \in Request, answer[r] # None
  PROVE  answer'[r] = answer[r]
<1>1. pc[r] = "done"
  BY DEF Calls, Requests
<1>2. CASE Restart
  BY <1>1, <1>2 DEF Restart, Inside
<1>3. CASE UNCHANGED callVars
  BY <1>3 DEF callVars
<1>4. CASE \E q \in Request : Arrive(q) \/ Proceed(q) \/ CallbackCancelled(q)
  BY <1>1, <1>4, OthersStand
<1> QED
  BY <1>2, <1>3, <1>4, OnlyTheirOwn

LEMMA WaitingKept ==
  ASSUME Calls, Runs, WaitingIsOwned, [Next]_vars
  PROVE  WaitingIsOwned'
<1> SUFFICES ASSUME status' = "waiting_approval",
                    \A q \in Request : answer'[q] # "aborted"
    PROVE  \E q \in Request : pc'[q] = "asking"
  BY DEF WaitingIsOwned
<1>1. \A q \in Request : answer[q] # "aborted"
  BY AnswersStay, NoneAssumption DEF Answers
<1>2. status = "waiting_approval" => \E q \in Request : pc[q] = "asking"
  BY <1>1 DEF WaitingIsOwned
<1>3. status = "waiting_approval" => tracked /\ ~stopped /\ status \in Executable
  BY DEF Runs, TrackerLive, Executable
<1>4. CASE UNCHANGED <<callVars, status>>
  BY <1>2, <1>4 DEF callVars
<1>5. ASSUME NEW q \in Request, Arrive(q) \/ Proceed(q) \/ CallbackCancelled(q)
      PROVE  \E r \in Request : pc'[r] = "asking"
  <2>1. \A r \in Request \ {q} : pc'[r] = pc[r]
    BY <1>5, OthersStand
  <2>2. CASE pc[q] # "asking" /\ status = "waiting_approval"
    BY <1>2, <2>1, <2>2
  <2>3. CASE pc[q] = "asking" /\ ApprovalExpires(q)
    BY <2>3 DEF ApprovalExpires, callVars
  <2>4. ASSUME CallbackCancelled(q) PROVE FALSE
    <3>1. answer' = [answer EXCEPT ![q] = "aborted"]
      BY <2>4 DEF CallbackCancelled, Leave, Answer
    <3> QED
      BY <3>1 DEF Calls, CallTypes
  <2>5. ASSUME ApprovalDenied(q) \/ ApprovalGranted(q) PROVE FALSE
    <3>1. ResumeRun
      BY <2>5 DEF ApprovalDenied, ApprovalGranted
    <3> QED
      BY <3>1, <1>3 DEF ResumeRun, TransitionThread, Current
  <2>6. ASSUME StopWins(q) PROVE FALSE
    BY <2>6, <1>3 DEF StopWins, MayExecute, runVars
  <2>7. ASSUME HooksAsk(q) PROVE \E r \in Request : pc'[r] = "asking"
    <3>1. CASE Current \in Executable
      <4>1. pc' = [pc EXCEPT ![q] = "asking"]
        BY <2>7, <3>1 DEF HooksAsk
      <4> QED
        BY <4>1 DEF Calls, CallTypes
    <3>2. CASE Current \notin Executable
      BY <2>7, <3>2, <1>3 DEF HooksAsk, TransitionThread, Current
    <3> QED
      BY <3>1, <3>2
  <2>8. ASSUME \/ Arrive(q) \/ FollowerAnswers(q) \/ LockAcquired(q) \/ HooksAllow(q)
               \/ ToolReturns(q) \/ ApprovalExpires(q)
               \/ \E s \in {"failed", "denied"} : HooksRefuse(q, s)
               \/ \E s \in {"completed", "failed"} : PostHookReturns(q, s)
        PROVE  status' = status /\ (pc[q] # "asking" \/ ApprovalExpires(q))
    BY <2>8 DEF Arrive, Refuse, Replay, Join, Admit, FollowerAnswers, LockAcquired,
                HooksAllow, ToolReturns, ApprovalExpires, HooksRefuse, PostHookReturns, runVars
  <2> QED
    BY <1>5, <2>2, <2>3, <2>4, <2>5, <2>6, <2>7, <2>8 DEF Proceed
<1>6. CASE Restart
  BY <1>6 DEF Restart
<1>7. CASE Stop
  BY <1>7 DEF Stop
<1>8. ASSUME ChatTask PROVE UNCHANGED callVars /\ status' = status
  <2>1. ASSUME NEW s \in {"error", "finished", "cancelled"}, Terminalize(s)
        PROVE  status' = status
    BY <2>1 DEF Terminalize
  <2> QED
    BY <1>8, <2>1 DEF ChatTask, Submit, Accepted, StreamCompletes, ChatEnds,
                      StreamFails, ChatCancelled
<1>9. ASSUME \/ NewRun \/ Forget \/ SuccessorEnds
             \/ \E o \in {"completed", "failed", "cancelled", "unknown"} : CancelReturns(o)
             \/ \E c \in Call, d \in {"approve", "deny"} : Decide(c, d)
             \/ UNCHANGED vars
      PROVE  UNCHANGED <<callVars, status>>
  BY <1>9 DEF NewRun, Forget, SuccessorEnds, CancelReturns, Decide, vars, runVars
<1> QED
  BY <1>4, <1>5, <1>6, <1>7, <1>8, <1>9 DEF Next

-----------------------------------------------------------------------------
(* The theorems *)

LEMMA RestartsBounded ==
  ASSUME restarts \in 0 .. MaxRestarts, [Next]_vars
  PROVE  restarts' \in 0 .. MaxRestarts
<1>1. CASE Restart
  BY <1>1, RestartAssumption DEF Restart
<1>2. CASE ~Restart
  <2>1. ASSUME NEW q \in Request, Arrive(q) \/ CallbackCancelled(q)
        PROVE  restarts' = restarts
    BY <2>1 DEF Arrive, Refuse, Replay, Join, Admit, CallbackCancelled
  <2>2. ASSUME NEW q \in Request, Proceed(q)
        PROVE  restarts' = restarts
    <3>1. CASE \/ FollowerAnswers(q) \/ LockAcquired(q)
               \/ HooksAllow(q) \/ HooksAsk(q)
               \/ \E s \in {"failed", "denied"} : HooksRefuse(q, s)
      BY <3>1 DEF FollowerAnswers, LockAcquired, HooksAllow, HooksAsk, HooksRefuse
    <3>2. CASE ~(\/ FollowerAnswers(q) \/ LockAcquired(q)
                 \/ HooksAllow(q) \/ HooksAsk(q)
                 \/ \E s \in {"failed", "denied"} : HooksRefuse(q, s))
      BY <2>2, <3>2 DEF Proceed, ApprovalExpires, StopWins, ApprovalDenied, ApprovalGranted,
                        ToolReturns, PostHookReturns
    <3> QED
      BY <3>1, <3>2
  <2>3. ASSUME ChatTask PROVE restarts' = restarts
    BY <2>3 DEF ChatTask, Submit, Accepted, StreamCompletes, ChatEnds, StreamFails,
                ChatCancelled
  <2>4. ASSUME \/ Stop \/ NewRun \/ Forget \/ SuccessorEnds
               \/ \E o \in {"completed", "failed", "cancelled", "unknown"} : CancelReturns(o)
               \/ \E c \in Call, d \in {"approve", "deny"} : Decide(c, d)
               \/ UNCHANGED vars
        PROVE  restarts' = restarts
    BY <2>4 DEF Stop, NewRun, Forget, SuccessorEnds, CancelReturns, Decide, vars
  <2>5. restarts' = restarts
    BY <1>2, <2>1, <2>2, <2>3, <2>4 DEF Next
  <2> QED
    BY <2>5
<1> QED
  BY <1>1, <1>2

LEMMA InitInv == Init => Inv
<1> SUFFICES ASSUME Init PROVE Inv
  OBVIOUS
<1>1. /\ \A q \in Request : pc[q] = "idle" /\ answer[q] = None
      /\ \A c \in Call : /\ record[c] = NoRecord /\ future[c] = None
                         /\ prompt[c] = None /\ started[c] = 0
  BY DEF Init
<1>2. "idle" \notin Inside /\ "idle" \notin Leading
  BY DEF Inside, Leading
<1>3. None \notin ToolTerminal
  BY NoneAssumption DEF ToolState
<1>4. CallTypes /\ AskTypes
  BY DEF Init, CallTypes, AskTypes
<1>5. Requests /\ Leaders /\ Futures /\ Beginnings
  BY <1>1, <1>2, <1>3 DEF Requests, Leaders, Futures, Beginnings
<1>6. OneAtATime /\ ApprovalRespected
  BY <1>1, <1>2 DEF OneAtATime, ApprovalRespected
<1>7. Runs
  BY NoneAssumption DEF Init, Runs, RunTypes, TrackerLive, RunStatus
<1>8. restarts \in 0 .. MaxRestarts /\ WaitingIsOwned
  BY RestartAssumption DEF Init, WaitingIsOwned
<1> QED
  BY <1>4, <1>5, <1>6, <1>7, <1>8 DEF Inv, Calls

LEMMA NextInv == Inv /\ [Next]_vars => Inv'
BY CallsKept, RunsKept, WaitingKept, RestartsBounded DEF Inv

(* The inductive invariant: who leads a call and what its record, future   *)
(* and prompt then are, and how the run's status, task, cancel request and *)
(* durable record hang together.                                           *)
THEOREM InvHolds == Spec => []Inv
BY InitInv, NextInv, PTL DEF Spec

(* The state of the bridge, the run and the requests keeps its type.       *)
THEOREM HermesTypes == Spec => []TypeOK
<1>1. Inv => TypeOK
  BY TypesSplit DEF Inv, Calls, Runs
<1> QED
  BY <1>1, InvHolds, PTL

(* However many callbacks, retries and approval waits overlap, distinct    *)
(* calls of a run are prepared, asked for and executed one at a time.      *)
THEOREM Serialized == Spec => []OneAtATime
<1>1. Inv => OneAtATime
  BY DEF Inv, Calls
<1> QED
  BY <1>1, InvHolds, PTL

(* No tool has run whose approval was denied, timed out or stopped.        *)
THEOREM ApprovalsHold == Spec => []ApprovalRespected
<1>1. Inv => ApprovalRespected
  BY DEF Inv, Calls
<1> QED
  BY <1>1, InvHolds, PTL

(* A run that waits for an approval has a callback that waits with it.     *)
THEOREM WaitsAreOwned == Spec => []WaitingIsOwned
<1>1. Inv => WaitingIsOwned
  BY DEF Inv
<1> QED
  BY <1>1, InvHolds, PTL

(* A stop does not stay in the durable record once task and cancel request *)
(* are over, whatever the runtime answers and in whichever order they end. *)
THEOREM StopsReconciled == Spec => []StopReconciled
<1>1. Inv => StopReconciled
  BY DEF Inv, Runs, StopReconciled
<1> QED
  BY <1>1, InvHolds, PTL

(* A call is started once at most, in the life of the run and after it.    *)
THEOREM StartedOnce == Spec => [](\A c \in Call : started[c] <= 1)
<1>1. Inv => \A c \in Call : started[c] <= 1
  BY DEF Inv, Calls, Beginnings
<1> QED
  BY <1>1, InvHolds, PTL

-----------------------------------------------------------------------------
(* No tool starts after a stop or after the end of its run's task.         *)

LEMMA StartsAreExecutable ==
  ASSUME Calls, [Next]_vars, started' # started
  PROVE  MayExecute
<1>1. PICK q \in Request : Arrive(q) \/ Proceed(q) \/ CallbackCancelled(q)
  BY OnlyTheirOwn DEF callVars, Restart
<1>2. HooksAllow(q) \/ ApprovalGranted(q)
  BY <1>1 DEF Arrive, Refuse, Replay, Join, Admit, CallbackCancelled, Proceed,
              FollowerAnswers, LockAcquired, HooksRefuse, HooksAsk, ApprovalExpires,
              StopWins, ApprovalDenied, ToolReturns, PostHookReturns, callVars
<1>3. CASE HooksAllow(q)
  BY <1>3 DEF HooksAllow, BeginExecution
<1>4. CASE ApprovalGranted(q)
  BY <1>4 DEF ApprovalGranted
<1> QED
  BY <1>2, <1>3, <1>4

THEOREM StartsLive == Spec => StartsWhileLive
<1>1. Inv /\ [Next]_vars => [started' # started => ~stopped /\ chat # "ended"]_vars
  <2> SUFFICES ASSUME Inv, [Next]_vars, started' # started
      PROVE  ~stopped /\ chat # "ended"
    OBVIOUS
  <2>1. MayExecute
    BY StartsAreExecutable DEF Inv
  <2> QED
    BY <2>1 DEF MayExecute, Inv, Runs, Executable, TrackerLive
<1> QED
  BY <1>1, InvHolds, PTL DEF Spec, StartsWhileLive

-----------------------------------------------------------------------------
(* The refinement: every step is a step of the tool-call ledger.           *)

(* The ledger's view of a request.                                         *)
Told(q) == IF answer[q] \in ToolTerminal THEN <<target[q], answer[q]>> ELSE None

(* The ledger sees no more of a state than these three.                    *)
LEMMA LedgerStutters ==
  ASSUME \A c \in Call : Outcome(c)' = Outcome(c),
         \A q \in Request : Told(q)' = Told(q),
         UNCHANGED started
  PROVE  UNCHANGED Ledger!ledger
BY DEF Ledger!ledger, Told

(* A request is told the outcome its call has after the step, or nothing.  *)
LEMMA LedgerTells ==
  ASSUME NEW q \in Request, answer[q] = None,
         \A r \in Request \ {q} : Told(r)' = Told(r),
         \/ Told(q)' = None
         \/ \E c \in Call : Outcome(c)' \in ToolTerminal /\ Told(q)' = <<c, Outcome(c)'>>
  PROVE  Ledger!Tell
<1> DEFINE told == [r \in Request |-> Told(r)]
<1>1. Told(q) = None
  BY NoneAssumption DEF Told, ToolState
<1>2. CASE Told(q)' = None
  <2>1. \A r \in Request : Told(r)' = Told(r)
    BY <1>1, <1>2
  <2> QED
    BY <2>1 DEF Ledger!Tell, Told
<1>3. ASSUME NEW c \in Call, Outcome(c)' \in ToolTerminal, Told(q)' = <<c, Outcome(c)'>>
      PROVE  Ledger!Tell
  <2>1. told' = [told EXCEPT ![q] = <<c, Outcome(c)'>>]
    BY <1>3
  <2>2. told[q] = None
    BY <1>1
  <2>3. ToolTerminal = Ledger!Final
    BY DEF ToolTerminal, Ledger!Final
  <2> QED
    BY <1>3, <2>1, <2>2, <2>3 DEF Ledger!Tell, Told
<1> QED
  BY <1>2, <1>3

(* A call ends.                                                            *)
LEMMA LedgerConcludes ==
  ASSUME NEW c \in Call, NEW s \in ToolTerminal, Ledger!MayEnd(Outcome(c), s),
         Outcome(c)' = s, \A d \in Call \ {c} : Outcome(d)' = Outcome(d),
         UNCHANGED started
  PROVE  Ledger!Conclude(c, s)
BY DEF Ledger!Conclude

LEMMA LeaveRefines ==
  ASSUME Calls, NEW q \in Request, pc[q] \in Leading,
         NEW s \in ToolTerminal, NEW a \in {s, "aborted"}, Leave(q, s, a),
         UNCHANGED started, Ledger!MayEnd(Outcome(target[q]), s)
  PROVE  Ledger!LedgerNext
<1>1. target[q] \in Call /\ answer[q] = None
  BY LeaderRecord
<1> PICK c \in Call : c = target[q]
  BY <1>1
<1>2. /\ record'[c].state = s /\ target' = target /\ answer'[q] = a
      /\ \A r \in Request \ {q} : answer'[r] = answer[r]
      /\ \A d \in Call \ {c} : record'[d] = record[d]
  BY LeaveEffects
<1>3. Outcome(c)' = s /\ \A d \in Call \ {c} : Outcome(d)' = Outcome(d)
  BY <1>2 DEF Outcome
<1>4. Ledger!Conclude(c, s)
  BY <1>1, <1>3, LedgerConcludes
<1>5. \A r \in Request \ {q} : Told(r)' = Told(r)
  BY <1>2 DEF Told
<1>6. Told(q)' = None \/ Told(q)' = <<c, Outcome(c)'>>
  <2>1. "aborted" \notin ToolTerminal
    BY DEF ToolTerminal
  <2> QED
    BY <1>2, <1>3, <2>1 DEF Told
<1>7. Ledger!Tell
  BY <1>1, <1>3, <1>5, <1>6, LedgerTells
<1> QED
  BY <1>1, <1>4, <1>7 DEF Ledger!LedgerNext, Ledger!Final, ToolTerminal

(* A request is answered without any call changing: it is told an outcome  *)
(* that stands, or that it is refused or cut off.                          *)
LEMMA AnswerRefines ==
  ASSUME Calls, NEW q \in Request, pc[q] # "done", NEW c \in Call, NEW a, Answer(q, c, a),
         a \in ToolTerminal => record[c].state = a,
         UNCHANGED <<record, started>>
  PROVE  Ledger!LedgerNext
<1>1. answer[q] = None
  BY DEF Calls, Requests
<1>2. /\ target'[q] = c /\ answer'[q] = a
      /\ \A r \in Request \ {q} : target'[r] = target[r] /\ answer'[r] = answer[r]
  BY DEF Answer, Calls, CallTypes
<1>3. \A d \in Call : Outcome(d)' = Outcome(d)
  BY DEF Outcome
<1>4. \A r \in Request \ {q} : Told(r)' = Told(r)
  BY <1>2 DEF Told
<1>5. \/ Told(q)' = None
      \/ Outcome(c)' \in ToolTerminal /\ Told(q)' = <<c, Outcome(c)'>>
  <2>1. CASE a \in ToolTerminal
    BY <1>2, <2>1 DEF Told, Outcome
  <2>2. CASE a \notin ToolTerminal
    BY <1>2, <2>2 DEF Told
  <2> QED
    BY <2>1, <2>2
<1>6. Ledger!Tell
  BY <1>1, <1>4, <1>5, LedgerTells
<1> QED
  BY <1>3, <1>6 DEF Ledger!LedgerNext

(* A step that answers nobody and starts nothing is none to the ledger.    *)
LEMMA QuietStep ==
  ASSUME UNCHANGED <<answer, started>>,
         \A q \in Request : answer[q] # None => target'[q] = target[q],
         \A c \in Call : Outcome(c)' = Outcome(c)
  PROVE  UNCHANGED Ledger!ledger
<1>1. \A q \in Request : Told(q)' = Told(q)
  BY NoneAssumption DEF Told, ToolState
<1> QED
  BY <1>1, LedgerStutters

LEMMA ArriveRefines ==
  ASSUME Calls, NEW q \in Request, Arrive(q)
  PROVE  Ledger!LedgerNext \/ UNCHANGED Ledger!ledger
<1> PICK c \in Call, p \in Params :
      Refuse(q, c, p) \/ Replay(q, c, p) \/ Join(q, c, p) \/ Admit(q, c, p)
  BY DEF Arrive
<1>0. pc[q] = "idle" /\ answer[q] = None
  BY DEF Refuse, Replay, Join, Admit, Calls, Requests
<1>1. CASE Refuse(q, c, p)
  <2>1. "refused" \notin ToolTerminal
    BY DEF ToolTerminal
  <2> QED
    BY <1>0, <1>1, <2>1, AnswerRefines DEF Refuse
<1>2. CASE Replay(q, c, p)
  BY <1>0, <1>2, AnswerRefines DEF Replay
<1>3. CASE Join(q, c, p)
  <2>1. /\ record[c] \in [state: ToolState, params: Params]
        /\ record[c].state \notin ToolTerminal
    <3>1. record[c] # NoRecord
      BY <1>3, CallAssumption DEF Join, NoRecord
    <3> QED
      BY <1>3, <3>1 DEF Join, Calls, CallTypes
  <2>2. CASE future[c] = None
    <3>1. /\ record' = [record EXCEPT ![c].state = "unknown"]
          /\ Answer(q, c, "unknown") /\ UNCHANGED started
      BY <1>3, <2>2 DEF Join
    <3>2. "unknown" \in ToolTerminal /\ "unknown" \in ToolState
      BY DEF ToolTerminal, ToolState
    <3>3. record'[c].state = "unknown" /\ \A d \in Call \ {c} : record'[d] = record[d]
      BY <2>1, <3>1, <3>2, Restated DEF Calls
    <3>4. Outcome(c)' = "unknown" /\ \A d \in Call \ {c} : Outcome(d)' = Outcome(d)
      BY <3>2, <3>3 DEF Outcome
    <3>5. Outcome(c) \in {"open", "started"}
      BY <2>1, NoneAssumption DEF Outcome
    <3>6. Ledger!Conclude(c, "unknown")
      BY <3>1, <3>2, <3>4, <3>5, LedgerConcludes DEF Ledger!MayEnd
    <3>7. /\ target'[q] = c /\ answer'[q] = "unknown"
          /\ \A r \in Request \ {q} : target'[r] = target[r] /\ answer'[r] = answer[r]
      BY <3>1 DEF Answer, Calls, CallTypes
    <3>8. /\ \A r \in Request \ {q} : Told(r)' = Told(r)
          /\ Told(q)' = <<c, Outcome(c)'>>
      BY <3>2, <3>4, <3>7 DEF Told
    <3>9. Ledger!Tell
      BY <1>0, <3>2, <3>4, <3>8, LedgerTells
    <3> QED
      BY <3>6, <3>9 DEF Ledger!LedgerNext, Ledger!Final
  <2>3. CASE future[c] # None
    <3>1. target' = [target EXCEPT ![q] = c] /\ UNCHANGED <<record, answer, started>>
      BY <1>3, <2>3 DEF Join
    <3>2. \A r \in Request : answer[r] # None => target'[r] = target[r]
      BY <1>0, <3>1 DEF Calls, CallTypes
    <3> QED
      BY <3>1, <3>2, QuietStep DEF Outcome
  <2> QED
    BY <2>2, <2>3
<1>4. CASE Admit(q, c, p)
  <2>1. /\ record' = [record EXCEPT ![c] = [state |-> "received", params |-> p]]
        /\ target' = [target EXCEPT ![q] = c] /\ UNCHANGED <<answer, started>>
        /\ record[c] = NoRecord
    BY <1>4 DEF Admit
  <2>2. /\ record'[c].state = "received" /\ \A d \in Call \ {c} : record'[d] = record[d]
    BY <2>1 DEF Calls, CallTypes
  <2>3. "received" \notin ToolTerminal \cup {None} /\ "received" # "executing"
    BY NoneAssumption DEF ToolTerminal, ToolState
  <2>4. /\ Outcome(c) = None /\ Outcome(c)' = "open"
        /\ \A d \in Call \ {c} : Outcome(d)' = Outcome(d)
    BY <2>1, <2>2, <2>3 DEF Outcome, NoRecord
  <2>5. \A r \in Request : Told(r)' = Told(r)
    BY <1>0, <2>1, NoneAssumption DEF Told, Calls, CallTypes, ToolState
  <2>6. Ledger!Open(c)
    BY <2>1, <2>4, <2>5 DEF Ledger!Open, Told
  <2> QED
    BY <2>6 DEF Ledger!LedgerNext
<1> QED
  BY <1>1, <1>2, <1>3, <1>4

(* The ways a call ends from where its leader stands.                      *)
LEMMA LeaderMayEnd ==
  ASSUME Calls, NEW q \in Request, pc[q] \in Leading, NEW s \in ToolTerminal,
         pc[q] \in {"queued", "preparing", "asking"} => s # "completed",
         pc[q] \in {"executing", "posting"} => s # "denied"
  PROVE  Ledger!MayEnd(Outcome(target[q]), s)
<1>1. record[target[q]].state = StateAt(pc[q])
  BY LeaderRecord
<1>2. pc[q] \in {"queued", "preparing", "asking", "executing", "posting"}
  BY DEF Leading, Inside
<1>3. {"received", "waiting_approval", "executing"} \cap (ToolTerminal \cup {None}) = {}
  BY NoneAssumption DEF ToolTerminal, ToolState
<1>4. CASE pc[q] \in {"queued", "preparing", "asking"}
  <2>1. Outcome(target[q]) = "open"
    BY <1>1, <1>3, <1>4 DEF Outcome, StateAt
  <2> QED
    BY <1>4, <2>1 DEF Ledger!MayEnd, ToolTerminal
<1>5. CASE pc[q] \in {"executing", "posting"}
  <2>1. Outcome(target[q]) = "started"
    BY <1>1, <1>3, <1>5 DEF Outcome, StateAt
  <2> QED
    BY <1>5, <2>1 DEF Ledger!MayEnd, ToolTerminal
<1> QED
  BY <1>2, <1>4, <1>5

LEMMA BeginRefines ==
  ASSUME Calls, NEW q \in Request, pc[q] \in {"preparing", "asking"},
         NEW may \in BOOLEAN, BeginExecution(q, may)
  PROVE  Ledger!LedgerNext
<1>1. pc[q] \in Leading
  BY DEF Leading, Inside
<1>2. /\ target[q] \in Call /\ record[target[q]] \in [state: ToolState, params: Params]
      /\ record[target[q]].state \in {"received", "waiting_approval"}
  BY <1>1, LeaderRecord DEF StateAt
<1> PICK c \in Call : c = target[q]
  BY <1>2
<1>3. CASE may
  <2>1. /\ record' = [record EXCEPT ![c].state = "executing"]
        /\ started' = [started EXCEPT ![c] = @ + 1]
        /\ UNCHANGED <<target, answer>>
    BY <1>3 DEF BeginExecution
  <2>2. {"received", "waiting_approval", "executing"} \cap (ToolTerminal \cup {None}) = {}
    BY NoneAssumption DEF ToolTerminal, ToolState
  <2>3. record'[c].state = "executing" /\ \A d \in Call \ {c} : record'[d] = record[d]
    BY <1>2, <2>1, Restated DEF Calls, ToolState
  <2>4. /\ Outcome(c) = "open" /\ Outcome(c)' = "started"
        /\ \A d \in Call \ {c} : Outcome(d)' = Outcome(d)
    BY <1>2, <2>2, <2>3 DEF Outcome
  <2>5. Ledger!Start(c)
    BY <2>1, <2>4 DEF Ledger!Start
  <2> QED
    BY <2>5 DEF Ledger!LedgerNext
<1>4. CASE ~may
  <2>1. Leave(q, "failed", "failed") /\ UNCHANGED started
    BY <1>4 DEF BeginExecution, Settle
  <2>2. Ledger!MayEnd(Outcome(target[q]), "failed")
    BY <1>1, LeaderMayEnd DEF ToolTerminal
  <2> QED
    BY <1>1, <2>1, <2>2, LeaveRefines DEF ToolTerminal
<1> QED
  BY <1>3, <1>4

LEMMA SettleRefines ==
  ASSUME Calls, NEW q \in Request, pc[q] \in Leading, NEW s \in ToolTerminal,
         pc[q] \in {"queued", "preparing", "asking"} => s # "completed",
         pc[q] \in {"executing", "posting"} => s # "denied",
         NEW a \in {s, "aborted"}, Leave(q, s, a), UNCHANGED started
  PROVE  Ledger!LedgerNext
BY LeaderMayEnd, LeaveRefines

LEMMA ProceedRefines ==
  ASSUME Calls, NEW q \in Request, Proceed(q)
  PROVE  Ledger!LedgerNext \/ UNCHANGED Ledger!ledger
<1> USE DEF Leading, Inside
<1>0. ToolTerminal = {"completed", "denied", "failed", "unknown"}
  BY DEF ToolTerminal
<1>1. CASE FollowerAnswers(q)
  <2>1. target[q] \in Call /\ future[target[q]] \in ToolTerminal
    <3>1. target[q] \in Call /\ future[target[q]] # None
      BY <1>1 DEF FollowerAnswers, Calls, Requests
    <3> QED
      BY <1>1, <3>1 DEF FollowerAnswers, Calls, CallTypes
  <2> PICK c \in Call : c = target[q]
    BY <2>1
  <2> PICK a \in ToolTerminal : a = future[target[q]]
    BY <2>1
  <2>2. record[c].state = a
    BY DEF Calls, Futures
  <2>3. Answer(q, c, a) /\ pc[q] # "done" /\ UNCHANGED <<record, started>>
    BY <1>1 DEF FollowerAnswers, Answer
  <2> QED
    BY <2>2, <2>3, AnswerRefines
<1>2. CASE LockAcquired(q)
  <2>1. CASE MayExecute
    <3>1. UNCHANGED <<record, target, answer, started>>
      BY <1>2, <2>1 DEF LockAcquired
    <3> QED
      BY <3>1, QuietStep DEF Outcome
  <2>2. CASE ~MayExecute
    BY <1>0, <1>2, <2>2, SettleRefines DEF LockAcquired, Settle
  <2> QED
    BY <2>1, <2>2
<1>3. CASE HooksAllow(q)
  BY <1>3, BeginRefines DEF HooksAllow, MayExecute
<1>4. ASSUME NEW s \in {"failed", "denied"}, HooksRefuse(q, s) PROVE Ledger!LedgerNext
  BY <1>0, <1>4, SettleRefines DEF HooksRefuse, Settle
<1>5. CASE HooksAsk(q)
  <2>1. CASE Current \in Executable
    <3>1. pc[q] = "preparing" /\ pc[q] \in Leading
      BY <1>5 DEF HooksAsk
    <3>2. /\ target[q] \in Call /\ record[target[q]] \in [state: ToolState, params: Params]
          /\ record[target[q]].state = "received"
      BY <3>1, LeaderRecord DEF StateAt
    <3> PICK c \in Call : c = target[q]
      BY <3>2
    <3>3. /\ record' = [record EXCEPT ![c].state = "waiting_approval"]
          /\ UNCHANGED <<target, answer, started>>
      BY <1>5, <2>1 DEF HooksAsk
    <3>4. /\ record'[c].state = "waiting_approval"
          /\ \A d \in Call \ {c} : record'[d] = record[d]
      <4>1. CallTypes
        BY DEF Calls
      <4>2. record[c].state \in ToolState /\ "waiting_approval" \in ToolState
        BY <3>2 DEF ToolState
      <4> QED
        BY <3>2, <3>3, <4>1, <4>2, Restated
    <3>5. {"received", "waiting_approval"} \cap (ToolTerminal \cup {None}) = {}
      BY NoneAssumption DEF ToolTerminal, ToolState
    <3>6. \A d \in Call : Outcome(d)' = Outcome(d)
      <4>1. Outcome(c)' = Outcome(c)
        BY <3>2, <3>4, <3>5 DEF Outcome
      <4> QED
        BY <3>4, <4>1 DEF Outcome
    <3> QED
      BY <3>3, <3>6, QuietStep
  <2>2. CASE Current \notin Executable
    BY <1>0, <1>5, <2>2, SettleRefines DEF HooksAsk, Settle
  <2> QED
    BY <2>1, <2>2
<1>6. CASE ApprovalExpires(q)
  BY <1>6, QuietStep DEF ApprovalExpires, callVars, Outcome
<1>7. CASE StopWins(q)
  BY <1>0, <1>7, SettleRefines DEF StopWins, Settle
<1>8. CASE ApprovalDenied(q)
  BY <1>0, <1>8, SettleRefines DEF ApprovalDenied, Settle
<1>9. CASE ApprovalGranted(q)
  BY <1>9, BeginRefines DEF ApprovalGranted
<1>10. CASE ToolReturns(q)
  BY <1>10, QuietStep DEF ToolReturns, Outcome
<1>11. ASSUME NEW s \in {"completed", "failed"}, PostHookReturns(q, s)
       PROVE  Ledger!LedgerNext
  BY <1>0, <1>11, SettleRefines DEF PostHookReturns, Settle
<1> QED
  BY <1>1, <1>2, <1>3, <1>4, <1>5, <1>6, <1>7, <1>8, <1>9, <1>10, <1>11 DEF Proceed

LEMMA CancelledRefines ==
  ASSUME Calls, NEW q \in Request, CallbackCancelled(q)
  PROVE  Ledger!LedgerNext
<1>1. pc[q] \in Inside /\ pc[q] # "done" /\ target[q] \in Call /\ UNCHANGED started
  BY DEF CallbackCancelled, Calls, Requests, Inside
<1>2. "aborted" \notin ToolTerminal /\ "unknown" \in ToolTerminal
  BY DEF ToolTerminal
<1>3. CASE pc[q] = "following"
  BY <1>1, <1>2, <1>3, AnswerRefines DEF CallbackCancelled
<1>4. CASE pc[q] # "following"
  BY <1>1, <1>2, <1>4, SettleRefines DEF CallbackCancelled, Leading
<1> QED
  BY <1>3, <1>4

LEMMA RestartRefines ==
  ASSUME Calls, Restart
  PROVE  Ledger!LedgerNext
<1>1. ASSUME NEW c \in Call
      PROVE  Outcome(c)' = IF Outcome(c) \in {"open", "started"}
                           THEN "unknown" ELSE Outcome(c)
  <2>1. record'[c] = IF record[c] = NoRecord \/ record[c].state \in ToolTerminal
                     THEN record[c] ELSE [record[c] EXCEPT !.state = "unknown"]
    BY DEF Restart
  <2>2. {"open", "started"} \cap ToolTerminal = {} /\ "unknown" \in ToolTerminal
    BY DEF ToolTerminal
  <2>3. CASE record[c] = NoRecord \/ record[c].state \in ToolTerminal
    <3>1. record'[c] = record[c]
      BY <2>1, <2>3
    <3>2. record[c].state \in ToolTerminal \cup {None}
      BY <2>3 DEF NoRecord
    <3>3. CASE record[c].state = None
      BY <3>1, <3>3, NoneAssumption DEF Outcome
    <3>4. CASE record[c].state \in ToolTerminal
      BY <2>2, <3>1, <3>4 DEF Outcome
    <3> QED
      BY <3>2, <3>3, <3>4
  <2>4. CASE ~(record[c] = NoRecord \/ record[c].state \in ToolTerminal)
    <3>1. record[c] \in [state: ToolState, params: Params]
      BY <2>4 DEF Calls, CallTypes
    <3>2. record'[c].state = "unknown"
      BY <2>1, <2>4, <3>1
    <3>3. record[c].state \notin ToolTerminal \cup {None}
      BY <2>4, <3>1, NoneAssumption
    <3> QED
      BY <2>2, <3>2, <3>3 DEF Outcome
  <2> QED
    BY <2>3, <2>4
<1>2. \A q \in Request : Told(q)' = Told(q)
  <2> SUFFICES ASSUME NEW q \in Request PROVE Told(q)' = Told(q)
    OBVIOUS
  <2>1. /\ answer'[q] = IF pc[q] \in Inside THEN "aborted" ELSE answer[q]
        /\ target' = target
    BY DEF Restart
  <2>2. pc[q] \in Inside => answer[q] = None
    BY DEF Calls, Requests, Inside
  <2>3. None \notin ToolTerminal /\ "aborted" \notin ToolTerminal
    BY NoneAssumption DEF ToolState, ToolTerminal
  <2> QED
    BY <2>1, <2>2, <2>3 DEF Told
<1>3. UNCHANGED started
  BY DEF Restart
<1>4. Ledger!Crash
  BY <1>1, <1>2, <1>3 DEF Ledger!Crash, Told
<1> QED
  BY <1>4 DEF Ledger!LedgerNext

(* Every behaviour of the bridge, with its retries, followers, approvals,  *)
(* stops, cancelled callbacks and restarts, is one of the tool-call ledger.*)
THEOREM BridgeKeepsLedger == Spec => CallsFollowLedger
<1>1. Init => Ledger!LedgerInit
  BY NoneAssumption DEF Init, Ledger!LedgerInit, Outcome, NoRecord, ToolState
<1>2. Inv /\ [Next]_vars => [Ledger!LedgerNext]_(Ledger!ledger)
  <2> SUFFICES ASSUME Inv, [Next]_vars
      PROVE  Ledger!LedgerNext \/ UNCHANGED Ledger!ledger
    OBVIOUS
  <2>1. Calls
    BY DEF Inv
  <2>2. ASSUME NEW q \in Request, Arrive(q) \/ Proceed(q) \/ CallbackCancelled(q)
        PROVE  Ledger!LedgerNext \/ UNCHANGED Ledger!ledger
    BY <2>1, <2>2, ArriveRefines, ProceedRefines, CancelledRefines
  <2>3. CASE Restart
    BY <2>1, <2>3, RestartRefines
  <2>4. CASE UNCHANGED callVars
    BY <2>4, QuietStep DEF callVars, Outcome
  <2> QED
    BY <2>2, <2>3, <2>4, OnlyTheirOwn
<1> QED
  BY <1>1, <1>2, InvHolds, PTL DEF Spec, CallsFollowLedger, Ledger!LedgerSpec
=============================================================================
