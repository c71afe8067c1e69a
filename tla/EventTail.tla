----------------------------- MODULE EventTail -----------------------------
(***************************************************************************)
(* The event logs of a thread's runs (RunState in                          *)
(* dataclaw/api/run_tracker.py) and the server-sent-event streams that     *)
(* tail them (_tail_events in dataclaw/api/routers/chat.py).               *)
(*                                                                         *)
(* Events of a run are numbered from 1, the last Cap of them are kept.  A  *)
(* tail suspends where it yields an event to its client and where it waits *)
(* for an event; everything between is one step.                           *)
(***************************************************************************)
EXTENDS Integers

CONSTANTS
  Run,        \* runs the thread may ever have
  Stream,     \* clients, each with at most one open stream
  Cap,        \* _MAX_EVENTS
  MaxEvents,  \* bound: events of a run
  None

ASSUME RunAssumption   == None \notin Run
ASSUME CapAssumption   == Cap \in Nat \ {0} /\ MaxEvents \in Nat

VARIABLES
  current,   \* RunTracker._runs of the thread
  state,     \* "new", "live" or "ended"
  cursor,    \* RunState.cursor: number of the last event
  endAt,     \* history: number of the RUN_FINISHED event, 0 before
  removed,   \* history: runs a deletion dropped while they were live
  waiters,   \* RunState._waiters
  woken,     \* tails whose waiter is set
  pc,        \* where each tail stands
  run,       \* the run object it has in hand
  from,      \* the cursor it came to that run with, at first after_cursor
  at,        \* its cursor: the event yielded last
  upto,      \* the last event of the list it is yielding
  got        \* history: what each client received, as <<run, number>>

logVars == <<current, state, cursor, endAt, removed>>
vars == <<logVars, waiters, woken, pc, run, from, at, upto, got>>

(* Where a tail is suspended in a yield. *)
Yielding == {"sending", "keepalive", "draining"}
Closed   == {"idle", "done", "gone"}

TypeOK ==
  /\ current \in Run \cup {None}
  /\ state \in [Run -> {"new", "live", "ended"}]
  /\ cursor \in [Run -> Nat]
  /\ endAt \in [Run -> Nat]
  /\ removed \subseteq Run
  /\ waiters \in [Run -> SUBSET Stream]
  /\ woken \subseteq Stream
  /\ pc \in [Stream -> {"opened", "waiting"} \cup Yielding \cup Closed]
  /\ run \in [Stream -> Run \cup {None}]
  /\ from \in [Stream -> Nat]
  /\ at \in [Stream -> Nat]
  /\ upto \in [Stream -> Nat]
  /\ got \in [Stream -> SUBSET (Run \X (Nat \ {0}))]

Init ==
  /\ current = None
  /\ state = [r \in Run |-> "new"]
  /\ cursor = [r \in Run |-> 0]
  /\ endAt = [r \in Run |-> 0]
  /\ removed = {}
  /\ waiters = [r \in Run |-> {}]
  /\ woken = {}
  /\ pc = [t \in Stream |-> "idle"]
  /\ run = [t \in Stream |-> None]
  /\ from = [t \in Stream |-> 0]
  /\ at = [t \in Stream |-> 0]
  /\ upto = [t \in Stream |-> 0]
  /\ got = [t \in Stream |-> {}]

-----------------------------------------------------------------------------
(* The log *)

(* start_run replaces a run that is not live.                              *)
StartRun(r) ==
  /\ state[r] = "new"
  /\ current # None => state[current] # "live"
  /\ current' = r
  /\ state' = [state EXCEPT ![r] = "live"]
  /\ UNCHANGED <<cursor, endAt, removed, waiters, woken, pc, run, from, at,
                 upto, got>>

\* Mutant: append_event leaves the waiters alone.
AppendEvent_Silently(r) ==
  /\ cursor[r] < MaxEvents
  /\ cursor' = [cursor EXCEPT ![r] = @ + 1]
  /\ UNCHANGED <<waiters, woken>>

(* RunState.append_event: every waiter is set and forgotten.               *)
AppendEvent(r) ==
  /\ cursor[r] < MaxEvents
  /\ cursor' = [cursor EXCEPT ![r] = @ + 1]
  /\ woken' = woken \cup waiters[r]
  /\ waiters' = [waiters EXCEPT ![r] = {}]

(* append_event names the thread: a late event goes to a run that ended.   *)
Emit ==
  /\ current # None
  /\ AppendEvent(current)
  /\ UNCHANGED <<current, state, endAt, removed, pc, run, from, at, upto, got>>

(* _terminalize_run: RUN_FINISHED and the terminal status in one step.     *)
End ==
  /\ current # None
  /\ state[current] = "live"
  /\ AppendEvent(current)
  /\ state' = [state EXCEPT ![current] = "ended"]
  /\ endAt' = [endAt EXCEPT ![current] = cursor[current] + 1]
  /\ UNCHANGED <<current, removed, pc, run, from, at, upto, got>>

(* The time to live of a run that ended is over.                           *)
Forget ==
  /\ current # None
  /\ state[current] = "ended"
  /\ current' = None
  /\ UNCHANGED <<state, cursor, endAt, removed, waiters, woken, pc, run, from,
                 at, upto, got>>

(* The last step of a deletion drops the run the thread has, also one that *)
(* was started while the deletion waited for the cleanup.  Nobody is woken *)
(* and no event is written; a live run stays so, with no thread to name it *)
(* by.                                                                     *)
RemoveRun ==
  /\ current # None
  /\ current' = None
  /\ removed' = IF state[current] = "live" THEN removed \cup {current} ELSE removed
  /\ UNCHANGED <<state, cursor, endAt, waiters, woken, pc, run, from, at, upto,
                 got>>

-----------------------------------------------------------------------------
(* A tail *)

(* get_events_after(c): the first event it returns, if there is any.       *)
Pending(r, c) == c < cursor[r]
\* Mutant: the cursor of the client is taken for the next event.
FirstAfter_OffByOne(r, c) ==
  IF c >= cursor[r] - Cap THEN (IF c + 2 <= cursor[r] THEN c + 2 ELSE c + 1)
  ELSE cursor[r] - Cap + 1

FirstAfter(r, c) == IF c >= cursor[r] - Cap THEN c + 1 ELSE cursor[r] - Cap + 1

(* Yielding event n.                                                       *)
Yield(t, r, n) ==
  /\ at' = [at EXCEPT ![t] = n]
  /\ got' = [got EXCEPT ![t] = @ \cup {<<r, n>>}]

(* The list of all events after the cursor, and its first one.             *)
YieldAll(t, r, where) ==
  /\ pc' = [pc EXCEPT ![t] = where]
  /\ upto' = [upto EXCEPT ![t] = cursor[r]]
  /\ Yield(t, r, FirstAfter(r, at[t]))

(* One turn of the loop, up to its first suspension.  It asks for the run  *)
(* the thread has now: none, and the stream closes; or another than the    *)
(* one before, and the tail goes on there with the cursor it has.          *)
Turn(t) ==
  \/ /\ current = None
     /\ pc' = [pc EXCEPT ![t] = "done"]
     /\ UNCHANGED <<run, from, waiters, at, upto, got>>
  \/ /\ current # None
     /\ run' = [run EXCEPT ![t] = current]
     /\ from' = [from EXCEPT ![t] = IF run[t] = current THEN @ ELSE at[t]]
     /\ IF Pending(current, at[t])
        THEN YieldAll(t, current, "sending") /\ UNCHANGED waiters
        ELSE /\ waiters' = [waiters EXCEPT ![current] = @ \cup {t}]
             /\ pc' = [pc EXCEPT ![t] = "waiting"]
             /\ UNCHANGED <<at, upto, got>>

(* GET /agent/events/{thread}?after=c, or the stream of POST /agent (c = 0) *)
(* A client that went away comes back with the cursor it had.  The         *)
(* generator starts only when its response is sent.                        *)
Connect(t, c) ==
  /\ current # None
  /\ pc[t] \in Closed
  /\ \/ c = 0 /\ pc[t] = "idle"
     \/ pc[t] = "gone" /\ c = at[t]
  /\ pc' = [pc EXCEPT ![t] = "opened"]
  /\ from' = [from EXCEPT ![t] = c]
  /\ at' = [at EXCEPT ![t] = c]
  /\ run' = [run EXCEPT ![t] = None]
  /\ UNCHANGED <<logVars, waiters, woken, upto, got>>

Open(t) ==
  /\ pc[t] = "opened"
  /\ Turn(t)
  /\ UNCHANGED <<logVars, woken>>

(* The waiter is set, or 15 seconds are over: then a keepalive, unless     *)
(* events came at the same time.                                           *)
Wake(t) ==
  /\ pc[t] = "waiting"
  /\ waiters' = [waiters EXCEPT ![run[t]] = @ \ {t}]
  /\ woken' = woken \ {t}
  /\ IF Pending(run[t], at[t])
     THEN YieldAll(t, run[t], "sending")
     ELSE pc' = [pc EXCEPT ![t] = "keepalive"] /\ UNCHANGED <<at, upto, got>>
  /\ UNCHANGED <<logVars, run, from>>

(* The client takes the event and asks for the next one of the list.       *)
YieldNext(t) ==
  /\ pc[t] \in {"sending", "draining"}
  /\ at[t] < upto[t]
  /\ Yield(t, run[t], at[t] + 1)
  /\ UNCHANGED <<logVars, waiters, woken, pc, run, from, upto>>

\* Mutant: a run that ended is left without looking at the log again.
LoopEnds_WithoutDrain(t) ==
  /\ \/ pc[t] = "sending" /\ at[t] = upto[t]
     \/ pc[t] = "keepalive"
  /\ IF state[run[t]] = "live"
     THEN Turn(t)
     ELSE /\ pc' = [pc EXCEPT ![t] = "done"]
          /\ UNCHANGED <<run, from, waiters, at, upto, got>>
  /\ UNCHANGED <<logVars, woken>>

\* Mutant: the loop never leaves a run that ended.
LoopEnds_Never(t) ==
  /\ \/ pc[t] = "sending" /\ at[t] = upto[t]
     \/ pc[t] = "keepalive"
  /\ Turn(t)
  /\ UNCHANGED <<logVars, woken>>

(* The list is done.  A live run has another turn; of one that ended the   *)
(* rest of the log is drained.                                             *)
LoopEnds(t) ==
  /\ \/ pc[t] = "sending" /\ at[t] = upto[t]
     \/ pc[t] = "keepalive"
  /\ IF state[run[t]] = "live"
     THEN Turn(t)
     ELSE /\ UNCHANGED <<run, from, waiters>>
          /\ IF Pending(run[t], at[t])
             THEN YieldAll(t, run[t], "draining")
             ELSE pc' = [pc EXCEPT ![t] = "done"] /\ UNCHANGED <<at, upto, got>>
  /\ UNCHANGED <<logVars, woken>>

DrainEnds(t) ==
  /\ pc[t] = "draining"
  /\ at[t] = upto[t]
  /\ pc' = [pc EXCEPT ![t] = "done"]
  /\ UNCHANGED <<logVars, waiters, woken, run, from, at, upto, got>>

(* The client goes away; the `finally' of the wait removes the waiter.     *)
Disconnect(t) ==
  /\ pc[t] \notin Closed
  /\ pc' = [pc EXCEPT ![t] = "gone"]
  /\ waiters' = [r \in Run |-> waiters[r] \ {t}]
  /\ woken' = woken \ {t}
  /\ UNCHANGED <<logVars, run, from, at, upto, got>>

-----------------------------------------------------------------------------
TailStep(t) ==
  \/ Open(t)
  \/ Wake(t)
  \/ YieldNext(t)
  \/ LoopEnds(t)
  \/ DrainEnds(t)

Next ==
  \/ \E r \in Run : StartRun(r)
  \/ Emit
  \/ End
  \/ Forget
  \/ RemoveRun
  \/ \E t \in Stream : \E c \in 0 .. MaxEvents : Connect(t, c)
  \/ \E t \in Stream : TailStep(t)
  \/ \E t \in Stream : Disconnect(t)

Spec == Init /\ [][Next]_vars

(* The event loop resumes a tail that is woken or timed out, and a client  *)
(* that stays connected reads.                                             *)
FairSpec == Spec /\ \A t \in Stream : WF_vars(TailStep(t))

-----------------------------------------------------------------------------
(* What the streams promise *)

(* A tail that sleeps unwoken has all of its run's events: neither an      *)
(* event nor the end of the run slips in between the look at the log and   *)
(* the registration of the waiter (wait_for_events).                       *)
NoLostWakeup ==
  \A t \in Stream :
    pc[t] = "waiting" /\ t \notin woken => ~Pending(run[t], at[t])

(* A client receives every event of its run from the cursor on with which  *)
(* its stream came to that run, except those that fell out of the capped   *)
(* log before the tail came to them, however appends, ends, deletions and  *)
(* slow reads interleave (_tail_events).                                   *)
OnlyTheCapSkips ==
  \A t \in Stream : run[t] # None =>
    \A n \in from[t] + 1 .. at[t] :
      <<run[t], n>> \in got[t] \/ n <= cursor[run[t]] - Cap

(* A stream the server closes has delivered the end of the run it followed *)
(* last, unless that event fell out of the capped log or lies before the   *)
(* cursor with which the stream came to that run, or the run was live when *)
(* a deletion dropped it: _tail_events then finds no run and returns, and  *)
(* no end event was ever written for it.                                   *)
ClosedAfterTheEnd ==
  \A t \in Stream : pc[t] = "done" /\ run[t] # None =>
    \/ run[t] \in removed
    \/ /\ state[run[t]] = "ended"
       /\ \/ <<run[t], endAt[run[t]]>> \in got[t]
          \/ endAt[run[t]] <= from[t]
          \/ endAt[run[t]] <= cursor[run[t]] - Cap

(* A stream of a run that ended is closed.                                 *)
StreamsClose ==
  \A t \in Stream :
    run[t] # None /\ state[run[t]] = "ended" /\ pc[t] \notin Closed
      ~> pc[t] \in Closed
=============================================================================
