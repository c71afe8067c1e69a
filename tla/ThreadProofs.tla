---------------------------- MODULE ThreadProofs ----------------------------
(***************************************************************************)
(* Proofs about the two records of a thread, for every value of the        *)
(* constants: the event logs of its runs with their tails (EventTail), and *)
(* its session file with what the runs read of it (SessionHistory).        *)
(*                                                                         *)
(* The invariant of the logs has one part about the log and one about each *)
(* tail, which only the tail's own steps can disturb and the log's steps   *)
(* keep because logs only grow.  That of the file has three parts about    *)
(* the file, and one about what each run read: the file only grows round   *)
(* it.  Nothing is proved by induction on the file: of every list it is    *)
(* said what is at which place.                                            *)
(***************************************************************************)
EXTENDS EventTail, SessionHistory, FiniteSetTheorems, WellFoundedInduction, TLAPS

(* Event logs and their tails.                                             *)

(* Only the current run is live, if no deletion dropped it, and it was     *)
(* started; an end event is in the log.                                    *)
OneLive ==
  /\ \A r \in Run : state[r] = "live" => current = r \/ r \in removed
  /\ current # None => state[current] # "new"

EndLogged == \A r \in Run : endAt[r] <= cursor[r]

(* A tail in its loop has a run; one that was not started is at the cursor *)
(* its client gave.                                                        *)
InHand(t) ==
  /\ pc[t] \in Yielding \cup {"waiting"} => run[t] # None
  /\ pc[t] = "opened" => run[t] = None /\ at[t] = from[t]
  /\ run[t] # None => state[run[t]] # "new"

(* A sleeping tail is in the list of waiters or was woken.                 *)
Registered(t) ==
  pc[t] = "waiting" /\ t \notin woken =>
    t \in waiters[run[t]] /\ ~Pending(run[t], at[t])

(* What a draining tail yields reaches the end.                            *)
DrainsToTheEnd(t) ==
  pc[t] = "draining" => state[run[t]] = "ended" /\ endAt[run[t]] <= upto[t]

(* The two properties of streams, for one of them.                         *)
Skips(t) ==
  run[t] # None =>
    \A n \in from[t] + 1 .. at[t] :
      <<run[t], n>> \in got[t] \/ n <= cursor[run[t]] - Cap

AtTheEnd(t) ==
  pc[t] = "done" /\ run[t] # None =>
    \/ run[t] \in removed
    \/ /\ state[run[t]] = "ended"
       /\ endAt[run[t]] <= at[t]

TailOK(t) ==
  /\ InHand(t)
  /\ Registered(t)
  /\ DrainsToTheEnd(t)
  /\ Skips(t)
  /\ AtTheEnd(t)

Inv ==
  /\ TypeOK
  /\ OneLive
  /\ EndLogged
  /\ \A t \in Stream : TailOK(t)

LEMMA InitInv == Init => Inv
<1> SUFFICES ASSUME Init PROVE Inv
  OBVIOUS
<1>1. TypeOK
  BY DEF Init, TypeOK, Closed
<1>2. OneLive /\ EndLogged
  BY DEF Init, OneLive, EndLogged
<1>3. ASSUME NEW t \in Stream PROVE TailOK(t)
  <2>1. pc[t] = "idle" /\ run[t] = None
    BY DEF Init
  <2> QED
    BY <2>1 DEF TailOK, InHand, Registered, DrainsToTheEnd, Skips, AtTheEnd,
         Yielding
<1> QED
  BY <1>1, <1>2, <1>3 DEF Inv

-----------------------------------------------------------------------------
(* Steps of the log *)

LEMMA LogSteps ==
  ASSUME Inv, UNCHANGED <<pc, run, from, at, upto, got>>,
         (\E r \in Run : StartRun(r)) \/ Emit \/ End \/ Forget \/ RemoveRun
  PROVE  Inv'
<1> USE DEF Inv
<1>1. CASE \E r \in Run : StartRun(r)
  <2>1. TypeOK'
    BY <1>1 DEF StartRun, TypeOK
  <2>2. \A r \in Run : /\ state[r] = "ended" => state'[r] = "ended"
                       /\ state[r] # "new" => state'[r] # "new"
    BY <1>1 DEF StartRun, TypeOK
  <2>5. OneLive' /\ EndLogged'
    <3> PICK r \in Run : StartRun(r)
      BY <1>1
    <3>1. \A s \in Run : s # r => state[s] # "live" \/ s \in removed
      BY RunAssumption DEF StartRun, OneLive
    <3>2. current' = r /\ state' = [state EXCEPT ![r] = "live"]
          /\ removed' = removed
      BY DEF StartRun
    <3>3. OneLive'
      BY <3>1, <3>2 DEF OneLive, TypeOK
    <3>4. EndLogged'
      BY <3>2 DEF StartRun, EndLogged, TypeOK
    <3> QED
      BY <3>3, <3>4
  <2>3. UNCHANGED <<cursor, endAt, removed, waiters, woken>>
    BY <1>1 DEF StartRun
  <2>4. ASSUME NEW t \in Stream PROVE TailOK(t)'
    BY <2>2, <2>3, <2>4 DEF TailOK, InHand, Registered, DrainsToTheEnd, Skips,
         AtTheEnd, Pending, TypeOK, Yielding
  <2> QED
    BY <2>1, <2>4, <2>5
<1>2. CASE Emit \/ End
  <2>1. /\ current \in Run /\ UNCHANGED <<current, removed>>
        /\ cursor' = [cursor EXCEPT ![current] = @ + 1]
        /\ woken' = woken \cup waiters[current]
        /\ waiters' = [waiters EXCEPT ![current] = {}]
    BY <1>2 DEF Emit, End, AppendEvent, TypeOK
  <2>2. \A r \in Run : state[r] = "ended" =>
          state'[r] = "ended" /\ endAt'[r] = endAt[r]
    BY <1>2 DEF Emit, End, TypeOK
  <2>6. \A r \in Run : state[r] # "new" => state'[r] # "new"
    BY <1>2 DEF Emit, End, TypeOK
  <2>3. TypeOK' /\ OneLive'
    <3>1. CASE Emit
      BY <2>1, <3>1 DEF Emit, TypeOK, OneLive
    <3>2. CASE End
      BY <2>1, <3>2 DEF End, TypeOK, OneLive
    <3> QED
      BY <1>2, <3>1, <3>2
  <2>4. EndLogged'
    <3>1. CASE Emit
      BY <2>1, <3>1 DEF Emit, TypeOK, EndLogged
    <3>2. CASE End
      BY <2>1, <3>2 DEF End, TypeOK, EndLogged
    <3> QED
      BY <1>2, <3>1, <3>2
  <2>5. ASSUME NEW t \in Stream PROVE TailOK(t)'
    <3>1. InHand(t)' /\ DrainsToTheEnd(t)' /\ AtTheEnd(t)'
      BY <2>1, <2>2, <2>6
      DEF TailOK, InHand, DrainsToTheEnd, AtTheEnd, TypeOK, Yielding
    <3>2. Registered(t)'
      BY <2>1 DEF TailOK, InHand, Registered, Pending, TypeOK, Yielding
    <3>3. Skips(t)'
      <4>1. \A r \in Run : cursor[r] \in Nat /\ cursor'[r] \in Nat
                           /\ cursor[r] <= cursor'[r]
        BY <2>1 DEF TypeOK
      <4>2. Cap \in Nat /\ from[t] \in Nat /\ at[t] \in Nat
            /\ run[t] \in Run \cup {None}
        BY CapAssumption DEF TypeOK
      <4> QED
        BY <4>1, <4>2 DEF TailOK, Skips
    <3> QED
      BY <3>1, <3>2, <3>3 DEF TailOK
  <2> QED
    BY <2>3, <2>4, <2>5
<1>3. CASE Forget \/ RemoveRun
  <2>1. /\ current \in Run /\ current' = None
        /\ UNCHANGED <<state, cursor, endAt, waiters, woken>>
        /\ removed \subseteq removed' /\ removed' \subseteq Run
        /\ state[current] = "live" => current \in removed'
    BY <1>3 DEF Forget, RemoveRun, TypeOK
  <2>2. TypeOK' /\ OneLive' /\ EndLogged'
    BY <2>1 DEF TypeOK, OneLive, EndLogged
  <2>3. ASSUME NEW t \in Stream PROVE TailOK(t)'
    BY <2>1 DEF TailOK, InHand, Registered, DrainsToTheEnd, Skips, AtTheEnd,
         Pending
  <2> QED
    BY <2>2, <2>3
<1> QED
  BY <1>1, <1>2, <1>3

-----------------------------------------------------------------------------
(* Steps of a tail *)

(* A step of one tail leaves the others and the log alone.                 *)
Alone(t) ==
  /\ UNCHANGED logVars
  /\ woken \ {t} \subseteq woken'
  /\ \A s \in Stream \ {t} :
       /\ \A r \in Run : s \in waiters[r] => s \in waiters'[r]
       /\ pc'[s] = pc[s] /\ run'[s] = run[s] /\ from'[s] = from[s]
       /\ at'[s] = at[s] /\ upto'[s] = upto[s] /\ got'[s] = got[s]

LEMMA OthersKeep ==
  ASSUME Inv, NEW t \in Stream, Alone(t), TypeOK', TailOK(t)'
  PROVE  Inv'
<1> USE DEF Inv
<1>1. OneLive' /\ EndLogged'
  BY DEF Alone, OneLive, EndLogged, logVars
<1>2. ASSUME NEW s \in Stream \ {t} PROVE TailOK(s)'
  BY <1>2 DEF Alone, TailOK, InHand, Registered, DrainsToTheEnd, Skips,
       AtTheEnd, Pending, TypeOK, Yielding, logVars
<1> QED
  BY <1>1, <1>2

(* The first event of a list is new, in the log, and what it leaves out    *)
(* fell out of the log.                                                    *)
LEMMA FirstAfterSkips ==
  ASSUME TypeOK, NEW r \in Run, NEW c \in Nat, Pending(r, c)
  PROVE  /\ FirstAfter(r, c) \in Nat \ {0}
         /\ c < FirstAfter(r, c) /\ FirstAfter(r, c) <= cursor[r]
         /\ \A n \in Nat : c < n /\ n < FirstAfter(r, c) => n <= cursor[r] - Cap
<1> cursor[r] \in Nat /\ Cap \in Nat \ {0}
  BY CapAssumption DEF TypeOK
<1> QED
  BY DEF FirstAfter, Pending

(* Yielding the events after the cursor skips only what fell out.          *)
LEMMA YieldAllKeeps ==
  ASSUME Inv, NEW t \in Stream, NEW r \in Run, NEW where \in {"sending", "draining"},
         Pending(r, at[t]), YieldAll(t, r, where), UNCHANGED logVars,
         from' = [from EXCEPT ![t] = IF run[t] = r THEN from[t] ELSE at[t]],
         run' = [run EXCEPT ![t] = r],
         waiters' \in [Run -> SUBSET Stream], woken' \subseteq Stream,
         state[r] # "new",
         where = "draining" => state[r] = "ended"
  PROVE  TypeOK' /\ TailOK(t)'
<1> USE DEF Inv
<1> DEFINE c == IF run[t] = r THEN from[t] ELSE at[t]
<1> DEFINE n == FirstAfter(r, at[t])
<1>1. /\ n \in Nat \ {0} /\ at[t] < n /\ n <= cursor[r]
      /\ \A m \in Nat : at[t] < m /\ m < n => m <= cursor[r] - Cap
  BY FirstAfterSkips DEF TypeOK
<1>2. /\ at' = [at EXCEPT ![t] = n]
      /\ got' = [got EXCEPT ![t] = @ \cup {<<r, n>>}]
      /\ upto' = [upto EXCEPT ![t] = cursor[r]]
      /\ pc' = [pc EXCEPT ![t] = where]
  BY DEF YieldAll, Yield
<1>8. from' = [from EXCEPT ![t] = c] /\ c \in Nat
      /\ \/ run[t] = r /\ c = from[t]
         \/ c = at[t]
  BY DEF TypeOK
<1> HIDE DEF n, c
<1>3. TypeOK'
  <2>1. got' \in [Stream -> SUBSET (Run \X (Nat \ {0}))]
    BY <1>1, <1>2 DEF TypeOK
  <2> QED
    BY <1>1, <1>2, <1>8, <2>1 DEF TypeOK, Yielding, logVars
<1>4. pc'[t] = where /\ run'[t] = r /\ at'[t] = n /\ upto'[t] = cursor[r]
      /\ from'[t] = c /\ got'[t] = got[t] \cup {<<r, n>>}
  BY <1>2, <1>8 DEF TypeOK
<1>5. InHand(t)' /\ Registered(t)' /\ AtTheEnd(t)'
  BY <1>4, RunAssumption DEF InHand, Registered, AtTheEnd, logVars
<1>6. DrainsToTheEnd(t)'
  BY <1>4 DEF DrainsToTheEnd, EndLogged, logVars
<1>7. Skips(t)'
  <2> SUFFICES ASSUME NEW m \in c + 1 .. n
               PROVE  <<r, m>> \in got'[t] \/ m <= cursor[r] - Cap
    BY <1>4 DEF Skips, logVars
  <2>1. m \in Nat /\ c \in Nat /\ from[t] \in Nat /\ at[t] \in Nat /\ c < m
    BY <1>1, <1>8 DEF TypeOK
  <2>2. CASE m <= at[t]
    <3>1. run[t] = r /\ m \in from[t] + 1 .. at[t]
      BY <1>8, <2>1, <2>2
    <3> QED
      BY <3>1, <1>4, RunAssumption DEF TailOK, Skips
  <2>3. CASE at[t] < m /\ m < n
    BY <1>1, <2>1, <2>3
  <2>4. CASE m = n
    BY <1>4, <2>4
  <2> QED
    BY <1>1, <2>1, <2>2, <2>3, <2>4
<1> QED
  BY <1>3, <1>5, <1>6, <1>7 DEF TailOK

(* A turn of the loop, for a tail that stands at the start of it.          *)
LEMMA TurnKeeps ==
  ASSUME Inv, NEW t \in Stream, Turn(t), UNCHANGED <<logVars, woken>>,
         run[t] = None \/ run[t] = current \/ run[t] \in removed
  PROVE  Inv'
<1> USE DEF Inv
<1>1. Alone(t)
  BY DEF Turn, Alone, YieldAll, Yield, TypeOK
<1>2. CASE current = None
  <2>1. pc' = [pc EXCEPT ![t] = "done"]
        /\ UNCHANGED <<run, from, waiters, at, upto, got>>
    BY <1>2 DEF Turn
  <2>2. TypeOK'
    BY <2>1 DEF TypeOK, Closed, logVars
  <2>3. TailOK(t)'
    BY <1>2, <2>1 DEF TailOK, InHand, Registered, DrainsToTheEnd, Skips,
         AtTheEnd, TypeOK, Yielding, logVars
  <2> QED
    BY <1>1, <2>2, <2>3, OthersKeep
<1>3. CASE current # None /\ Pending(current, at[t])
  <2>1. current \in Run /\ YieldAll(t, current, "sending") /\ UNCHANGED waiters
        /\ run' = [run EXCEPT ![t] = current]
        /\ from' = [from EXCEPT ![t] = IF run[t] = current THEN from[t] ELSE at[t]]
    BY <1>3 DEF Turn, TypeOK
  <2>2. TypeOK' /\ TailOK(t)'
    BY <1>3, <2>1, YieldAllKeeps DEF TypeOK, OneLive
  <2> QED
    BY <1>1, <2>2, OthersKeep
<1>4. CASE current # None /\ ~Pending(current, at[t])
  <2>1. /\ current \in Run
        /\ waiters' = [waiters EXCEPT ![current] = @ \cup {t}]
        /\ pc' = [pc EXCEPT ![t] = "waiting"]
        /\ run' = [run EXCEPT ![t] = current]
        /\ from' = [from EXCEPT ![t] = IF run[t] = current THEN from[t] ELSE at[t]]
        /\ UNCHANGED <<at, upto, got>>
    BY <1>4 DEF Turn, TypeOK
  <2>2. TypeOK'
    BY <2>1 DEF TypeOK, logVars
  <2>3. pc'[t] = "waiting" /\ run'[t] = current /\ t \in waiters'[current]
        /\ from'[t] = (IF run[t] = current THEN from[t] ELSE at[t])
    BY <2>1 DEF TypeOK
  <2>4. InHand(t)' /\ DrainsToTheEnd(t)' /\ AtTheEnd(t)'
    BY <1>4, <2>3 DEF InHand, DrainsToTheEnd, AtTheEnd, OneLive, logVars
  <2>5. Registered(t)'
    BY <1>4, <2>1, <2>3 DEF Registered, Pending, logVars
  <2>6. Skips(t)'
    <3>1. at'[t] = at[t] /\ at[t] \in Nat /\ got'[t] = got[t]
      BY <2>1 DEF TypeOK
    <3>2. CASE run[t] = current
      BY <1>4, <2>3, <3>1, <3>2 DEF TailOK, Skips, logVars
    <3>3. CASE run[t] # current
      BY <2>3, <3>1, <3>3 DEF Skips, logVars
    <3> QED
      BY <3>2, <3>3
  <2> QED
    BY <1>1, <2>2, <2>4, <2>5, <2>6, OthersKeep DEF TailOK
<1> QED
  BY <1>2, <1>3, <1>4

LEMMA TailSteps ==
  ASSUME Inv, NEW t \in Stream, TailStep(t)
  PROVE  Inv'
<1> USE DEF Inv
<1>1. CASE Open(t)
  BY <1>1, TurnKeeps DEF Open, TailOK, InHand
<1>2. CASE Wake(t)
  <2>1. run[t] \in Run /\ pc[t] = "waiting" /\ state[run[t]] # "new"
    BY <1>2 DEF Wake, TailOK, InHand, TypeOK
  <2>2. Alone(t)
    BY <1>2, <2>1 DEF Wake, Alone, YieldAll, Yield, TypeOK
  <2>3. waiters' \in [Run -> SUBSET Stream] /\ woken' \subseteq Stream
    BY <1>2, <2>1 DEF Wake, TypeOK
  <2>4. CASE Pending(run[t], at[t])
    <3>1. run' = [run EXCEPT ![t] = run[t]] /\ from' = [from EXCEPT ![t] = from[t]]
      BY <1>2 DEF Wake, TypeOK
    <3>2. TypeOK' /\ TailOK(t)'
      BY <1>2, <2>1, <2>3, <2>4, <3>1, YieldAllKeeps DEF Wake
    <3> QED
      BY <2>2, <3>2, OthersKeep
  <2>5. CASE ~Pending(run[t], at[t])
    <3>1. pc' = [pc EXCEPT ![t] = "keepalive"]
          /\ UNCHANGED <<logVars, run, from, at, upto, got>>
      BY <1>2, <2>5 DEF Wake
    <3>2. TypeOK'
      BY <2>3, <3>1 DEF TypeOK, Yielding, logVars
    <3>3. pc'[t] = "keepalive"
      BY <3>1 DEF TypeOK
    <3>4. TailOK(t)'
      BY <2>1, <3>1, <3>3, RunAssumption
      DEF TailOK, InHand, Registered, DrainsToTheEnd, Skips, AtTheEnd, logVars
    <3> QED
      BY <2>2, <3>2, <3>4, OthersKeep
  <2> QED
    BY <2>4, <2>5
<1>3. CASE YieldNext(t)
  <2>1. /\ pc[t] \in {"sending", "draining"} /\ at[t] < upto[t]
        /\ at' = [at EXCEPT ![t] = at[t] + 1]
        /\ got' = [got EXCEPT ![t] = @ \cup {<<run[t], at[t] + 1>>}]
        /\ UNCHANGED <<logVars, waiters, woken, pc, run, from, upto>>
    BY <1>3 DEF YieldNext, Yield
  <2>2. run[t] \in Run /\ at[t] \in Nat /\ from[t] \in Nat
    BY <2>1 DEF TailOK, InHand, TypeOK, Yielding
  <2>3. TypeOK'
    <3>1. got' \in [Stream -> SUBSET (Run \X (Nat \ {0}))]
      BY <2>1, <2>2 DEF TypeOK
    <3>2. at' \in [Stream -> Nat]
      BY <2>1, <2>2 DEF TypeOK
    <3> QED
      BY <2>1, <3>1, <3>2 DEF TypeOK, logVars
  <2>4. Alone(t)
    BY <2>1 DEF Alone, TypeOK
  <2>5. at'[t] = at[t] + 1 /\ got'[t] = got[t] \cup {<<run[t], at[t] + 1>>}
    BY <2>1 DEF TypeOK
  <2>6. Skips(t)'
    <3> SUFFICES ASSUME NEW n \in from[t] + 1 .. at[t] + 1
                 PROVE  <<run[t], n>> \in got'[t] \/ n <= cursor[run[t]] - Cap
      BY <2>1, <2>5 DEF Skips, logVars
    <3>1. CASE n = at[t] + 1
      BY <2>5, <3>1
    <3>2. CASE n \in from[t] + 1 .. at[t]
      BY <2>2, <2>5, <3>2, RunAssumption DEF TailOK, Skips
    <3> QED
      BY <2>2, <3>1, <3>2
  <2>7. InHand(t)' /\ Registered(t)' /\ DrainsToTheEnd(t)' /\ AtTheEnd(t)'
    BY <2>1 DEF TailOK, InHand, Registered, DrainsToTheEnd, AtTheEnd, logVars
  <2> QED
    BY <2>3, <2>4, <2>6, <2>7, OthersKeep DEF TailOK
<1>4. CASE LoopEnds(t)
  <2>1. /\ run[t] \in Run /\ pc[t] \in {"sending", "keepalive"}
        /\ state[run[t]] \in {"live", "ended"}
    BY <1>4 DEF LoopEnds, TailOK, InHand, TypeOK, Yielding
  <2>2. CASE state[run[t]] = "live"
    BY <1>4, <2>1, <2>2, TurnKeeps DEF LoopEnds, OneLive
  <2>3. CASE state[run[t]] # "live" /\ Pending(run[t], at[t])
    <3>1. YieldAll(t, run[t], "draining")
          /\ UNCHANGED <<logVars, run, waiters, woken, from>>
      BY <1>4, <2>3 DEF LoopEnds
    <3>2. state[run[t]] = "ended"
      BY <2>1, <2>3
    <3>3. run' = [run EXCEPT ![t] = run[t]] /\ from' = [from EXCEPT ![t] = from[t]]
      BY <3>1 DEF TypeOK
    <3>4. TypeOK' /\ TailOK(t)'
      BY <2>1, <2>3, <3>1, <3>2, <3>3, YieldAllKeeps DEF TypeOK
    <3>5. Alone(t)
      BY <3>1 DEF Alone, YieldAll, Yield, TypeOK
    <3> QED
      BY <3>4, <3>5, OthersKeep
  <2>4. CASE state[run[t]] # "live" /\ ~Pending(run[t], at[t])
    <3>1. pc' = [pc EXCEPT ![t] = "done"]
          /\ UNCHANGED <<logVars, run, waiters, woken, from, at, upto, got>>
      BY <1>4, <2>4 DEF LoopEnds
    <3>2. TypeOK' /\ Alone(t) /\ pc'[t] = "done"
      BY <3>1 DEF TypeOK, Alone, Closed, logVars
    <3>3. AtTheEnd(t)'
      BY <2>1, <2>4, <3>1 DEF AtTheEnd, Pending, EndLogged, TypeOK, logVars
    <3>4. InHand(t)' /\ Registered(t)' /\ DrainsToTheEnd(t)' /\ Skips(t)'
      BY <3>1, <3>2 DEF TailOK, InHand, Registered, DrainsToTheEnd, Skips,
           Yielding, logVars
    <3> QED
      BY <3>2, <3>3, <3>4, OthersKeep DEF TailOK
  <2> QED
    BY <2>2, <2>3, <2>4
<1>5. CASE DrainEnds(t)
  <2>1. /\ pc[t] = "draining" /\ at[t] = upto[t]
        /\ pc' = [pc EXCEPT ![t] = "done"]
        /\ UNCHANGED <<logVars, waiters, woken, run, from, at, upto, got>>
    BY <1>5 DEF DrainEnds
  <2>2. TypeOK' /\ Alone(t) /\ pc'[t] = "done"
    BY <2>1 DEF TypeOK, Alone, Closed, logVars
  <2>3. AtTheEnd(t)'
    BY <2>1 DEF TailOK, AtTheEnd, DrainsToTheEnd, logVars
  <2>4. InHand(t)' /\ Registered(t)' /\ DrainsToTheEnd(t)' /\ Skips(t)'
    BY <2>1, <2>2 DEF TailOK, InHand, Registered, DrainsToTheEnd, Skips,
         Yielding, logVars
  <2> QED
    BY <2>2, <2>3, <2>4, OthersKeep DEF TailOK
<1> QED
  BY <1>1, <1>2, <1>3, <1>4, <1>5 DEF TailStep

(* Connecting and going away.                                              *)
LEMMA ClientSteps ==
  ASSUME Inv, NEW t \in Stream,
         Disconnect(t) \/ \E c \in 0 .. MaxEvents : Connect(t, c)
  PROVE  Inv'
<1> USE DEF Inv
<1>1. CASE Disconnect(t)
  <2>1. TypeOK' /\ Alone(t)
    BY <1>1 DEF Disconnect, TypeOK, Alone, Closed, logVars
  <2>2. pc'[t] = "gone" /\ UNCHANGED <<logVars, run, from, at, upto, got>>
    BY <1>1 DEF Disconnect, TypeOK
  <2>3. TailOK(t)'
    BY <2>2 DEF TailOK, InHand, Registered, DrainsToTheEnd, Skips, AtTheEnd,
         Yielding, logVars
  <2> QED
    BY <2>1, <2>3, OthersKeep
<1>2. ASSUME NEW c \in 0 .. MaxEvents, Connect(t, c) PROVE Inv'
  <2>1. TypeOK' /\ Alone(t)
    BY <1>2 DEF Connect, TypeOK, Alone, logVars
  <2>2. pc'[t] = "opened" /\ run'[t] = None /\ at'[t] = from'[t]
    BY <1>2 DEF Connect, TypeOK
  <2>3. TailOK(t)'
    BY <2>2 DEF TailOK, InHand, Registered, DrainsToTheEnd, Skips, AtTheEnd,
         Yielding
  <2> QED
    BY <2>1, <2>3, OthersKeep
<1> QED
  BY <1>1, <1>2

LEMMA NextInv == Inv /\ [Next]_vars => Inv'
<1> SUFFICES ASSUME Inv, [Next]_vars PROVE Inv'
  OBVIOUS
<1>1. CASE (\E r \in Run : StartRun(r)) \/ Emit \/ End \/ Forget \/ RemoveRun
  BY <1>1, LogSteps DEF StartRun, Emit, End, Forget, RemoveRun
<1>2. CASE UNCHANGED vars
  BY <1>2 DEF vars, logVars, Inv, TypeOK, OneLive, EndLogged, TailOK, InHand,
       Registered, DrainsToTheEnd, Skips, AtTheEnd, Pending
<1> QED
  BY <1>1, <1>2, TailSteps, ClientSteps DEF Next

LEMMA SpecInv == Spec => []Inv
<1> QED
  BY InitInv, NextInv, PTL DEF Spec

(* Every reachable state of the logs and their tails is well typed.        *)
THEOREM StreamTypes == Spec => []TypeOK
<1>1. Inv => TypeOK
  BY DEF Inv
<1> QED
  BY <1>1, SpecInv, PTL

(* No tail sleeps through an event or the end of its run.                  *)
THEOREM NobodySleepsThrough == Spec => []NoLostWakeup
<1>1. Inv => NoLostWakeup
  BY DEF Inv, TailOK, Registered, NoLostWakeup
<1> QED
  BY <1>1, SpecInv, PTL

(* For every cap, a client misses only what fell out of the log before its *)
(* tail came to it.                                                        *)
THEOREM GapsAreTheCaps == Spec => []OnlyTheCapSkips
<1>1. Inv => OnlyTheCapSkips
  BY DEF Inv, TailOK, Skips, OnlyTheCapSkips
<1> QED
  BY <1>1, SpecInv, PTL

(* A stream the server closes has delivered the end of the run it followed *)
(* last, or came with a cursor beyond it, or too late for the capped log,  *)
(* or that run was dropped by a deletion while it was live.                *)
THEOREM DeliveredToTheEnd == Spec => []ClosedAfterTheEnd
<1>1. Inv => ClosedAfterTheEnd
  <2> SUFFICES ASSUME Inv, NEW t \in Stream, pc[t] = "done", run[t] # None,
                      run[t] \notin removed
               PROVE  /\ state[run[t]] = "ended"
                      /\ \/ <<run[t], endAt[run[t]]>> \in got[t]
                         \/ endAt[run[t]] <= from[t]
                         \/ endAt[run[t]] <= cursor[run[t]] - Cap
    BY DEF ClosedAfterTheEnd
  <2>1. state[run[t]] = "ended" /\ endAt[run[t]] <= at[t]
    BY DEF Inv, TailOK, AtTheEnd
  <2>2. \A n \in from[t] + 1 .. at[t] :
          <<run[t], n>> \in got[t] \/ n <= cursor[run[t]] - Cap
    BY DEF Inv, TailOK, Skips
  <2>3. endAt[run[t]] \in Nat /\ from[t] \in Nat /\ at[t] \in Nat
    BY DEF Inv, TypeOK
  <2>4. CASE endAt[run[t]] <= from[t]
    BY <2>1, <2>4
  <2>5. CASE ~(endAt[run[t]] <= from[t])
    <3>1. endAt[run[t]] \in from[t] + 1 .. at[t]
      BY <2>1, <2>3, <2>5
    <3> QED
      BY <2>1, <2>2, <3>1
  <2> QED
    BY <2>4, <2>5
<1> QED
  BY <1>1, SpecInv, PTL

-----------------------------------------------------------------------------
(* The session file: the invariant.                                        *)

Entries(s) == DOMAIN s \ Dividers(s)
Said(s, n) == \E p \in DOMAIN s : s[p].role \in Spoken /\ s[p].time = n

(* A file, or a copy of one, with n messages: each has its own time, and a *)
(* divider stands before a turn of the user that has its time.             *)
File(s, n) ==
  /\ s \in Seq(Entry \cup Marker)
  /\ \A p \in Entries(s) : s[p].time \in 1 .. n
  /\ \A i \in 1 .. n : \E p \in Entries(s) : s[p].time = i
  /\ \A p, q \in Entries(s) : s[p].time = s[q].time => p = q
  /\ \A d \in Dividers(s) :
       \E p \in DOMAIN s : d < p /\ s[p].role = "user" /\ s[p].time = s[d].time

(* The dividers are numbered as they were made.                            *)
NumberedTo(s, k) ==
  /\ \A d \in Dividers(s) : s[d].id \in 1 .. k
  /\ \A i \in 1 .. k : \E d \in Dividers(s) : s[d].id = i
  /\ \A c, d \in Dividers(s) : s[c].id = s[d].id => c = d

Numbered(s) == \E k \in 0 .. MaxMarkers : NumberedTo(s, k)

(* A divider tells of what was said before its time, and of all of it that *)
(* was not dropped.                                                        *)
Told(s, lost) ==
  \A d \in Dividers(s) :
    /\ \A n \in s[d].tells : n < s[d].time
    /\ \A n \in Number : Said(s, n) /\ n < s[d].time => n \in s[d].tells \cup lost

(* What a copy has, the file has, where it was or behind.                  *)
Kept(copy, s) == \A p \in DOMAIN copy : \E q \in DOMAIN s : q >= p /\ s[q] = copy[p]

Copied(r, s) ==
  r.at = "preparing" =>
    /\ File(r.read, r.since)
    /\ r.view = ToLLM(r.read)
    /\ Kept(r.read, s)

(* A view begins at the time u of a divider of the file, or at the         *)
(* beginning, and has all that was said from there to when it was read.    *)
From(view, u, s) ==
  \/ view.marker = 0 /\ view.tells = {} /\ u = 0
  \/ \E d \in Dividers(s) :
       s[d].id = view.marker /\ s[d].tells = view.tells /\ s[d].time = u

Viewed(r, s) ==
  \E u \in 0 .. MaxMessages :
    /\ From(r.view, u, s)
    /\ \A n \in r.view.said : n >= u /\ Said(s, n)
    /\ \A n \in u .. r.since : Said(s, n) => n \in r.view.said

LoopOK(r, s, n) ==
  r = Idle \/ (r.since <= n /\ Copied(r, s) /\ Viewed(r, s))

HistoryInv ==
  /\ HistoryTypeOK
  /\ File(messages, arrived)
  /\ Numbered(messages)
  /\ Told(messages, dropped)
  /\ \A t \in Task : LoopOK(loop[t], messages, arrived)

-----------------------------------------------------------------------------
(* Sets of numbers *)

(* A set of naturals has a least element, one with a bound a greatest.     *)
LEMMA Least ==
  ASSUME NEW S \in SUBSET Nat, S # {}
  PROVE  \E x \in S : \A y \in S : x <= y
<1>1. PICK x \in S : \A y \in S : ~(<<y, x>> \in OpToRel(<, Nat))
  BY NatLessThanWellFounded, WFMin
<1>2. ASSUME NEW y \in S PROVE x <= y
  <2>1. x \in Nat /\ y \in Nat
    OBVIOUS
  <2>2. ~(y < x)
    BY <1>1, <2>1 DEF OpToRel
  <2> QED
    BY <2>1, <2>2
<1> QED
  BY <1>2

LEMMA Greatest ==
  ASSUME NEW S \in SUBSET Nat, S # {}, NEW n \in Nat, \A x \in S : x <= n
  PROVE  \E x \in S : \A y \in S : y <= x
<1> DEFINE T == {m \in Nat : \A y \in S : y <= m}
<1>1. PICK m \in T : \A y \in T : m <= y
  <2>1. T \in SUBSET Nat /\ n \in T
    OBVIOUS
  <2> HIDE DEF T
  <2> QED
    BY <2>1, Least
<1>2. m \in Nat /\ \A y \in S : y <= m
  BY <1>1
<1>3. CASE m \in S
  BY <1>2, <1>3
<1>4. CASE m \notin S
  <2>1. PICK x \in S : TRUE
    OBVIOUS
  <2>2. m # 0 /\ m - 1 \in Nat
    BY <1>2, <1>4, <2>1
  <2>3. \A y \in S : y <= m - 1
    BY <1>2, <1>4, <2>2
  <2>4. m - 1 \in T
    BY <2>2, <2>3
  <2> QED
    BY <1>1, <1>2, <2>4
<1> QED
  BY <1>3, <1>4

(* What is numbered from 1 to n has n elements.                            *)
LEMMA Counted ==
  ASSUME NEW P, NEW n \in Nat, NEW f \in [P -> 1 .. n],
         \A i \in 1 .. n : \E p \in P : f[p] = i,
         \A p, q \in P : f[p] = f[q] => p = q
  PROVE  IsFiniteSet(P) /\ Cardinality(P) = n
<1> DEFINE g == [i \in 1 .. n |-> CHOOSE p \in P : f[p] = i]
<1>1. g \in [1 .. n -> P] /\ \A i \in 1 .. n : f[g[i]] = i
  OBVIOUS
<1> HIDE DEF g
<1>2. \A i, j \in 1 .. n : g[i] = g[j] => i = j
  BY <1>1
<1>3. \A p \in P : f[p] \in 1 .. n /\ g[f[p]] = p
  BY <1>1
<1>4. g \in Bijection(1 .. n, P)
  BY <1>1, <1>2, <1>3 DEF Bijection, Injection, Surjection, IsInjective
<1>5. ExistsBijection(1 .. n, P)
  BY <1>4 DEF ExistsBijection
<1>6. IsFiniteSet(1 .. n) /\ Cardinality(1 .. n) = n
  BY FS_Interval
<1> QED
  BY <1>5, <1>6, FS_Bijection

(* The last k of some numbers begin with one of them.                      *)
UpFrom(U, n) == {u \in U : u >= n}

LEMMA FromNext ==
  ASSUME NEW U, \A u \in U : u \in Nat, NEW n \in Nat
  PROVE  /\ UpFrom(U, 0) = U
         /\ n \in U => UpFrom(U, n) = UpFrom(U, n + 1) \cup {n} /\ n \notin UpFrom(U, n + 1)
         /\ n \notin U => UpFrom(U, n) = UpFrom(U, n + 1)
<1>1. UpFrom(U, 0) = U
  BY DEF UpFrom
<1>2. ASSUME NEW u PROVE u \in UpFrom(U, n) <=> u \in UpFrom(U, n + 1) \/ (u = n /\ n \in U)
  <2>1. CASE u \in U
    <3>1. u \in Nat
      BY <2>1
    <3>2. u >= n <=> u >= n + 1 \/ u = n
      BY <3>1
    <3> QED
      BY <2>1, <3>2 DEF UpFrom
  <2>2. CASE u \notin U
    BY <2>2 DEF UpFrom
  <2> QED
    BY <2>1, <2>2
<1>3. ASSUME n \in U
      PROVE  UpFrom(U, n) = UpFrom(U, n + 1) \cup {n} /\ n \notin UpFrom(U, n + 1)
  <2>1. \A u : u \in UpFrom(U, n) <=> u \in UpFrom(U, n + 1) \cup {n}
    BY <1>2, <1>3
  <2>2. n \notin UpFrom(U, n + 1)
    BY DEF UpFrom
  <2> QED
    BY <2>1, <2>2
<1>4. ASSUME n \notin U PROVE UpFrom(U, n) = UpFrom(U, n + 1)
  <2>1. \A u : u \in UpFrom(U, n) <=> u \in UpFrom(U, n + 1)
    BY <1>2, <1>4
  <2> QED
    BY <2>1
<1> QED
  BY <1>1, <1>3, <1>4

LEMMA KthLastIsOne ==
  ASSUME NEW U \in SUBSET Nat, NEW b \in Nat, \A u \in U : u <= b,
         NEW k \in 1 .. Cardinality(U)
  PROVE  KthLast(U, k) \in U
<1> DEFINE card(n) == Cardinality(UpFrom(U, n))
           T == {n \in Nat : card(n + 1) < k}
<1>0. \A u \in U : u \in Nat /\ u <= b
  OBVIOUS
<1>1. IsFiniteSet(U) /\ k \in Nat /\ k > 0 /\ k <= Cardinality(U)
  BY FS_BoundedSetOfNaturals, FS_CardinalityType
<1>2. ASSUME NEW n \in Nat
      PROVE  /\ card(n) \in Nat
             /\ card(n) = IF n \in U THEN card(n + 1) + 1 ELSE card(n + 1)
  <2>1. IsFiniteSet(UpFrom(U, n)) /\ IsFiniteSet(UpFrom(U, n + 1))
    BY <1>1, FS_Subset DEF UpFrom
  <2>2. card(n) \in Nat /\ card(n + 1) \in Nat
    BY <2>1, FS_CardinalityType
  <2>3. CASE n \in U
    <3>1. UpFrom(U, n) = UpFrom(U, n + 1) \cup {n} /\ n \notin UpFrom(U, n + 1)
      BY <1>0, <2>3, FromNext
    <3> QED
      BY <2>1, <2>2, <2>3, <3>1, FS_AddElement
  <2>4. CASE n \notin U
    <3>1. UpFrom(U, n) = UpFrom(U, n + 1)
      BY <1>0, <2>4, FromNext
    <3> QED
      BY <2>1, <2>2, <2>4, <3>1
  <2> QED
    BY <2>1, <2>2, <2>3, <2>4
<1>3. card(0) >= k
  <2>1. UpFrom(U, 0) = U
    BY <1>0, FromNext
  <2> QED
    BY <1>1, <2>1
<1>4. card(b + 1) = 0
  <2>1. ASSUME NEW u \in UpFrom(U, b + 1) PROVE FALSE
    BY <1>0, <2>1 DEF UpFrom
  <2>2. UpFrom(U, b + 1) = {}
    BY <2>1
  <2> QED
    BY <2>2, FS_EmptySet
<1> HIDE DEF card
<1>5. PICK n \in T : \A m \in T : n <= m
  <2>1. T \in SUBSET Nat /\ b \in T
    BY <1>1, <1>4
  <2> HIDE DEF T
  <2> QED
    BY <2>1, Least
<1>6. n \in Nat /\ card(n + 1) < k /\ card(n + 1) \in Nat
  BY <1>2, <1>5
<1>7. card(n) >= k
  <2>1. CASE n = 0
    BY <1>3, <2>1
  <2>2. CASE n # 0
    <3>1. n - 1 \in Nat /\ (n - 1) + 1 = n /\ ~(n <= n - 1)
      BY <1>6, <2>2
    <3>2. n - 1 \notin T
      BY <1>5, <3>1
    <3>3. ~(card(n) < k)
      BY <3>1, <3>2
    <3> QED
      BY <1>1, <1>2, <1>6, <3>3
  <2> QED
    BY <2>1, <2>2
<1>8. n \in U /\ card(n) = k
  BY <1>1, <1>2, <1>6, <1>7
<1> QED
  BY <1>8 DEF KthLast, card, UpFrom
-----------------------------------------------------------------------------
(* Sequences *)

LEMMA Joining ==
  ASSUME NEW S, NEW a \in Seq(S), NEW b \in Seq(S)
  PROVE  /\ a \o b \in Seq(S) /\ Len(a \o b) = Len(a) + Len(b)
         /\ \A i \in 1 .. Len(a) + Len(b) :
              (a \o b)[i] = IF i <= Len(a) THEN a[i] ELSE b[i - Len(a)]
OBVIOUS

(* A sequence with an element put in at p: what is at place i then.         *)
Placed(s, p, e, i) == IF i < p THEN s[i] ELSE IF i = p THEN e ELSE s[i - 1]

LEMMA Inserting ==
  ASSUME NEW S, NEW s \in Seq(S), NEW p \in 1 .. Len(s) + 1, NEW e \in S
  PROVE  /\ InsertAt(s, p, e) \in Seq(S) /\ Len(InsertAt(s, p, e)) = Len(s) + 1
         /\ \A i \in 1 .. Len(s) + 1 : InsertAt(s, p, e)[i] = Placed(s, p, e, i)
<1> DEFINE a == SubSeq(s, 1, p - 1)
           b == SubSeq(s, p, Len(s))
           ae == a \o <<e>>
<1>0. Len(s) \in Nat /\ p \in Int /\ 1 <= p /\ p <= Len(s) + 1
  OBVIOUS
<1>1. a \in Seq(S) /\ Len(a) = p - 1 /\ \A i \in 1 .. p - 1 : a[i] = s[i]
  BY <1>0
<1>2. b \in Seq(S) /\ Len(b) = Len(s) + 1 - p /\ \A i \in 1 .. Len(s) + 1 - p : b[i] = s[p + i - 1]
  BY <1>0
<1>3. InsertAt(s, p, e) = ae \o b
  BY DEF InsertAt
<1> HIDE DEF a, b
<1>4. /\ ae \in Seq(S) /\ Len(ae) = p
      /\ \A i \in 1 .. p : ae[i] = IF i < p THEN s[i] ELSE e
  BY <1>0, <1>1
<1> HIDE DEF ae
<1>5. /\ ae \o b \in Seq(S) /\ Len(ae \o b) = Len(s) + 1
      /\ \A i \in 1 .. Len(s) + 1 : (ae \o b)[i] = IF i <= p THEN ae[i] ELSE b[i - p]
  <2>1. Len(ae) + Len(b) = Len(s) + 1
    BY <1>0, <1>2, <1>4
  <2> HIDE DEF b
  <2>2. /\ ae \o b \in Seq(S) /\ Len(ae \o b) = Len(ae) + Len(b)
        /\ \A i \in 1 .. Len(ae) + Len(b) :
             (ae \o b)[i] = IF i <= Len(ae) THEN ae[i] ELSE b[i - Len(ae)]
    <3>1. ae \in Seq(S) /\ b \in Seq(S)
      BY <1>2, <1>4
    <3> QED
      BY <3>1, Joining
  <2>3. Len(ae) = p
    BY <1>4
  <2> QED
    BY <2>1, <2>2, <2>3
<1>6. ASSUME NEW i \in 1 .. Len(s) + 1
      PROVE  (ae \o b)[i] = Placed(s, p, e, i)
  <2>1. CASE i <= p
    BY <1>0, <1>4, <1>5, <2>1 DEF Placed
  <2>2. CASE ~(i <= p)
    <3>1. i - p \in 1 .. Len(s) + 1 - p /\ p + (i - p) - 1 = i - 1
      BY <1>0, <2>2
    <3> QED
      BY <1>0, <1>2, <1>5, <2>2, <3>1 DEF Placed
  <2> QED
    BY <2>1, <2>2
<1> QED
  BY <1>3, <1>5, <1>6

(* The element at one place of what InsertAt makes, place by place.         *)
LEMMA InsertedAt ==
  ASSUME NEW S, NEW s \in Seq(S), NEW e \in S, NEW p \in 1 .. Len(s) + 1,
         NEW i \in 1 .. Len(s) + 1, NEW new, new = InsertAt(s, p, e)
  PROVE  /\ i < p => new[i] = s[i]
         /\ i = p => new[i] = e
         /\ i > p => new[i] = s[i - 1]
<1>1. InsertAt(s, p, e)[i] = Placed(s, p, e, i)
  BY Inserting, Zenon
<1>2. new[i] = IF i < p THEN s[i] ELSE IF i = p THEN e ELSE s[i - 1]
  BY <1>1 DEF Placed
<1>3. i \in Int /\ p \in Int
  OBVIOUS
<1> QED
  BY <1>2, <1>3

(* Where place i of a sequence is when an element was put in at p.          *)
Moved(i, p) == IF i < p THEN i ELSE i + 1

With(s, new, p, e) ==
  /\ p \in 1 .. Len(s) + 1
  /\ new \in Seq(Entry \cup Marker) /\ DOMAIN new = 1 .. Len(s) + 1
  /\ new[p] = e
  /\ \A i \in DOMAIN s : new[Moved(i, p)] = s[i]

LEMMA InsertIsWith ==
  ASSUME NEW s \in Seq(Entry \cup Marker), NEW e \in Entry \cup Marker, NEW p \in 1 .. Len(s) + 1
  PROVE  With(s, InsertAt(s, p, e), p, e)
<1> DEFINE E == Entry \cup Marker
<1> HIDE DEF E
<1>0. s \in Seq(E) /\ e \in E
  BY DEF E
<1> PICK new : new = InsertAt(s, p, e)
  OBVIOUS
<1>1. Len(s) \in Nat /\ p \in Int /\ DOMAIN s = 1 .. Len(s) /\ p >= 1
  BY <1>0
<1>2. new \in Seq(E) /\ Len(new) = Len(s) + 1
  BY <1>0, Inserting
<1>3. new[p] = e
  BY <1>0, <1>1, InsertedAt
<1>4. ASSUME NEW i \in DOMAIN s PROVE new[Moved(i, p)] = s[i]
  <2>1. i \in Int /\ i \in 1 .. Len(s) + 1 /\ i + 1 \in 1 .. Len(s) + 1
    BY <1>1
  <2>2. CASE i < p
    BY <1>0, <2>1, <2>2, InsertedAt DEF Moved
  <2>3. CASE ~(i < p)
    <3>1. i + 1 > p /\ (i + 1) - 1 = i
      BY <1>1, <2>1, <2>3
    <3>2. new[i + 1] = s[(i + 1) - 1]
      BY <1>0, <2>1, <3>1, InsertedAt
    <3> QED
      BY <2>3, <3>1, <3>2 DEF Moved
  <2> QED
    BY <2>2, <2>3
<1>5. DOMAIN new = 1 .. Len(s) + 1
  BY <1>2
<1> QED
  BY <1>2, <1>3, <1>4, <1>5 DEF With, E

LEMMA AppendIsWith ==
  ASSUME NEW s \in Seq(Entry \cup Marker), NEW e \in Entry \cup Marker
  PROVE  With(s, Append(s, e), Len(s) + 1, e)
<1> DEFINE E == Entry \cup Marker
<1> HIDE DEF E
<1>0. s \in Seq(E) /\ e \in E /\ Len(s) \in Nat /\ DOMAIN s = 1 .. Len(s)
  BY DEF E
<1>1. /\ Append(s, e) \in Seq(E) /\ Len(Append(s, e)) = Len(s) + 1
      /\ Append(s, e)[Len(s) + 1] = e
      /\ \A i \in 1 .. Len(s) : Append(s, e)[i] = s[i]
  BY <1>0
<1>2. DOMAIN Append(s, e) = 1 .. Len(s) + 1
  BY <1>1
<1>3. \A i \in DOMAIN s : Moved(i, Len(s) + 1) = i
  BY <1>0 DEF Moved
<1> QED
  BY <1>0, <1>1, <1>2, <1>3 DEF With, E

LEMMA WithPlaces ==
  ASSUME NEW s \in Seq(Entry \cup Marker), NEW new, NEW p, NEW e, With(s, new, p, e)
  PROVE  /\ \A i \in DOMAIN s : Moved(i, p) \in DOMAIN new /\ Moved(i, p) # p /\ Moved(i, p) >= i
         /\ \A i \in DOMAIN s : i >= p => Moved(i, p) > p
         /\ \A i, j \in DOMAIN s : i < j => Moved(i, p) < Moved(j, p)
         /\ \A j \in DOMAIN new : j = p \/ \E i \in DOMAIN s : j = Moved(i, p)
         /\ p \in DOMAIN new
<1> DEFINE E == Entry \cup Marker
<1> HIDE DEF E
<1>1. /\ Len(s) \in Nat /\ DOMAIN s = 1 .. Len(s) /\ p \in 1 .. Len(s) + 1
      /\ DOMAIN new = 1 .. Len(s) + 1
  <2>1. s \in Seq(E)
    BY DEF E
  <2> QED
    BY <2>1 DEF With
<1>2. ASSUME NEW i \in DOMAIN s
      PROVE  /\ Moved(i, p) \in DOMAIN new /\ Moved(i, p) # p /\ Moved(i, p) >= i
             /\ i >= p => Moved(i, p) > p
  BY <1>1 DEF Moved
<1>3. ASSUME NEW i \in DOMAIN s, NEW j \in DOMAIN s, i < j
      PROVE  Moved(i, p) < Moved(j, p)
  BY <1>1, <1>3 DEF Moved
<1>4. ASSUME NEW j \in DOMAIN new, j # p
      PROVE  \E i \in DOMAIN s : j = Moved(i, p)
  <2>1. CASE j < p
    <3>1. j \in DOMAIN s /\ Moved(j, p) = j
      BY <1>1, <2>1 DEF Moved
    <3> QED
      BY <3>1
  <2>2. CASE ~(j < p)
    <3>1. j - 1 \in DOMAIN s /\ Moved(j - 1, p) = j
      BY <1>1, <1>4, <2>2 DEF Moved
    <3> QED
      BY <3>1
  <2> QED
    BY <2>1, <2>2
<1> QED
  BY <1>1, <1>2, <1>3, <1>4

-----------------------------------------------------------------------------
(* Files *)

LEMMA ElementTypes ==
  ASSUME NEW s \in Seq(Entry \cup Marker)
  PROVE  /\ Len(s) \in Nat /\ DOMAIN s = 1 .. Len(s)
         /\ \A p \in DOMAIN s : s[p].time \in Number /\ s[p].time \in Nat \ {0}
         /\ \A p \in Entries(s) : s[p].role \in Spoken \cup {"run_notice"} /\ s[p] \in Entry
         /\ \A p \in Dividers(s) :
              /\ s[p].role = "compaction" /\ s[p] \in Marker
              /\ s[p].id \in 1 .. MaxMarkers /\ s[p].tells \in SUBSET Number
         /\ \A p \in DOMAIN s : s[p].role # "compaction" => p \in Entries(s)
<1> DEFINE E == Entry \cup Marker
<1> HIDE DEF E
<1>1. Len(s) \in Nat /\ DOMAIN s = 1 .. Len(s) /\ \A p \in DOMAIN s : s[p] \in E
  <2>1. s \in Seq(E)
    BY DEF E
  <2> QED
    BY <2>1
<1>2. ASSUME NEW x \in Entry
      PROVE  x.role \in Spoken \cup {"run_notice"} /\ x.role # "compaction" /\ x.time \in Number
  BY DEF Entry, Spoken
<1>3. ASSUME NEW x \in Marker
      PROVE  /\ x.role = "compaction" /\ x.time \in Number /\ x.id \in 1 .. MaxMarkers
             /\ x.tells \in SUBSET Number
  BY DEF Marker
<1>4. \A n \in Number : n \in Nat \ {0}
  BY SizeAssumption DEF Number
<1>5. ASSUME NEW p \in DOMAIN s
      PROVE  s[p] \in Entry \/ s[p] \in Marker
  BY <1>1 DEF E
<1> QED
  BY <1>1, <1>2, <1>3, <1>4, <1>5 DEF Entries, Dividers

(* A divider's time is that of a message.                                  *)
LEMMA DividerTime ==
  ASSUME NEW s, NEW n, File(s, n), NEW d \in Dividers(s)
  PROVE  s[d].time \in 1 .. n
<1>1. PICK q \in DOMAIN s : s[q].role = "user" /\ s[q].time = s[d].time
  BY DEF File
<1>2. s \in Seq(Entry \cup Marker)
  BY DEF File
<1>3. q \in Entries(s)
  BY <1>1, <1>2, ElementTypes
<1> QED
  BY <1>1, <1>3 DEF File

(* Where an element was put in: the elements that were there are there, in *)
(* their order, and there is one more.                                     *)
LEMMA WithElements ==
  ASSUME NEW s \in Seq(Entry \cup Marker), NEW new, NEW p, NEW e \in Entry \cup Marker,
         With(s, new, p, e)
  PROVE  /\ \A i \in DOMAIN s : \E j \in DOMAIN new : j >= i /\ new[j] = s[i]
         /\ e \in Entry =>
              /\ \A i : i \in Dividers(s) => Moved(i, p) \in Dividers(new)
              /\ \A j \in Dividers(new) : \E i \in Dividers(s) : j = Moved(i, p)
              /\ \A j \in Entries(new) : j = p \/ \E i \in Entries(s) : j = Moved(i, p)
              /\ p \in Entries(new)
         /\ e \in Marker =>
              /\ \A j \in Entries(new) : \E i \in Entries(s) : j = Moved(i, p)
              /\ \A j \in Dividers(new) : j = p \/ \E i \in Dividers(s) : j = Moved(i, p)
              /\ p \in Dividers(new)
         /\ \A i \in Entries(s) : Moved(i, p) \in Entries(new)
         /\ \A i \in Dividers(s) : Moved(i, p) \in Dividers(new)
<1>1. /\ \A i \in DOMAIN s : Moved(i, p) \in DOMAIN new /\ Moved(i, p) >= i
      /\ \A j \in DOMAIN new : j = p \/ \E i \in DOMAIN s : j = Moved(i, p)
      /\ p \in DOMAIN new
  BY WithPlaces
<1>2. new[p] = e /\ \A i \in DOMAIN s : new[Moved(i, p)] = s[i]
  BY DEF With
<1>3. (e \in Entry => e.role # "compaction") /\ (e \in Marker => e.role = "compaction")
  BY DEF Entry, Marker, Spoken
<1>4. \A i \in DOMAIN s : \E j \in DOMAIN new : j >= i /\ new[j] = s[i]
  BY <1>1, <1>2
<1>5. \A i \in DOMAIN s : Moved(i, p) \in Dividers(new) <=> i \in Dividers(s)
  BY <1>1, <1>2 DEF Dividers
<1>6. p \in Dividers(new) <=> e.role = "compaction"
  BY <1>1, <1>2 DEF Dividers
<1> QED
  BY <1>1, <1>3, <1>4, <1>5, <1>6 DEF Entries, Dividers

(* A message more.                                                         *)
LEMMA MessageAdded ==
  ASSUME NEW s, NEW new, NEW n \in Nat, NEW p, NEW e \in Entry,
         File(s, n), With(s, new, p, e), e.time = n + 1
  PROVE  File(new, n + 1)
<1>1. s \in Seq(Entry \cup Marker) /\ new \in Seq(Entry \cup Marker)
  BY DEF File, With
<1>2. /\ \A j \in Dividers(new) : \E i \in Dividers(s) : j = Moved(i, p)
      /\ \A j \in Entries(new) : j = p \/ \E i \in Entries(s) : j = Moved(i, p)
      /\ p \in Entries(new)
      /\ \A i \in Entries(s) : Moved(i, p) \in Entries(new)
  BY <1>1, WithElements
<1>3. /\ new[p].time = n + 1 /\ \A i \in DOMAIN s : new[Moved(i, p)] = s[i]
      /\ \A i \in DOMAIN s : Moved(i, p) \in DOMAIN new
      /\ \A i, j \in DOMAIN s : i < j => Moved(i, p) < Moved(j, p)
  BY <1>1, WithPlaces DEF With
<1>4. Entries(s) \subseteq DOMAIN s /\ Dividers(s) \subseteq DOMAIN s
  BY DEF Entries, Dividers
<1>5. \A j \in Entries(new) : new[j].time \in 1 .. n + 1
  BY <1>2, <1>3, <1>4 DEF File
<1>6. ASSUME NEW i \in 1 .. n + 1 PROVE \E j \in Entries(new) : new[j].time = i
  <2>1. CASE i = n + 1
    BY <1>2, <1>3, <2>1
  <2>2. CASE i # n + 1
    <3>1. i \in 1 .. n
      BY <2>2
    <3>2. PICK q \in Entries(s) : s[q].time = i
      BY <3>1 DEF File
    <3> QED
      BY <1>2, <1>3, <1>4, <3>2
  <2> QED
    BY <2>1, <2>2
<1>7. ASSUME NEW i \in Entries(new), NEW j \in Entries(new), new[i].time = new[j].time
      PROVE  i = j
  <2>1. \A q \in Entries(s) : s[q].time # n + 1
    BY DEF File
  <2>2. CASE i = p \/ j = p
    BY <1>2, <1>3, <1>4, <1>7, <2>1, <2>2
  <2>3. CASE i # p /\ j # p
    <3>1. PICK a \in Entries(s) : i = Moved(a, p)
      BY <1>2, <2>3
    <3>2. PICK b \in Entries(s) : j = Moved(b, p)
      BY <1>2, <2>3
    <3>3. a = b
      BY <1>3, <1>4, <1>7, <3>1, <3>2 DEF File
    <3> QED
      BY <3>1, <3>2, <3>3
  <2> QED
    BY <2>2, <2>3
<1>8. ASSUME NEW d \in Dividers(new)
      PROVE  \E q \in DOMAIN new : d < q /\ new[q].role = "user" /\ new[q].time = new[d].time
  <2>1. PICK c \in Dividers(s) : d = Moved(c, p)
    BY <1>2
  <2>2. PICK q \in DOMAIN s : c < q /\ s[q].role = "user" /\ s[q].time = s[c].time
    BY DEF File
  <2>3. d < Moved(q, p) /\ Moved(q, p) \in DOMAIN new /\ new[Moved(q, p)] = s[q] /\ new[d] = s[c]
    BY <1>3, <1>4, <2>1, <2>2
  <2> QED
    BY <2>2, <2>3
<1> QED
  BY <1>1, <1>5, <1>6, <1>7, <1>8 DEF File

(* A divider more, at or before the place of a turn of its time.           *)
LEMMA DividerAdded ==
  ASSUME NEW s, NEW new, NEW n \in Nat, NEW p, NEW e \in Marker,
         File(s, n), With(s, new, p, e),
         \E q \in DOMAIN s : q >= p /\ s[q].role = "user" /\ s[q].time = e.time
  PROVE  File(new, n)
<1>1. s \in Seq(Entry \cup Marker) /\ new \in Seq(Entry \cup Marker)
  BY DEF File, With
<1>2. /\ \A j \in Dividers(new) : j = p \/ \E i \in Dividers(s) : j = Moved(i, p)
      /\ \A j \in Entries(new) : \E i \in Entries(s) : j = Moved(i, p)
      /\ \A i \in Entries(s) : Moved(i, p) \in Entries(new)
  BY <1>1, WithElements
<1>3. /\ new[p] = e /\ \A i \in DOMAIN s : new[Moved(i, p)] = s[i]
      /\ \A i \in DOMAIN s : Moved(i, p) \in DOMAIN new
      /\ \A i \in DOMAIN s : i >= p => Moved(i, p) > p
      /\ \A i, j \in DOMAIN s : i < j => Moved(i, p) < Moved(j, p)
  BY <1>1, WithPlaces DEF With
<1>4. Entries(s) \subseteq DOMAIN s /\ Dividers(s) \subseteq DOMAIN s
  BY DEF Entries, Dividers
<1>5. \A j \in Entries(new) : new[j].time \in 1 .. n
  BY <1>2, <1>3, <1>4 DEF File
<1>6. ASSUME NEW i \in 1 .. n PROVE \E j \in Entries(new) : new[j].time = i
  <2>1. PICK q \in Entries(s) : s[q].time = i
    BY DEF File
  <2> QED
    BY <1>2, <1>3, <1>4, <2>1
<1>7. ASSUME NEW i \in Entries(new), NEW j \in Entries(new), new[i].time = new[j].time
      PROVE  i = j
  <2>1. PICK a \in Entries(s) : i = Moved(a, p)
    BY <1>2
  <2>2. PICK b \in Entries(s) : j = Moved(b, p)
    BY <1>2
  <2>3. a = b
    BY <1>3, <1>4, <1>7, <2>1, <2>2 DEF File
  <2> QED
    BY <2>1, <2>2, <2>3
<1>8. ASSUME NEW d \in Dividers(new)
      PROVE  \E q \in DOMAIN new : d < q /\ new[q].role = "user" /\ new[q].time = new[d].time
  <2>1. CASE d = p
    <3>1. PICK q \in DOMAIN s : q >= p /\ s[q].role = "user" /\ s[q].time = e.time
      OBVIOUS
    <3>2. p < Moved(q, p) /\ Moved(q, p) \in DOMAIN new /\ new[Moved(q, p)] = s[q]
      BY <1>3, <1>1, <3>1, WithPlaces, ElementTypes
    <3> QED
      BY <1>3, <2>1, <3>1, <3>2
  <2>2. CASE d # p
    <3>1. PICK c \in Dividers(s) : d = Moved(c, p)
      BY <1>2, <2>2
    <3>2. PICK q \in DOMAIN s : c < q /\ s[q].role = "user" /\ s[q].time = s[c].time
      BY DEF File
    <3>3. d < Moved(q, p) /\ Moved(q, p) \in DOMAIN new /\ new[Moved(q, p)] = s[q] /\ new[d] = s[c]
      BY <1>3, <1>4, <3>1, <3>2
    <3> QED
      BY <3>2, <3>3
  <2> QED
    BY <2>1, <2>2
<1> QED
  BY <1>1, <1>5, <1>6, <1>7, <1>8 DEF File

-----------------------------------------------------------------------------
(* What the model gets of a file *)

LEMMA LastDividerIs ==
  ASSUME NEW s \in Seq(Entry \cup Marker), Dividers(s) # {}
  PROVE  /\ LastDivider(s) \in Dividers(s)
         /\ \A d \in Dividers(s) : d = LastDivider(s) \/ Before(s, d, LastDivider(s))
<1> DEFINE times == {s[d].time : d \in Dividers(s)}
<1>1. /\ \A d \in Dividers(s) : s[d].time \in Nat /\ s[d].time <= MaxMessages /\ d \in Nat
      /\ MaxMessages \in Nat /\ Len(s) \in Nat /\ \A d \in Dividers(s) : d <= Len(s)
  BY ElementTypes, SizeAssumption DEF Dividers, Number
<1>2. PICK n \in times : \A m \in times : m <= n
  <2>1. times \in SUBSET Nat /\ times # {} /\ \A m \in times : m <= MaxMessages
    BY <1>1
  <2> HIDE DEF times
  <2> QED
    BY <1>1, <2>1, Greatest
<1> DEFINE latest == {d \in Dividers(s) : s[d].time = n}
<1>3. PICK m \in latest : \A d \in latest : d <= m
  <2>1. latest \in SUBSET Nat /\ latest # {} /\ \A d \in latest : d <= Len(s)
    BY <1>1, <1>2
  <2> HIDE DEF latest
  <2> QED
    BY <1>1, <2>1, Greatest
<1>4. m \in Dividers(s) /\ s[m].time = n /\ n \in Nat /\ m \in Nat
  BY <1>1, <1>3
<1>5. ASSUME NEW d \in Dividers(s) PROVE d = m \/ Before(s, d, m)
  <2>1. s[d].time <= n /\ s[d].time \in Nat /\ d \in Nat
    BY <1>1, <1>2
  <2>2. CASE s[d].time = n
    <3>1. d <= m
      BY <1>3, <2>2
    <3> QED
      BY <1>4, <2>1, <2>2, <3>1 DEF Before
  <2>3. CASE s[d].time # n
    BY <1>4, <2>1, <2>3 DEF Before
  <2> QED
    BY <2>2, <2>3
<1> QED
  BY <1>4, <1>5 DEF LastDivider

(* What comes after the latest divider is what has its time or a later     *)
(* one, and begins with a turn: no call is without its own.                *)
LEMMA AfterLastIs ==
  ASSUME NEW s, NEW n \in Nat, File(s, n), Dividers(s) # {}
  PROVE  /\ AfterLast(s) = {p \in Entries(s) : s[p].time >= s[LastDivider(s)].time}
         /\ \E q \in AfterLast(s) : s[q].role = "user" /\ s[q].time = s[LastDivider(s)].time
         /\ Orphans(s) = {}
<1>1. s \in Seq(Entry \cup Marker)
  BY DEF File
<1> PICK m : m = LastDivider(s)
  OBVIOUS
<1>2. m \in Dividers(s) /\ \A d \in Dividers(s) : d = m \/ Before(s, d, m)
  BY <1>1, LastDividerIs
<1>3. /\ \A p \in DOMAIN s : s[p].time \in Nat /\ p \in Nat
      /\ Entries(s) \subseteq DOMAIN s /\ Dividers(s) \subseteq DOMAIN s
  BY <1>1, ElementTypes DEF Entries, Dividers
<1>4. PICK q \in DOMAIN s : m < q /\ s[q].role = "user" /\ s[q].time = s[m].time
  BY <1>2 DEF File
<1>5. q \in Entries(s)
  BY <1>1, <1>4, ElementTypes
<1>6. ASSUME NEW p \in Entries(s), s[p].time >= s[m].time
      PROVE  p \in AfterLast(s)
  <2>1. Before(s, m, p)
    <3>1. CASE s[p].time = s[m].time
      <4>1. p = q
        BY <1>4, <1>5, <3>1 DEF File
      <4> QED
        BY <1>4, <4>1 DEF Before
    <3>2. CASE s[p].time # s[m].time
      BY <1>2, <1>3, <1>6, <3>2 DEF Before
    <3> QED
      BY <3>1, <3>2
  <2>2. ASSUME NEW d \in Dividers(s) PROVE Before(s, d, p)
    <3>1. CASE d = m
      BY <2>1, <3>1
    <3>2. CASE Before(s, d, m)
      <4>1. /\ s[d].time \in Nat /\ s[m].time \in Nat /\ s[p].time \in Nat
            /\ d \in Nat /\ m \in Nat /\ p \in Nat
        BY <1>2, <1>3
      <4> QED
        BY <2>1, <3>2, <4>1 DEF Before
    <3> QED
      BY <1>2, <3>1, <3>2
  <2> QED
    BY <1>3, <2>2 DEF AfterLast
<1>7. ASSUME NEW p \in AfterLast(s)
      PROVE  p \in Entries(s) /\ s[p].time >= s[m].time
  <2>1. p \in DOMAIN s /\ Before(s, m, p) /\ (p \in Dividers(s) => Before(s, p, p))
    BY <1>2 DEF AfterLast
  <2>2. s[p].time \in Nat /\ p \in Nat /\ s[m].time \in Nat
    BY <1>2, <1>3, <2>1
  <2>3. p \notin Dividers(s)
    BY <2>1, <2>2 DEF Before
  <2> QED
    BY <2>1, <2>2, <2>3 DEF Entries, Before
<1>8. q \in AfterLast(s)
  BY <1>2, <1>3, <1>4, <1>5, <1>6
<1>9. ASSUME NEW p \in Orphans(s) PROVE FALSE
  <2>1. /\ p \in AfterLast(s)
        /\ \A o \in AfterLast(s) : o = p \/ Before(s, o, p) => s[o].role = "tool_call"
    BY DEF Orphans
  <2>2. p \in Entries(s) /\ s[p].time >= s[q].time
    BY <1>4, <1>7, <2>1
  <2>3. q = p \/ Before(s, q, p)
    BY <1>3, <1>5, <2>2 DEF Before, File
  <2> QED
    BY <1>4, <1>8, <2>1, <2>3
<1>10. AfterLast(s) = {p \in Entries(s) : s[p].time >= s[m].time}
  <2>1. \A p : p \in AfterLast(s) <=> p \in Entries(s) /\ s[p].time >= s[m].time
    BY <1>6, <1>7
  <2> QED
    BY <2>1
<1>11. Orphans(s) = {}
  BY <1>9
<1> QED
  BY <1>4, <1>8, <1>10, <1>11

(* The turns of a file by their times.                                     *)
TurnAt(s, n) == \E p \in DOMAIN s : s[p].role = "user" /\ s[p].time = n

(* A view of a file: the summary of its latest divider, and every message  *)
(* from the divider's time on.                                             *)
LEMMA ViewIs ==
  ASSUME NEW s, NEW n \in Nat, File(s, n)
  PROVE  \E u \in 0 .. MaxMessages :
           /\ \/ /\ Dividers(s) = {} /\ u = 0
                 /\ ToLLM(s).marker = 0 /\ ToLLM(s).tells = {}
              \/ \E m \in Dividers(s) :
                   /\ ToLLM(s).marker = s[m].id /\ ToLLM(s).tells = s[m].tells
                   /\ u = s[m].time
           /\ \A i : i \in ToLLM(s).said <=> i \in Number /\ i >= u /\ Said(s, i)
           /\ \A i : i \in Turns(s) <=> i \in Number /\ i >= u /\ TurnAt(s, i)
           /\ \A i \in Turns(s) : \E p \in AfterLast(s) : s[p].role = "user" /\ s[p].time = i
           /\ Shown(s) \subseteq Entries(s)
<1>1. s \in Seq(Entry \cup Marker)
  BY DEF File
<1>2. /\ \A p \in DOMAIN s : s[p].time \in Number /\ s[p].time \in Nat
      /\ Entries(s) \subseteq DOMAIN s /\ Dividers(s) \subseteq DOMAIN s
      /\ \A p \in DOMAIN s : s[p].role # "compaction" => p \in Entries(s)
  BY <1>1, ElementTypes DEF Entries, Dividers
<1>3. ASSUME NEW u \in 0 .. MaxMessages,
             AfterLast(s) = {p \in Entries(s) : s[p].time >= u}, Orphans(s) = {} 
      PROVE  /\ \A i : i \in ToLLM(s).said <=> i \in Number /\ i >= u /\ Said(s, i)
             /\ \A i : i \in Turns(s) <=> i \in Number /\ i >= u /\ TurnAt(s, i)
             /\ Shown(s) \subseteq Entries(s)
  <2>1. \A p : p \in Shown(s) <=> p \in DOMAIN s /\ s[p].time >= u /\ s[p].role \in Spoken
    BY <1>2, <1>3 DEF Shown, Spoken
  <2>2. \A i : i \in ToLLM(s).said <=> \E p \in Shown(s) : s[p].time = i
    BY DEF ToLLM
  <2>3. \A i : i \in ToLLM(s).said <=> i \in Number /\ i >= u /\ Said(s, i)
    BY <1>2, <2>1, <2>2 DEF Said
  <2>4. \A i : i \in Turns(s) <=> \E p \in AfterLast(s) : s[p].role = "user" /\ s[p].time = i
    BY DEF Turns
  <2>5. \A p : p \in AfterLast(s) /\ s[p].role = "user"
                 <=> p \in DOMAIN s /\ s[p].time >= u /\ s[p].role = "user"
    BY <1>2, <1>3
  <2>6. \A i : i \in Turns(s) <=> i \in Number /\ i >= u /\ TurnAt(s, i)
    BY <1>2, <2>4, <2>5 DEF TurnAt
  <2>7. Shown(s) \subseteq Entries(s)
    BY <1>3 DEF Shown
  <2> QED
    BY <2>3, <2>6, <2>7
<1>4. \A i \in Turns(s) : \E p \in AfterLast(s) : s[p].role = "user" /\ s[p].time = i
  BY DEF Turns
<1>5. CASE Dividers(s) = {}
  <2>1. AfterLast(s) = DOMAIN s /\ Entries(s) = DOMAIN s
    BY <1>5 DEF AfterLast, Entries
  <2>2. AfterLast(s) = {p \in Entries(s) : s[p].time >= 0}
    BY <1>2, <2>1
  <2>3. Orphans(s) = {}
    BY <1>5 DEF Orphans
  <2>4. 0 \in 0 .. MaxMessages
    BY SizeAssumption
  <2>5. ToLLM(s).marker = 0 /\ ToLLM(s).tells = {}
    BY <1>5 DEF ToLLM
  <2> QED
    BY <1>3, <1>4, <1>5, <2>2, <2>3, <2>4, <2>5
<1>6. CASE Dividers(s) # {}
  <2> PICK m : m = LastDivider(s)
    OBVIOUS
  <2>1. m \in Dividers(s) /\ s[m].time \in 0 .. MaxMessages
    BY <1>1, <1>2, <1>6, LastDividerIs, SizeAssumption DEF Number
  <2>2. AfterLast(s) = {p \in Entries(s) : s[p].time >= s[m].time} /\ Orphans(s) = {}
    BY <1>6, AfterLastIs
  <2>3. ToLLM(s).marker = s[m].id /\ ToLLM(s).tells = s[m].tells
    BY <1>6 DEF ToLLM
  <2> QED
    BY <1>3, <1>4, <2>1, <2>2, <2>3
<1> QED
  BY <1>5, <1>6

-----------------------------------------------------------------------------
(* Counting messages and dividers *)

LEMMA DividersCounted ==
  ASSUME NEW s, NEW k \in Nat, NumberedTo(s, k)
  PROVE  IsFiniteSet(Dividers(s)) /\ Cardinality(Dividers(s)) = k
<1> DEFINE f == [d \in Dividers(s) |-> s[d].id]
<1>1. f \in [Dividers(s) -> 1 .. k]
  BY DEF NumberedTo
<1>2. \A i \in 1 .. k : \E d \in Dividers(s) : f[d] = i
  BY DEF NumberedTo
<1>3. \A c, d \in Dividers(s) : f[c] = f[d] => c = d
  BY DEF NumberedTo
<1> HIDE DEF f
<1> QED
  BY <1>1, <1>2, <1>3, Counted

LEMMA EntriesCounted ==
  ASSUME NEW s, NEW n \in Nat, File(s, n)
  PROVE  Cardinality(DOMAIN s \ Dividers(s)) = n
<1> DEFINE f == [p \in Entries(s) |-> s[p].time]
<1>1. f \in [Entries(s) -> 1 .. n]
  BY DEF File
<1>2. \A i \in 1 .. n : \E p \in Entries(s) : f[p] = i
  BY DEF File
<1>3. \A p, q \in Entries(s) : f[p] = f[q] => p = q
  BY DEF File
<1> HIDE DEF f
<1>4. Cardinality(Entries(s)) = n
  BY <1>1, <1>2, <1>3, Counted
<1> QED
  BY <1>4 DEF Entries

LEMMA NoneTwice ==
  ASSUME NEW s, NEW n \in Nat, File(s, n), Numbered(s)
  PROVE  \A i, j \in DOMAIN s : s[i] = s[j] => i = j
<1>1. PICK k \in 0 .. MaxMarkers : NumberedTo(s, k)
  BY DEF Numbered
<1>2. ASSUME NEW i \in DOMAIN s, NEW j \in DOMAIN s, s[i] = s[j]
      PROVE  i = j
  <2>1. CASE i \in Dividers(s)
    <3>1. j \in Dividers(s)
      BY <1>2, <2>1 DEF Dividers
    <3> QED
      BY <1>1, <1>2, <2>1, <3>1 DEF NumberedTo
  <2>2. CASE i \notin Dividers(s)
    <3>1. i \in Entries(s) /\ j \in Entries(s)
      BY <1>2, <2>2 DEF Entries, Dividers
    <3> QED
      BY <1>2, <3>1 DEF File
  <2> QED
    BY <2>1, <2>2
<1> QED
  BY <1>2

-----------------------------------------------------------------------------
(* What a run has read stays true of it *)

LEMMA ViewTyped ==
  ASSUME NEW s, NEW n \in Nat, File(s, n)
  PROVE  ToLLM(s) \in View
<1>1. s \in Seq(Entry \cup Marker)
  BY DEF File
<1>2. ToLLM(s).said \subseteq Number
  BY <1>1, ViewIs
<1>3. CASE Dividers(s) = {}
  <2>1. ToLLM(s).marker = 0 /\ ToLLM(s).tells = {} /\ 0 \in 0 .. MaxMarkers
    BY <1>3, SizeAssumption DEF ToLLM
  <2> QED
    BY <1>2, <2>1 DEF ToLLM, View
<1>4. CASE Dividers(s) # {}
  <2>1. LastDivider(s) \in Dividers(s)
    BY <1>1, <1>4, LastDividerIs
  <2>2. s[LastDivider(s)].id \in 0 .. MaxMarkers /\ s[LastDivider(s)].tells \subseteq Number
    BY <1>1, <2>1, ElementTypes, SizeAssumption
  <2>3. ToLLM(s).marker \in 0 .. MaxMarkers /\ ToLLM(s).tells \subseteq Number
    BY <1>4, <2>2 DEF ToLLM
  <2> QED
    BY <1>2, <2>3 DEF ToLLM, View
<1> QED
  BY <1>3, <1>4

Reading(s, n) ==
  [at |-> "preparing", read |-> s, view |-> ToLLM(s), since |-> n, overtaken |-> FALSE]

(* A run that reads the file.                                              *)
LEMMA ReadingIs ==
  ASSUME NEW s, NEW n \in 0 .. MaxMessages, File(s, n)
  PROVE  Reading(s, n) \in LoopState /\ LoopOK(Reading(s, n), s, n)
<1>0. n \in Nat
  BY SizeAssumption
<1>1. s \in Seq(Entry \cup Marker) /\ ToLLM(s) \in View
  BY <1>0, ViewTyped DEF File
<1>2. Reading(s, n) \in LoopState
  BY <1>1 DEF Reading, LoopState
<1>3. /\ Reading(s, n).read = s /\ Reading(s, n).view = ToLLM(s)
      /\ Reading(s, n).since = n /\ Reading(s, n).at = "preparing"
  BY DEF Reading
<1>4. PICK u \in 0 .. MaxMessages :
           /\ \/ /\ Dividers(s) = {} /\ u = 0
                 /\ ToLLM(s).marker = 0 /\ ToLLM(s).tells = {}
              \/ \E m \in Dividers(s) :
                   /\ ToLLM(s).marker = s[m].id /\ ToLLM(s).tells = s[m].tells
                   /\ u = s[m].time
           /\ \A i : i \in ToLLM(s).said <=> i \in Number /\ i >= u /\ Said(s, i)
  BY <1>0, ViewIs
<1>5. From(ToLLM(s), u, s)
  BY <1>4 DEF From
<1>6. ASSUME NEW i \in u .. n, Said(s, i) PROVE i \in ToLLM(s).said
  <2>1. \A p \in DOMAIN s : s[p].time \in Number
    BY <1>1, ElementTypes
  <2>2. i \in Number /\ i >= u
    BY <1>6, <2>1 DEF Said
  <2> QED
    BY <1>4, <1>6, <2>2
<1>7. Viewed(Reading(s, n), s)
  BY <1>3, <1>4, <1>5, <1>6 DEF Viewed
<1>8. Kept(s, s)
  <2>1. \A p \in DOMAIN s : p >= p
    BY <1>1, ElementTypes
  <2> QED
    BY <2>1 DEF Kept
<1>9. Copied(Reading(s, n), s)
  BY <1>3, <1>8 DEF Copied
<1>10. n <= n
  BY <1>0
<1> QED
  BY <1>2, <1>3, <1>7, <1>9, <1>10 DEF LoopOK

(* From one file to the next: what there was is there, and no more is said *)
(* of the time before.                                                     *)
Extends(s, n, s2, n2) ==
  /\ Kept(s, s2) /\ n <= n2
  /\ \A i \in 0 .. n : Said(s2, i) => Said(s, i)

LEMMA KeptOn ==
  ASSUME NEW r \in Seq(Entry \cup Marker), NEW s \in Seq(Entry \cup Marker),
         NEW s2 \in Seq(Entry \cup Marker), Kept(r, s), Kept(s, s2)
  PROVE  Kept(r, s2)
<1>1. ASSUME NEW p \in DOMAIN r
      PROVE  \E q \in DOMAIN s2 : q >= p /\ s2[q] = r[p]
  <2>1. PICK o \in DOMAIN s : o >= p /\ s[o] = r[p]
    BY DEF Kept
  <2>2. PICK q \in DOMAIN s2 : q >= o /\ s2[q] = s[o]
    BY DEF Kept
  <2>3. p \in Nat /\ o \in Nat /\ q \in Nat
    BY ElementTypes
  <2> QED
    BY <2>1, <2>2, <2>3
<1> QED
  BY <1>1 DEF Kept

LEMMA KeptParts ==
  ASSUME NEW s, NEW s2, Kept(s, s2)
  PROVE  /\ \A i : Said(s, i) => Said(s2, i)
         /\ \A d \in Dividers(s) : \E e \in Dividers(s2) : s2[e] = s[d]
<1>1. ASSUME NEW d \in Dividers(s)
      PROVE  \E e \in Dividers(s2) : s2[e] = s[d]
  <2>1. d \in DOMAIN s /\ s[d].role = "compaction"
    BY DEF Dividers
  <2>2. PICK e \in DOMAIN s2 : s2[e] = s[d]
    BY <2>1 DEF Kept
  <2> QED
    BY <2>1, <2>2 DEF Dividers
<1>2. ASSUME NEW i, Said(s, i) PROVE Said(s2, i)
  <2>1. PICK p \in DOMAIN s : s[p].role \in Spoken /\ s[p].time = i
    BY <1>2 DEF Said
  <2>2. PICK q \in DOMAIN s2 : s2[q] = s[p]
    BY DEF Kept
  <2> QED
    BY <2>1, <2>2 DEF Said
<1> QED
  BY <1>1, <1>2

LEMMA LoopStands ==
  ASSUME NEW r \in {Idle} \cup LoopState, NEW s, NEW n \in Nat, NEW s2, NEW n2 \in Nat,
         LoopOK(r, s, n), File(s, n), File(s2, n2), Extends(s, n, s2, n2)
  PROVE  LoopOK(r, s2, n2)
<1>1. CASE r = Idle
  BY <1>1 DEF LoopOK
<1>2. CASE r # Idle
  <2>1. r \in LoopState /\ r.since <= n /\ Copied(r, s) /\ Viewed(r, s)
    BY <1>2 DEF LoopOK
  <2>2. r.since \in 0 .. MaxMessages /\ r.since \in Nat /\ r.since <= n2
    <3>1. r.since \in 0 .. MaxMessages
      BY <2>1 DEF LoopState
    <3> QED
      BY <2>1, <3>1 DEF Extends
  <2>3. s \in Seq(Entry \cup Marker) /\ s2 \in Seq(Entry \cup Marker)
    BY DEF File
  <2>4. /\ \A i : Said(s, i) => Said(s2, i)
        /\ \A d \in Dividers(s) : \E e \in Dividers(s2) : s2[e] = s[d]
    BY KeptParts DEF Extends
  <2>5. Copied(r, s2)
    <3>1. CASE r.at = "preparing"
      <4>1. File(r.read, r.since) /\ r.view = ToLLM(r.read) /\ Kept(r.read, s)
        BY <2>1, <3>1 DEF Copied
      <4>2. Kept(r.read, s2)
        BY <2>3, <4>1, KeptOn DEF File, Extends
      <4> QED
        BY <4>1, <4>2 DEF Copied
    <3>2. CASE r.at # "preparing"
      BY <3>2 DEF Copied
    <3> QED
      BY <3>1, <3>2
  <2>6. PICK u \in 0 .. MaxMessages :
          /\ From(r.view, u, s)
          /\ \A i \in r.view.said : i >= u /\ Said(s, i)
          /\ \A i \in u .. r.since : Said(s, i) => i \in r.view.said
    BY <2>1 DEF Viewed
  <2>7. From(r.view, u, s2)
    <3>1. CASE r.view.marker = 0 /\ r.view.tells = {} /\ u = 0
      BY <3>1 DEF From
    <3>2. ASSUME NEW d \in Dividers(s),
                 s[d].id = r.view.marker, s[d].tells = r.view.tells, s[d].time = u
          PROVE  From(r.view, u, s2)
      <4>1. PICK e \in Dividers(s2) : s2[e] = s[d]
        BY <2>4
      <4> QED
        BY <3>2, <4>1 DEF From
    <3> QED
      BY <2>6, <3>1, <3>2 DEF From
  <2>8. ASSUME NEW i \in u .. r.since, Said(s2, i) PROVE i \in r.view.said
    <3>1. i \in 0 .. n
      BY <2>1, <2>2
    <3> QED
      BY <2>6, <2>8, <3>1 DEF Extends
  <2>9. Viewed(r, s2)
    BY <2>4, <2>6, <2>7, <2>8 DEF Viewed
  <2> QED
    BY <2>2, <2>5, <2>9 DEF LoopOK
<1> QED
  BY <1>1, <1>2

-----------------------------------------------------------------------------
(* The file from one state to the next *)

Grows ==
  /\ arrived \in 0 .. MaxMessages /\ arrived' \in 0 .. MaxMessages
  /\ File(messages', arrived')
  /\ Numbered(messages')
  /\ Told(messages', dropped')
  /\ dropped' \subseteq Number
  /\ Extends(messages, arrived, messages', arrived')

(* The step of a task in a file that grows.                                *)
LEMMA TaskKeeps ==
  ASSUME HistoryInv, Grows, NEW t \in Task, NEW r \in {Idle} \cup LoopState, Does(t, r),
         LoopOK(r, messages', arrived')
  PROVE  HistoryInv'
<1>1. arrived \in Nat /\ arrived' \in Nat
  BY SizeAssumption DEF Grows
<1>2. loop \in [Task -> {Idle} \cup LoopState] /\ loop' = [loop EXCEPT ![t] = r]
  BY DEF HistoryInv, HistoryTypeOK, Does
<1>3. ASSUME NEW u \in Task PROVE LoopOK(loop'[u], messages', arrived')
  <2>1. CASE u = t
    BY <1>2, <2>1
  <2>2. CASE u # t
    <3>1. loop'[u] = loop[u] /\ loop[u] \in {Idle} \cup LoopState
      BY <1>2, <2>2
    <3>2. LoopOK(loop[u], messages, arrived) /\ File(messages, arrived)
      BY DEF HistoryInv
    <3>3. LoopOK(loop[u], messages', arrived')
      BY <1>1, <3>1, <3>2, LoopStands DEF Grows
    <3> QED
      BY <3>1, <3>3
  <2> QED
    BY <2>1, <2>2
<1>4. loop' \in [Task -> {Idle} \cup LoopState]
  BY <1>2
<1>5. /\ \A i, j \in DOMAIN messages' : messages'[i] = messages'[j] => i = j
      /\ arrived' = Cardinality(DOMAIN messages' \ Dividers(messages'))
  BY <1>1, NoneTwice, EntriesCounted DEF Grows
<1>6. HistoryTypeOK'
  BY <1>4, <1>5 DEF HistoryTypeOK, Grows, File, Dividers
<1> QED
  BY <1>3, <1>6 DEF HistoryInv, Grows

(* The UNCHANGED file.                                                     *)
LEMMA Same ==
  ASSUME HistoryInv, UNCHANGED <<messages, arrived, dropped>>
  PROVE  Grows
<1>1. File(messages, arrived) /\ Numbered(messages) /\ Told(messages, dropped)
  BY DEF HistoryInv
<1>2. arrived \in 0 .. MaxMessages /\ dropped \subseteq Number /\ arrived <= arrived
  BY SizeAssumption DEF HistoryInv, HistoryTypeOK
<1>3. messages \in Seq(Entry \cup Marker)
  BY <1>1 DEF File
<1>4. Kept(messages, messages)
  <2>1. \A p \in DOMAIN messages : p >= p
    BY <1>3, ElementTypes
  <2> QED
    BY <2>1 DEF Kept
<1> QED
  BY <1>1, <1>2, <1>4 DEF Grows, Extends

(* A message more: it is said last, and of no divider's time.              *)
LEMMA MessageTold ==
  ASSUME NEW s, NEW new, NEW n \in Nat, NEW p, NEW e \in Entry, NEW lost,
         File(s, n), Numbered(s), Told(s, lost), With(s, new, p, e), e.time = n + 1
  PROVE  /\ Numbered(new) /\ Told(new, lost) /\ Extends(s, n, new, n + 1)
         /\ e.role \in Spoken => Said(new, n + 1)
<1>1. s \in Seq(Entry \cup Marker) /\ new \in Seq(Entry \cup Marker)
  BY DEF File, With
<1>2. /\ \A i \in DOMAIN s : \E j \in DOMAIN new : j >= i /\ new[j] = s[i]
      /\ \A i \in Dividers(s) : Moved(i, p) \in Dividers(new)
      /\ \A j \in Dividers(new) : \E i \in Dividers(s) : j = Moved(i, p)
  BY <1>1, WithElements
<1>3. /\ new[p] = e /\ \A i \in DOMAIN s : new[Moved(i, p)] = s[i]
      /\ \A j \in DOMAIN new : j = p \/ \E i \in DOMAIN s : j = Moved(i, p)
      /\ p \in DOMAIN new
  <2>1. new[p] = e /\ \A i \in DOMAIN s : new[Moved(i, p)] = s[i]
    BY DEF With
  <2> QED
    BY <1>1, <2>1, WithPlaces
<1>4. \A d \in Dividers(s) : d \in DOMAIN s
  BY DEF Dividers
<1>5. Numbered(new)
  <2>1. PICK k \in 0 .. MaxMarkers : NumberedTo(s, k)
    BY DEF Numbered
  <2>2. NumberedTo(new, k)
    BY <1>2, <1>3, <1>4, <2>1 DEF NumberedTo
  <2> QED
    BY <2>2 DEF Numbered
<1>6. ASSUME NEW i \in Int, i <= n, Said(new, i) PROVE Said(s, i)
  <2>1. PICK j \in DOMAIN new : new[j].role \in Spoken /\ new[j].time = i
    BY <1>6 DEF Said
  <2>2. j # p
    BY <1>3, <1>6, <2>1
  <2>3. PICK o \in DOMAIN s : j = Moved(o, p)
    BY <1>3, <2>2
  <2> QED
    BY <1>3, <2>1, <2>3 DEF Said
<1>7. ASSUME NEW d \in Dividers(new)
      PROVE  /\ \A i \in new[d].tells : i < new[d].time
             /\ \A i \in Number : Said(new, i) /\ i < new[d].time => i \in new[d].tells \cup lost
  <2>1. PICK c \in Dividers(s) : d = Moved(c, p)
    BY <1>2
  <2>2. new[d] = s[c]
    BY <1>3, <1>4, <2>1
  <2>3. s[c].time \in 1 .. n
    BY DividerTime
  <2>4. ASSUME NEW i \in Number, Said(new, i), i < new[d].time
        PROVE  i \in new[d].tells \cup lost
    <3>1. i \in Int /\ i <= n /\ i < s[c].time
      BY <2>2, <2>3, <2>4, SizeAssumption DEF Number
    <3>2. Said(s, i)
      BY <1>6, <2>4, <3>1
    <3> QED
      BY <2>2, <3>1, <3>2 DEF Told
  <2> QED
    BY <2>2, <2>4 DEF Told
<1>8. Extends(s, n, new, n + 1)
  <2>1. \A i \in 0 .. n : Said(new, i) => Said(s, i)
    BY <1>6
  <2> QED
    BY <1>2, <2>1 DEF Extends, Kept
<1>9. e.role \in Spoken => Said(new, n + 1)
  BY <1>3 DEF Said
<1> QED
  BY <1>5, <1>7, <1>8, <1>9 DEF Told

LEMMA Appends ==
  ASSUME HistoryInv, NEW role \in Spoken \cup {"run_notice"}, AppendMessage(role),
         UNCHANGED dropped
  PROVE  Grows /\ arrived' = arrived + 1 /\ (role \in Spoken => Said(messages', arrived'))
<1>1. File(messages, arrived) /\ Numbered(messages) /\ Told(messages, dropped)
  BY DEF HistoryInv
<1>2. /\ arrived \in 0 .. MaxMessages /\ dropped \subseteq Number /\ arrived \in Nat
      /\ arrived < MaxMessages /\ arrived' = arrived + 1
  BY SizeAssumption DEF HistoryInv, HistoryTypeOK, AppendMessage
<1>3. arrived' \in 0 .. MaxMessages /\ arrived + 1 \in Number
  BY <1>2, SizeAssumption DEF Number
<1>4. PICK e : e = [role |-> role, time |-> arrived + 1]
  OBVIOUS
<1>5. e \in Entry /\ e.time = arrived + 1 /\ e.role = role
  BY <1>3, <1>4 DEF Entry
<1>6. With(messages, messages', Len(messages) + 1, e)
  <2>1. messages' = Append(messages, e) /\ messages \in Seq(Entry \cup Marker)
    BY <1>1, <1>4 DEF AppendMessage, Appended, File
  <2> QED
    BY <1>5, <2>1, AppendIsWith
<1>7. File(messages', arrived + 1)
  BY <1>1, <1>2, <1>5, <1>6, MessageAdded
<1>8. /\ Numbered(messages') /\ Told(messages', dropped)
      /\ Extends(messages, arrived, messages', arrived + 1)
      /\ role \in Spoken => Said(messages', arrived + 1)
  BY <1>1, <1>2, <1>5, <1>6, MessageTold
<1> QED
  BY <1>2, <1>3, <1>7, <1>8 DEF Grows

-----------------------------------------------------------------------------
(* The steps *)

LEMMA LoopFields ==
  ASSUME NEW r \in LoopState
  PROVE  /\ r # Idle /\ r.at \in {"preparing", "turn"} /\ r.view \in View
         /\ r.view.marker \in 0 .. MaxMarkers /\ r.view.tells \subseteq Number
         /\ r.view.said \subseteq Number /\ r.since \in 0 .. MaxMessages /\ r.since \in Nat
         /\ r.read \in Seq(Entry \cup Marker)
<1> DEFINE S == Seq(Entry \cup Marker)
<1> HIDE DEF S
<1>1. r \in [at: {"preparing", "turn"}, read: S, view: View, since: 0 .. MaxMessages,
             overtaken: BOOLEAN]
  BY DEF LoopState, S
<1>2. r.view \in View /\ r.read \in S /\ r.since \in 0 .. MaxMessages /\ r.at \in {"preparing", "turn"}
  BY <1>1
<1>3. r.since \in Nat
  BY <1>2
<1>4. r # Idle
  BY <1>2 DEF Idle
<1> QED
  BY <1>2, <1>3, <1>4 DEF View, S

LEMMA LoopAt ==
  ASSUME HistoryInv, NEW t \in Task, loop[t] # Idle
  PROVE  loop[t] \in LoopState
BY DEF HistoryInv, HistoryTypeOK

LEMMA TaskAt ==
  ASSUME HistoryInv, NEW t \in Task
  PROVE  loop[t].at \in {"preparing", "turn"} => loop[t] # Idle /\ loop[t] \in LoopState
BY DEF HistoryInv, HistoryTypeOK, Idle

LEMMA IdleOK ==
  ASSUME NEW s, NEW n
  PROVE  Idle \in {Idle} \cup LoopState /\ LoopOK(Idle, s, n)
BY DEF LoopOK

(* A run with its history prepared has nothing left to read.               *)
InTurn(r, view) == [r EXCEPT !.at = "turn", !.view = view, !.read = <<>>]

LEMMA TurnOf ==
  ASSUME NEW r \in LoopState, NEW view \in View, NEW x, x = InTurn(r, view)
  PROVE  /\ x \in LoopState /\ x.at = "turn" /\ x.view = view /\ x.since = r.since
         /\ \A s, n : r.since <= n /\ Viewed(x, s) => LoopOK(x, s, n)
<1> DEFINE S == Seq(Entry \cup Marker)
<1>0. <<>> \in S
  OBVIOUS
<1> HIDE DEF S
<1>1. r \in [at: {"preparing", "turn"}, read: S, view: View, since: 0 .. MaxMessages,
             overtaken: BOOLEAN]
  BY DEF LoopState, S
<1>2. x \in LoopState
  BY <1>0, <1>1 DEF InTurn, LoopState, S
<1>3. x.at = "turn" /\ x.view = view /\ x.since = r.since
  BY <1>1 DEF InTurn
<1> QED
  BY <1>2, <1>3 DEF LoopOK, Copied

LEMMA KeepReceiveMessage ==
  ASSUME HistoryInv, ReceiveMessage
  PROVE  HistoryInv'
<1>1. PICK role \in {"tool_call", "assistant"} : AppendMessage(role)
  BY DEF ReceiveMessage
<1>2. loop' = loop /\ dropped' = dropped
  BY DEF ReceiveMessage
<1>3. Grows
  BY <1>1, <1>2, Appends DEF Spoken
<1>4. ASSUME NEW t \in Task PROVE HistoryInv'
  <2>1. loop[t] \in {Idle} \cup LoopState /\ loop' = [loop EXCEPT ![t] = loop[t]]
    BY <1>2 DEF HistoryInv, HistoryTypeOK
  <2>2. LoopOK(loop[t], messages', arrived')
    <3>1. LoopOK(loop[t], messages, arrived) /\ File(messages, arrived)
      BY DEF HistoryInv
    <3>2. arrived \in Nat /\ arrived' \in Nat
      BY <1>3 DEF Grows
    <3> QED
      BY <1>3, <2>1, <3>1, <3>2, LoopStands DEF Grows
  <2> QED
    BY <1>3, <2>1, <2>2, TaskKeeps DEF Does
<1>5. CASE Task = {}
  <2>1. /\ \A i, j \in DOMAIN messages' : messages'[i] = messages'[j] => i = j
        /\ arrived' = Cardinality(DOMAIN messages' \ Dividers(messages'))
    BY <1>3, NoneTwice, EntriesCounted DEF Grows
  <2>2. HistoryTypeOK'
    BY <1>2, <1>3, <1>5, <2>1 DEF HistoryInv, HistoryTypeOK, Grows, File, Dividers
  <2> QED
    BY <1>3, <1>5, <2>2 DEF HistoryInv, Grows
<1> QED
  BY <1>4, <1>5

LEMMA KeepRunBegins ==
  ASSUME HistoryInv, NEW t \in Task, RunBegins(t)
  PROVE  HistoryInv'
<1>1. AppendMessage("user") /\ Reads(t, messages') /\ UNCHANGED dropped
  BY DEF RunBegins
<1>2. Grows
  BY <1>1, Appends DEF Spoken
<1>3. Does(t, Reading(messages', arrived'))
  BY <1>1 DEF Reads, Reading
<1>4. /\ Reading(messages', arrived') \in LoopState
      /\ LoopOK(Reading(messages', arrived'), messages', arrived')
  BY <1>2, ReadingIs DEF Grows
<1> QED
  BY <1>2, <1>3, <1>4, TaskKeeps

LEMMA KeepRunRepeats ==
  ASSUME HistoryInv, NEW t \in Task, RunRepeats(t)
  PROVE  HistoryInv'
<1>1. Reads(t, messages) /\ UNCHANGED <<messages, arrived, dropped>>
  BY DEF RunRepeats
<1>2. Grows
  BY <1>1, Same
<1>3. Does(t, Reading(messages', arrived'))
  BY <1>1 DEF Reads, Reading
<1>4. /\ Reading(messages', arrived') \in LoopState
      /\ LoopOK(Reading(messages', arrived'), messages', arrived')
  BY <1>2, ReadingIs DEF Grows
<1> QED
  BY <1>2, <1>3, <1>4, TaskKeeps

LEMMA KeepKeepsHistory ==
  ASSUME HistoryInv, NEW t \in Task, KeepsHistory(t)
  PROVE  HistoryInv'
<1>1. loop[t].at = "preparing" /\ Prepared(t, loop[t].view) /\ UNCHANGED <<messages, arrived, dropped>>
  BY DEF KeepsHistory
<1>2. Grows
  BY <1>1, Same
<1>3. loop[t] \in LoopState /\ loop[t] # Idle /\ loop[t].view \in View
  BY <1>1, TaskAt, LoopFields
<1>4. CASE loop[t].overtaken
  <2>1. Does(t, Idle)
    BY <1>1, <1>4 DEF Prepared
  <2> QED
    BY <1>2, <2>1, IdleOK, TaskKeeps
<1>5. CASE ~loop[t].overtaken
  <2> PICK x : x = InTurn(loop[t], loop[t].view)
    OBVIOUS
  <2>1. Does(t, x)
    BY <1>1, <1>5 DEF Prepared, InTurn
  <2>2. LoopOK(loop[t], messages, arrived)
    BY DEF HistoryInv
  <2>3. loop[t].since <= arrived /\ Viewed(loop[t], messages)
    BY <1>3, <2>2 DEF LoopOK
  <2>4. /\ x \in LoopState /\ x.view = loop[t].view /\ x.since = loop[t].since
        /\ \A s, n : loop[t].since <= n /\ Viewed(x, s) => LoopOK(x, s, n)
    BY <1>3, TurnOf
  <2>5. Viewed(x, messages)
    BY <2>3, <2>4 DEF Viewed
  <2>6. LoopOK(x, messages', arrived')
    BY <1>1, <2>3, <2>4, <2>5
  <2> QED
    BY <1>2, <2>1, <2>4, <2>6, TaskKeeps
<1> QED
  BY <1>4, <1>5

LEMMA KeepToolRecorded ==
  ASSUME HistoryInv, NEW t \in Task, ToolRecorded(t)
  PROVE  HistoryInv'
<1> PICK r : r = loop[t]
  OBVIOUS
<1> PICK x : x = [r EXCEPT !.view.said = @ \cup {arrived'}]
  OBVIOUS
<1>1. r.at = "turn" /\ AppendMessage("tool_call") /\ Does(t, x) /\ UNCHANGED dropped
  BY DEF ToolRecorded
<1>2. Grows /\ arrived' = arrived + 1 /\ Said(messages', arrived')
  BY <1>1, Appends DEF Spoken
<1>3. r \in LoopState /\ r # Idle /\ r.view \in View /\ r.since \in Nat
  BY <1>1, TaskAt, LoopFields
<1>4. arrived \in Nat /\ arrived' \in Nat /\ arrived' \in Number /\ arrived' \in 0 .. MaxMessages
  BY <1>2, SizeAssumption DEF Grows, Number
<1>5. r.since <= arrived' /\ Viewed(r, messages')
  <2>1. LoopOK(r, messages, arrived) /\ File(messages, arrived)
    BY DEF HistoryInv
  <2>2. LoopOK(r, messages', arrived')
    BY <1>2, <1>3, <1>4, <2>1, LoopStands DEF Grows
  <2> QED
    BY <1>3, <2>2 DEF LoopOK
<1>6. /\ x.at = "turn" /\ x.since = r.since /\ x.view.marker = r.view.marker
      /\ x.view.tells = r.view.tells /\ x.view.said = r.view.said \cup {arrived'}
  <2>1. x = [r EXCEPT !.view = [r.view EXCEPT !.said = r.view.said \cup {arrived'}]]
    OBVIOUS
  <2> QED
    BY <1>1, <1>3, <2>1 DEF LoopState, View
<1>7. x \in LoopState
  <2>1. [r.view EXCEPT !.said = r.view.said \cup {arrived'}] \in View
    BY <1>3, <1>4 DEF View
  <2> QED
    BY <1>3, <2>1 DEF LoopState
<1>8. Viewed(x, messages')
  <2>1. PICK u \in 0 .. MaxMessages :
          /\ From(r.view, u, messages')
          /\ \A i \in r.view.said : i >= u /\ Said(messages', i)
          /\ \A i \in u .. r.since : Said(messages', i) => i \in r.view.said
    BY <1>5 DEF Viewed
  <2>2. u <= arrived'
    <3>1. CASE u = 0
      BY <1>4, <3>1
    <3>2. ASSUME NEW d \in Dividers(messages'), messages'[d].time = u PROVE u <= arrived'
      <4>1. messages'[d].time \in 1 .. arrived'
        BY <1>2, DividerTime DEF Grows
      <4> QED
        BY <1>4, <3>2, <4>1
    <3> QED
      BY <2>1, <3>1, <3>2 DEF From
  <2>3. From(x.view, u, messages')
    BY <1>6, <2>1 DEF From
  <2>4. \A i \in x.view.said : i >= u /\ Said(messages', i)
    BY <1>2, <1>4, <1>6, <2>1, <2>2
  <2>5. \A i \in u .. x.since : Said(messages', i) => i \in x.view.said
    BY <1>6, <2>1
  <2> QED
    BY <2>3, <2>4, <2>5 DEF Viewed
<1>9. LoopOK(x, messages', arrived')
  BY <1>5, <1>6, <1>8 DEF LoopOK, Copied
<1> QED
  BY <1>1, <1>2, <1>7, <1>9, TaskKeeps

LEMMA KeepRunEnds ==
  ASSUME HistoryInv, NEW t \in Task, RunEnds(t)
  PROVE  HistoryInv'
<1>1. Does(t, Idle) /\ UNCHANGED dropped
  BY DEF RunEnds
<1>2. Grows
  <2>1. CASE \E role \in {"assistant", "run_notice"} : AppendMessage(role)
    BY <1>1, <2>1, Appends DEF Spoken
  <2>2. CASE UNCHANGED <<messages, arrived>>
    BY <1>1, <2>2, Same
  <2> QED
    BY <2>1, <2>2 DEF RunEnds
<1> QED
  BY <1>1, <1>2, IdleOK, TaskKeeps

LEMMA KeepOvertaken ==
  ASSUME HistoryInv, NEW t \in Task, Overtaken(t)
  PROVE  HistoryInv'
<1> PICK r : r = loop[t]
  OBVIOUS
<1> PICK x : x = [r EXCEPT !.overtaken = TRUE]
  OBVIOUS
<1>1. r.at = "preparing" /\ Does(t, x) /\ UNCHANGED <<messages, arrived, dropped>>
  BY DEF Overtaken
<1>2. Grows
  BY <1>1, Same
<1>3. r \in LoopState /\ r # Idle
  BY <1>1, TaskAt
<1>4. x \in LoopState /\ x.at = r.at /\ x.since = r.since /\ x.view = r.view /\ x.read = r.read
  BY <1>3 DEF LoopState
<1>5. LoopOK(r, messages, arrived)
  BY DEF HistoryInv
<1>6. LoopOK(x, messages, arrived)
  BY <1>3, <1>4, <1>5 DEF LoopOK, Copied, Viewed
<1>7. LoopOK(x, messages', arrived')
  BY <1>1, <1>6
<1> QED
  BY <1>1, <1>2, <1>4, <1>7, TaskKeeps

(* A divider more that tells of what is before its time, but for what was  *)
(* dropped.                                                                *)
Divides(s, n, new, p, e, k, lost, lost2) ==
  /\ n \in Nat /\ k \in Nat /\ e \in Marker
  /\ File(s, n) /\ NumberedTo(s, k) /\ k + 1 <= MaxMarkers /\ e.id = k + 1
  /\ Told(s, lost) /\ lost \subseteq lost2 /\ With(s, new, p, e)
  /\ \A i \in e.tells : i < e.time
  /\ \A i \in Number : Said(s, i) /\ i < e.time => i \in e.tells \cup lost2

LEMMA DividerTold ==
  ASSUME NEW s, NEW n, NEW new, NEW p, NEW e, NEW k, NEW lost, NEW lost2,
         Divides(s, n, new, p, e, k, lost, lost2)
  PROVE  /\ Numbered(new) /\ Told(new, lost2) /\ Extends(s, n, new, n)
         /\ \A i : Said(new, i) <=> Said(s, i)
<1>0. /\ n \in Nat /\ k \in Nat /\ e \in Marker
      /\ File(s, n) /\ NumberedTo(s, k) /\ k + 1 <= MaxMarkers /\ e.id = k + 1
      /\ Told(s, lost) /\ lost \subseteq lost2 /\ With(s, new, p, e)
      /\ \A i \in e.tells : i < e.time
      /\ \A i \in Number : Said(s, i) /\ i < e.time => i \in e.tells \cup lost2
  BY DEF Divides
<1> USE <1>0
<1>1. s \in Seq(Entry \cup Marker) /\ new \in Seq(Entry \cup Marker)
  BY DEF File, With
<1>2. /\ \A i \in DOMAIN s : \E j \in DOMAIN new : j >= i /\ new[j] = s[i]
      /\ \A i \in Dividers(s) : Moved(i, p) \in Dividers(new)
      /\ \A j \in Dividers(new) : j = p \/ \E i \in Dividers(s) : j = Moved(i, p)
      /\ p \in Dividers(new)
  BY <1>1, WithElements
<1>3. /\ new[p] = e /\ \A i \in DOMAIN s : new[Moved(i, p)] = s[i]
      /\ \A j \in DOMAIN new : j = p \/ \E i \in DOMAIN s : j = Moved(i, p)
  <2>1. new[p] = e /\ \A i \in DOMAIN s : new[Moved(i, p)] = s[i]
    BY DEF With
  <2> QED
    BY <1>1, <2>1, WithPlaces
<1>4. \A d \in Dividers(s) : d \in DOMAIN s /\ new[Moved(d, p)] = s[d]
  BY <1>3 DEF Dividers
<1>5. NumberedTo(new, k + 1)
  <2>1. ASSUME NEW d \in Dividers(new)
        PROVE  /\ new[d].id \in 1 .. k + 1 
               /\ new[d].id = k + 1 => d = p
    BY <1>2, <1>3, <1>4 DEF NumberedTo
  <2>2. ASSUME NEW i \in 1 .. k + 1 PROVE \E d \in Dividers(new) : new[d].id = i
    <3>1. CASE i = k + 1
      BY <1>2, <1>3, <3>1
    <3>2. CASE i # k + 1
      <4>1. i \in 1 .. k
        BY <3>2
      <4>2. PICK d \in Dividers(s) : s[d].id = i
        BY <4>1 DEF NumberedTo
      <4> QED
        BY <1>2, <1>4, <4>2
    <3> QED
      BY <3>1, <3>2
  <2>3. ASSUME NEW c \in Dividers(new), NEW d \in Dividers(new), new[c].id = new[d].id
        PROVE  c = d
    <3>1. CASE c = p \/ d = p
      <4>1. new[p].id = k + 1
        BY <1>3
      <4> QED
        BY <2>1, <2>3, <3>1, <4>1
    <3>2. CASE c # p /\ d # p
      <4>1. PICK a \in Dividers(s) : c = Moved(a, p)
        BY <1>2, <3>2
      <4>2. PICK b \in Dividers(s) : d = Moved(b, p)
        BY <1>2, <3>2
      <4>3. a = b
        BY <1>4, <2>3, <4>1, <4>2 DEF NumberedTo
      <4> QED
        BY <4>1, <4>2, <4>3
    <3> QED
      BY <3>1, <3>2
  <2> QED
    BY <2>1, <2>2, <2>3 DEF NumberedTo
<1>6. Numbered(new)
  <2>1. k + 1 \in 0 .. MaxMarkers
    OBVIOUS
  <2> QED
    BY <1>5, <2>1 DEF Numbered
<1>7. ASSUME NEW i PROVE Said(new, i) <=> Said(s, i)
  <2>1. ASSUME Said(s, i) PROVE Said(new, i)
    BY <1>2, <2>1 DEF Said
  <2>2. ASSUME Said(new, i) PROVE Said(s, i)
    <3>1. PICK j \in DOMAIN new : new[j].role \in Spoken /\ new[j].time = i
      BY <2>2 DEF Said
    <3>2. j # p
      BY <1>3, <3>1 DEF Marker, Spoken
    <3>3. PICK o \in DOMAIN s : j = Moved(o, p)
      BY <1>3, <3>2
    <3> QED
      BY <1>3, <3>1, <3>3 DEF Said
  <2> QED
    BY <2>1, <2>2
<1>8. ASSUME NEW d \in Dividers(new)
      PROVE  /\ \A i \in new[d].tells : i < new[d].time
             /\ \A i \in Number : Said(new, i) /\ i < new[d].time => i \in new[d].tells \cup lost2
  <2>1. CASE d = p
    BY <1>3, <1>7, <2>1
  <2>2. CASE d # p
    <3>1. PICK c \in Dividers(s) : d = Moved(c, p)
      BY <1>2, <2>2
    <3>2. new[d] = s[c]
      BY <1>4, <3>1
    <3> QED
      BY <1>7, <3>2 DEF Told
  <2> QED
    BY <2>1, <2>2
<1>9. Extends(s, n, new, n)
  BY <1>2, <1>7 DEF Extends, Kept
<1> QED
  BY <1>6, <1>7, <1>8, <1>9 DEF Told

(* What is said in the file of a time that was read was read.              *)
LEMMA ReadThen ==
  ASSUME NEW copy, NEW m \in Nat, NEW s, NEW n \in Nat, File(copy, m), File(s, n), Kept(copy, s),
         NEW i \in 1 .. m, Said(s, i)
  PROVE  Said(copy, i)
<1>1. PICK o \in Entries(copy) : copy[o].time = i
  BY DEF File
<1>2. copy \in Seq(Entry \cup Marker) /\ s \in Seq(Entry \cup Marker)
  BY DEF File
<1>3. o \in DOMAIN copy /\ copy[o].role # "compaction"
  BY <1>1 DEF Entries, Dividers
<1>4. PICK q \in DOMAIN s : s[q] = copy[o]
  BY <1>3 DEF Kept
<1>5. PICK z \in DOMAIN s : s[z].role \in Spoken /\ s[z].time = i
  BY DEF Said
<1>6. q \in Entries(s) /\ z \in Entries(s)
  BY <1>2, <1>3, <1>4, <1>5, ElementTypes DEF Spoken
<1>7. q = z
  BY <1>1, <1>4, <1>5, <1>6 DEF File
<1> QED
  BY <1>1, <1>3, <1>4, <1>5, <1>7 DEF Said

(* Where the kept turns begin: at a turn of what was read, at its place.   *)
LEMMA SplitIs ==
  ASSUME NEW s, NEW n \in Nat, File(s, n), NEW k \in 1 .. Cardinality(Turns(s))
  PROVE  /\ KthLast(Turns(s), k) \in Turns(s)
         /\ SplitPlace(s, k) \in AfterLast(s)
         /\ s[SplitPlace(s, k)].role = "user"
         /\ s[SplitPlace(s, k)].time = KthLast(Turns(s), k)
<1>1. /\ \A i \in Turns(s) : i \in Number
      /\ \A i \in Turns(s) : \E p \in AfterLast(s) : s[p].role = "user" /\ s[p].time = i
  BY ViewIs
<1>2. Turns(s) \in SUBSET Nat /\ MaxMessages \in Nat /\ \A i \in Turns(s) : i <= MaxMessages
  BY <1>1, SizeAssumption DEF Number
<1> PICK U : U = Turns(s)
  OBVIOUS
<1>3. KthLast(U, k) \in U
  BY <1>2, KthLastIsOne
<1>4. IsFiniteSet(U) /\ Cardinality(U) \in Nat
  BY <1>2, FS_BoundedSetOfNaturals, FS_CardinalityType
<1>5. k > 0 /\ Cardinality(U) >= k
  BY <1>4
<1>6. SplitPlace(s, k) = CHOOSE p \in AfterLast(s) : s[p].role = "user" /\ s[p].time = KthLast(U, k)
  BY <1>5 DEF SplitPlace
<1>7. PICK p \in AfterLast(s) : s[p].role = "user" /\ s[p].time = KthLast(U, k)
  BY <1>1, <1>3
<1> QED
  BY <1>3, <1>6, <1>7

LEMMA KeptTurns ==
  ASSUME NEW c \in Nat, NEW summarizes \in BOOLEAN, TurnsKept(c, summarizes) # 0
  PROVE  TurnsKept(c, summarizes) \in 1 .. c
BY KeepRecentAssumption DEF TurnsKept

(* The turns the compactor finds in the conversation it is given are those *)
(* of the file it was read from.                                           *)
LEMMA TurnsAre ==
  ASSUME NEW t \in Task, NEW n \in Nat, File(loop[t].read, n), loop[t].view = ToLLM(loop[t].read)
  PROVE  TurnsInView(t) = Turns(loop[t].read)
<1> PICK s : s = loop[t].read
  OBVIOUS
<1>1. PICK u \in 0 .. MaxMessages :
        /\ \A i : i \in ToLLM(s).said <=> i \in Number /\ i >= u /\ Said(s, i)
        /\ \A i : i \in Turns(s) <=> i \in Number /\ i >= u /\ TurnAt(s, i)
  BY ViewIs
<1>2. \A i : TurnAt(s, i) => Said(s, i)
  BY DEF TurnAt, Said, Spoken
<1>3. \A i : i \in TurnsInView(t) <=> i \in ToLLM(s).said /\ TurnAt(s, i)
  BY DEF TurnsInView, IsUser, TurnAt
<1>4. \A i : i \in TurnsInView(t) <=> i \in Turns(s)
  BY <1>1, <1>2, <1>3
<1> QED
  BY <1>4

LEMMA KeepCompacts ==
  ASSUME HistoryInv, NEW t \in Task, NEW summarizes \in BOOLEAN, Compacts(t, summarizes)
  PROVE  HistoryInv'
<1> PICK r : r = loop[t]
  OBVIOUS
<1> PICK copy : copy = r.read
  OBVIOUS
<1> PICK kept : kept = TurnsKept(Cardinality(TurnsInView(t)), summarizes)
  OBVIOUS
<1> PICK index : index = SplitPlace(copy, kept)
  OBVIOUS
<1> PICK marker : marker = Cardinality(Dividers(messages)) + 1
  OBVIOUS
<1> PICK view : view = CompactedView(t, kept, marker, summarizes)
  OBVIOUS
<1> PICK e : e = Divider(marker, view.tells, copy[index])
  OBVIOUS
<1>1. /\ r.at = "preparing" /\ kept # 0 /\ marker <= MaxMarkers
      /\ messages' = InsertAt(messages, index, e) /\ arrived' = arrived
      /\ Does(t, IF r.overtaken THEN Idle ELSE InTurn(r, view))
      /\ dropped' = IF summarizes THEN dropped
                    ELSE dropped \cup r.view.tells \cup (r.view.said \ view.said)
  BY DEF Compacts, InsertMessageAt, Prepared, InTurn
<1>2. /\ File(messages, arrived) /\ Told(messages, dropped) /\ dropped \subseteq Number
      /\ arrived \in Nat /\ arrived \in 0 .. MaxMessages /\ messages \in Seq(Entry \cup Marker)
  BY DEF HistoryInv, HistoryTypeOK
<1>3. /\ r \in LoopState /\ r # Idle /\ r.view.tells \subseteq Number
      /\ r.view.said \subseteq Number /\ r.since \in Nat /\ copy \in Seq(Entry \cup Marker)
  BY <1>1, TaskAt, LoopFields
<1>4. File(copy, r.since) /\ r.view = ToLLM(copy) /\ Kept(copy, messages) /\ r.since <= arrived
  <2>1. LoopOK(r, messages, arrived)
    BY DEF HistoryInv
  <2> QED
    BY <1>1, <1>3, <2>1 DEF LoopOK, Copied
<1>5. PICK u \in 0 .. MaxMessages :
           /\ \/ /\ Dividers(copy) = {} /\ u = 0
                 /\ ToLLM(copy).marker = 0 /\ ToLLM(copy).tells = {}
              \/ \E m \in Dividers(copy) :
                   /\ ToLLM(copy).marker = copy[m].id /\ ToLLM(copy).tells = copy[m].tells
                   /\ u = copy[m].time
           /\ \A i : i \in ToLLM(copy).said <=> i \in Number /\ i >= u /\ Said(copy, i)
           /\ \A i : i \in Turns(copy) <=> i \in Number /\ i >= u /\ TurnAt(copy, i)
  BY <1>3, <1>4, ViewIs
<1>6. TurnsInView(t) = Turns(copy) /\ kept \in 1 .. Cardinality(Turns(copy))
  <2>1. TurnsInView(t) = Turns(copy)
    BY <1>3, <1>4, TurnsAre
  <2>2. Cardinality(Turns(copy)) \in Nat
    <3>1. Turns(copy) \in SUBSET Nat /\ MaxMessages \in Nat /\ \A i \in Turns(copy) : i <= MaxMessages
      BY <1>5, SizeAssumption DEF Number
    <3> PICK U : U = Turns(copy)
      OBVIOUS
    <3>2. IsFiniteSet(U)
      BY <3>1, FS_BoundedSetOfNaturals
    <3> QED
      BY <3>2, FS_CardinalityType
  <2> QED
    BY <1>1, <2>1, <2>2, KeptTurns
<1> PICK v : v = KthLast(Turns(copy), kept)
  OBVIOUS
<1>7. /\ v \in Turns(copy) /\ index \in AfterLast(copy)
      /\ copy[index].role = "user" /\ copy[index].time = v
  BY <1>3, <1>4, <1>6, SplitIs
<1>8. /\ v \in Number /\ v \in Nat /\ v \in 1 .. r.since /\ v >= u /\ v \in 0 .. MaxMessages
      /\ u \in Nat /\ index \in DOMAIN copy
  <2>1. v \in Number /\ v >= u
    BY <1>5, <1>7
  <2>2. index \in DOMAIN copy
    BY <1>7 DEF AfterLast
  <2>3. index \in Entries(copy)
    BY <1>3, <1>7, <2>2, ElementTypes
  <2>4. v \in 1 .. r.since
    BY <1>4, <1>7, <2>3 DEF File
  <2> QED
    BY <2>1, <2>2, <2>4, SizeAssumption DEF Number
<1>9. /\ view.marker = marker
      /\ view.tells = IF summarizes THEN r.view.tells \cup {n \in r.view.said : n < v} ELSE {}
      /\ view.said = {n \in r.view.said : n >= v}
  BY <1>6 DEF CompactedView
<1>10. PICK k \in 0 .. MaxMarkers : NumberedTo(messages, k)
  BY DEF HistoryInv, Numbered
<1>11. k \in Nat /\ marker = k + 1 /\ marker \in 1 .. MaxMarkers
  BY <1>1, <1>10, DividersCounted, SizeAssumption
<1>12. /\ e \in Marker /\ e.id = k + 1 /\ e.time = v /\ e.tells = view.tells
       /\ view \in View
  <2>1. view.tells \subseteq Number /\ view.said \subseteq Number
    BY <1>3, <1>9
  <2>2. e = [role |-> "compaction", time |-> v, id |-> marker, tells |-> view.tells]
    BY <1>7 DEF Divider
  <2>3. e \in Marker
    BY <1>8, <1>11, <2>1, <2>2 DEF Marker
  <2>4. view = [marker |-> view.marker, tells |-> view.tells, said |-> view.said]
    BY DEF CompactedView
  <2>5. view \in View
    BY <1>9, <1>11, <2>1, <2>4 DEF View
  <2> QED
    BY <1>11, <2>2, <2>3, <2>5
<1>13. PICK q \in DOMAIN messages : q >= index /\ messages[q] = copy[index]
  BY <1>4, <1>8 DEF Kept
<1>14. With(messages, messages', index, e)
  <2>1. index \in 1 .. Len(messages) + 1
    BY <1>2, <1>3, <1>8, <1>13, ElementTypes
  <2> QED
    BY <1>1, <1>2, <1>12, <2>1, InsertIsWith
<1>15. File(messages', arrived)
  BY <1>2, <1>7, <1>12, <1>13, <1>14, DividerAdded
<1>16. ASSUME NEW i \in r.view.tells PROVE i < u /\ i \in Number
  <2>1. CASE ToLLM(copy).tells = {}
    BY <1>4, <1>16, <2>1
  <2>2. ASSUME NEW m \in Dividers(copy), ToLLM(copy).tells = copy[m].tells, u = copy[m].time
        PROVE  i < u /\ i \in Number
    <3>1. PICK d \in Dividers(messages) : messages[d] = copy[m]
      BY <1>4, KeptParts
    <3> QED
      BY <1>2, <1>3, <1>4, <1>16, <2>2, <3>1 DEF Told
  <2> QED
    BY <1>5, <2>1, <2>2
<1>17. ASSUME NEW i \in Number, Said(messages, i), i < u
       PROVE  i \in r.view.tells \cup dropped
  <2>1. CASE u = 0
    BY <1>17, <2>1 DEF Number
  <2>2. ASSUME NEW m \in Dividers(copy), ToLLM(copy).tells = copy[m].tells, u = copy[m].time
        PROVE  i \in r.view.tells \cup dropped
    <3>1. PICK d \in Dividers(messages) : messages[d] = copy[m]
      BY <1>4, KeptParts
    <3> QED
      BY <1>2, <1>4, <1>17, <2>2, <3>1 DEF Told
  <2> QED
    BY <1>5, <2>1, <2>2
<1>18. ASSUME NEW i \in Number, Said(messages, i), i >= u, i <= r.since
       PROVE  i \in r.view.said
  <2>1. i \in 1 .. r.since
    BY <1>3, <1>18, SizeAssumption DEF Number
  <2>2. Said(copy, i)
    BY <1>2, <1>3, <1>4, <1>18, <2>1, ReadThen
  <2> QED
    BY <1>4, <1>5, <1>18, <2>2
<1>19. ASSUME NEW i \in e.tells PROVE i < e.time
  <2>1. i \in r.view.tells \/ i < v
    BY <1>9, <1>12, <1>19
  <2>2. CASE i \in r.view.tells
    <3>1. i < u /\ i \in Number
      BY <1>16, <2>2
    <3>2. i \in Nat
      BY <3>1, SizeAssumption DEF Number
    <3> QED
      BY <1>8, <1>12, <3>1, <3>2
  <2> QED
    BY <1>12, <2>1, <2>2
<1>20. ASSUME NEW i \in Number, Said(messages, i), i < e.time
       PROVE  i \in e.tells \cup dropped'
  <2>1. i \in Nat /\ i < v
    BY <1>12, <1>20, SizeAssumption DEF Number
  <2>2. i \in r.view.tells \cup dropped \/ (i \in r.view.said /\ i < v)
    <3>1. CASE i < u
      BY <1>17, <1>20, <3>1
    <3>2. CASE ~(i < u)
      <4>1. i >= u /\ i <= r.since
        BY <1>3, <1>8, <2>1, <3>2
      <4> QED
        BY <1>18, <1>20, <2>1, <4>1
    <3> QED
      BY <3>1, <3>2
  <2>3. CASE summarizes
    <3>1. e.tells = r.view.tells \cup {n \in r.view.said : n < v} /\ dropped' = dropped
      BY <1>1, <1>9, <1>12, <2>3
    <3> QED
      BY <2>2, <3>1
  <2>4. CASE ~summarizes
    <3>1. dropped' = dropped \cup r.view.tells \cup (r.view.said \ view.said)
      BY <1>1, <2>4
    <3>2. i \notin view.said
      BY <1>8, <1>9, <2>1
    <3> QED
      BY <2>2, <3>1, <3>2
  <2> QED
    BY <2>3, <2>4
<1>21. dropped \subseteq dropped' /\ dropped' \subseteq Number
  BY <1>1, <1>2, <1>3
<1>22. /\ Numbered(messages') /\ Told(messages', dropped')
       /\ Extends(messages, arrived, messages', arrived)
       /\ \A i : Said(messages', i) <=> Said(messages, i)
  <2> PICK new : new = messages'
    OBVIOUS
  <2> PICK lost : lost = dropped'
    OBVIOUS
  <2>1. k + 1 <= MaxMarkers /\ File(messages, arrived) /\ With(messages, new, index, e)
    BY <1>1, <1>2, <1>11, <1>14
  <2>2. \A i \in e.tells : i < e.time
    BY <1>19
  <2>3. \A i \in Number : Said(messages, i) /\ i < e.time => i \in e.tells \cup lost
    BY <1>20
  <2>4. Told(messages, dropped) /\ dropped \subseteq lost
    BY <1>2, <1>21
  <2>5. arrived \in Nat /\ k \in Nat /\ e \in Marker /\ e.id = k + 1 /\ NumberedTo(messages, k)
    BY <1>2, <1>10, <1>11, <1>12
  <2>6. Divides(messages, arrived, new, index, e, k, dropped, lost)
    BY <2>1, <2>2, <2>3, <2>4, <2>5 DEF Divides
  <2> QED
    BY <2>6, DividerTold
<1>23. Grows
  BY <1>1, <1>2, <1>15, <1>21, <1>22 DEF Grows
<1>24. CASE r.overtaken
  <2>1. Does(t, Idle)
    BY <1>1, <1>24
  <2> QED
    BY <1>23, <2>1, IdleOK, TaskKeeps
<1>25. CASE ~r.overtaken
  <2> PICK x : x = InTurn(r, view)
    OBVIOUS
  <2>1. Does(t, x)
    BY <1>1, <1>25
  <2>2. /\ x \in LoopState /\ x.view = view /\ x.since = r.since
        /\ \A s, n : r.since <= n /\ Viewed(x, s) => LoopOK(x, s, n)
    BY <1>3, <1>12, TurnOf
  <2>3. From(view, v, messages')
    <3>1. index \in Dividers(messages') /\ messages'[index] = e
      <4>1. messages'[index] = e
        BY <1>14 DEF With
      <4>2. index \in Dividers(messages')
        BY <1>2, <1>12, <1>14, WithElements
      <4> QED
        BY <4>1, <4>2
    <3> QED
      BY <1>9, <1>11, <1>12, <3>1 DEF From
  <2>4. ASSUME NEW i \in view.said PROVE i >= v /\ Said(messages', i)
    <3>1. i \in r.view.said /\ i >= v
      BY <1>9, <2>4
    <3>2. Said(copy, i)
      BY <1>4, <1>5, <3>1
    <3>3. Said(messages, i)
      BY <1>4, <3>2, KeptParts
    <3> QED
      BY <1>22, <3>1, <3>3
  <2>5. ASSUME NEW i \in v .. r.since, Said(messages', i) PROVE i \in view.said
    <3>1. Said(messages, i) /\ i \in Nat /\ i >= v /\ i >= u /\ i <= r.since
      BY <1>3, <1>8, <1>22, <2>5
    <3>2. i \in Number
      <4>1. r.since <= MaxMessages
        BY <1>2, <1>3, <1>4, SizeAssumption
      <4> QED
        BY <1>3, <1>8, <3>1, <4>1, SizeAssumption DEF Number
    <3> QED
      BY <1>9, <1>18, <3>1, <3>2
  <2>6. Viewed(x, messages')
    BY <1>8, <2>2, <2>3, <2>4, <2>5 DEF Viewed
  <2>7. LoopOK(x, messages', arrived')
    BY <1>1, <1>4, <2>2, <2>6
  <2> QED
    BY <1>23, <2>1, <2>2, <2>7, TaskKeeps
<1> QED
  BY <1>24, <1>25

LEMMA InitHistory ==
  ASSUME HistoryInit
  PROVE  HistoryInv
<1>1. /\ messages = <<>> /\ arrived = 0 /\ dropped = {}
      /\ loop = [t \in Task |-> Idle]
  BY DEF HistoryInit
<1>2. messages \in Seq(Entry \cup Marker) /\ DOMAIN messages = {}
  BY <1>1
<1>3. Dividers(messages) = {} /\ Entries(messages) = {}
  BY <1>2 DEF Dividers, Entries
<1>4. File(messages, arrived)
  BY <1>1, <1>2, <1>3 DEF File
<1>5. Numbered(messages)
  <2>1. NumberedTo(messages, 0) /\ 0 \in 0 .. MaxMarkers
    BY <1>3, SizeAssumption DEF NumberedTo
  <2> QED
    BY <2>1 DEF Numbered
<1>6. Told(messages, dropped)
  BY <1>3 DEF Told
<1>7. \A t \in Task : LoopOK(loop[t], messages, arrived)
  BY <1>1 DEF LoopOK
<1>8. HistoryTypeOK
  <2>1. DOMAIN messages \ Dividers(messages) = {}
    BY <1>2
  <2>2. arrived = Cardinality(DOMAIN messages \ Dividers(messages))
    BY <1>1, <2>1, FS_EmptySet
  <2> QED
    BY <1>1, <1>2, <2>2, SizeAssumption DEF HistoryTypeOK
<1> QED
  BY <1>4, <1>5, <1>6, <1>7, <1>8 DEF HistoryInv

LEMMA NextHistory ==
  ASSUME HistoryInv, [HistoryNext]_historyVars
  PROVE  HistoryInv'
<1>1. CASE ReceiveMessage
  BY <1>1, KeepReceiveMessage
<1>2. ASSUME NEW t \in Task, RunBegins(t) PROVE HistoryInv'
  BY <1>2, KeepRunBegins
<1>3. ASSUME NEW t \in Task, RunRepeats(t) PROVE HistoryInv'
  BY <1>3, KeepRunRepeats
<1>4. ASSUME NEW t \in Task, KeepsHistory(t) PROVE HistoryInv'
  BY <1>4, KeepKeepsHistory
<1>5. ASSUME NEW t \in Task, ToolRecorded(t) PROVE HistoryInv'
  BY <1>5, KeepToolRecorded
<1>6. ASSUME NEW t \in Task, RunEnds(t) PROVE HistoryInv'
  BY <1>6, KeepRunEnds
<1>7. ASSUME NEW t \in Task, Overtaken(t) PROVE HistoryInv'
  BY <1>7, KeepOvertaken
<1>8. ASSUME NEW t \in Task, NEW summarizes \in BOOLEAN, Compacts(t, summarizes)
      PROVE  HistoryInv'
  BY <1>8, KeepCompacts
<1>9. CASE UNCHANGED historyVars
  BY <1>9 DEF historyVars, HistoryInv, HistoryTypeOK, Dividers
<1> QED
  BY <1>1, <1>2, <1>3, <1>4, <1>5, <1>6, <1>7, <1>8, <1>9 DEF HistoryNext

LEMMA HistoryStands == HistorySpec => []HistoryInv
<1>1. HistoryInit => HistoryInv
  BY InitHistory
<1>2. HistoryInv /\ [HistoryNext]_historyVars => HistoryInv'
  BY NextHistory
<1> QED
  BY <1>1, <1>2, PTL DEF HistorySpec

LEMMA NothingIsForgotten ==
  ASSUME HistoryInv
  PROVE  NothingForgotten
<1>1. /\ File(messages, arrived) /\ Told(messages, dropped) /\ arrived \in Nat
      /\ messages \in Seq(Entry \cup Marker)
  BY SizeAssumption DEF HistoryInv, HistoryTypeOK
<1> PICK s : s = messages
  OBVIOUS
<1>2. PICK u \in 0 .. MaxMessages :
           /\ \/ /\ Dividers(s) = {} /\ u = 0
                 /\ ToLLM(s).marker = 0 /\ ToLLM(s).tells = {}
              \/ \E m \in Dividers(s) :
                   /\ ToLLM(s).marker = s[m].id /\ ToLLM(s).tells = s[m].tells
                   /\ u = s[m].time
           /\ \A i : i \in ToLLM(s).said <=> i \in Number /\ i >= u /\ Said(s, i)
           /\ Shown(s) \subseteq Entries(s)
  BY <1>1, ViewIs
<1>3. /\ \A i \in ToLLM(s).tells : i < u
      /\ \A i \in Number : Said(s, i) /\ i < u => i \in ToLLM(s).tells \cup dropped
  BY <1>1, <1>2 DEF Told, Number
<1>4. \A p \in DOMAIN s : s[p].time \in Number
  BY <1>1, ElementTypes
<1>5. ASSUME NEW p \in DOMAIN s, s[p].role \in Spoken
      PROVE  s[p].time \in ToLLM(s).tells \cup ToLLM(s).said \cup dropped
  <2>1. Said(s, s[p].time) /\ s[p].time \in Number /\ (s[p].time < u \/ s[p].time >= u)
    BY <1>2, <1>4, <1>5, SizeAssumption DEF Said, Number
  <2> QED
    BY <1>2, <1>3, <2>1
<1>6. ToLLM(s).tells \cap ToLLM(s).said = {}
  <2>1. \A i \in Number : ~(i < u /\ i >= u)
    BY SizeAssumption DEF Number
  <2> QED
    BY <1>2, <1>3, <2>1
<1>7. \A p, q \in Shown(s) : s[p].time = s[q].time => p = q
  BY <1>1, <1>2 DEF File
<1> QED
  BY <1>5, <1>6, <1>7 DEF NothingForgotten, Reload

LEMMA LiveIsAsReload ==
  ASSUME HistoryInv
  PROVE  LiveIsReload
<1>1. /\ File(messages, arrived) /\ arrived \in Nat
      /\ messages \in Seq(Entry \cup Marker)
  BY SizeAssumption DEF HistoryInv, HistoryTypeOK
<1> PICK s : s = messages
  OBVIOUS
<1>2. PICK u \in 0 .. MaxMessages :
           /\ \/ /\ Dividers(s) = {} /\ u = 0
                 /\ ToLLM(s).marker = 0 /\ ToLLM(s).tells = {}
              \/ \E m \in Dividers(s) :
                   /\ ToLLM(s).marker = s[m].id /\ ToLLM(s).tells = s[m].tells
                   /\ u = s[m].time
           /\ \A i : i \in ToLLM(s).said <=> i \in Number /\ i >= u /\ Said(s, i)
  BY <1>1, ViewIs
<1>3. /\ \A d \in Dividers(s) : s[d].id # 0
      /\ \A c, d \in Dividers(s) : s[c].id = s[d].id => c = d
  BY DEF HistoryInv, Numbered, NumberedTo
<1>4. ASSUME NEW t \in Task, loop[t] # Idle, ToLLM(s).marker = loop[t].view.marker
      PROVE  /\ ToLLM(s).tells = loop[t].view.tells
             /\ {n \in ToLLM(s).said : n <= loop[t].since \/ n \in loop[t].view.said}
                  = loop[t].view.said
  <2> PICK r : r = loop[t]
    OBVIOUS
  <2>1. r \in LoopState /\ Viewed(r, s) /\ r.since \in Nat /\ r.view.said \subseteq Number
    <3>1. r \in LoopState
      BY <1>4, LoopAt
    <3>2. Viewed(r, s)
      BY <1>4 DEF HistoryInv, LoopOK
    <3> QED
      BY <3>1, <3>2, LoopFields
  <2>2. PICK w \in 0 .. MaxMessages :
          /\ From(r.view, w, s)
          /\ \A i \in r.view.said : i >= w /\ Said(s, i)
          /\ \A i \in w .. r.since : Said(s, i) => i \in r.view.said
    BY <2>1 DEF Viewed
  <2>3. w = u /\ ToLLM(s).tells = r.view.tells
    BY <1>2, <1>3, <1>4, <2>2 DEF From
  <2>4. ASSUME NEW n \in ToLLM(s).said, n <= r.since PROVE n \in r.view.said
    <3>1. n \in Number /\ n >= u /\ Said(s, n)
      BY <1>2
    <3>2. n \in u .. r.since
      BY <2>1, <2>4, <3>1, SizeAssumption DEF Number
    <3> QED
      BY <2>2, <2>3, <3>1, <3>2
  <2>5. ASSUME NEW n \in r.view.said PROVE n \in ToLLM(s).said
    BY <1>2, <2>1, <2>2, <2>3
  <2>6. \A n : n \in {m \in ToLLM(s).said : m <= r.since \/ m \in r.view.said} <=> n \in r.view.said
    BY <2>4, <2>5
  <2> QED
    BY <2>3, <2>6
<1> QED
  BY <1>4 DEF LiveIsReload, Reload

LEMMA LivesForgetNothing ==
  ASSUME HistoryInv
  PROVE  LiveForgetsNothing
<1>1. messages \in Seq(Entry \cup Marker) /\ Told(messages, dropped)
  BY DEF HistoryInv, HistoryTypeOK
<1> PICK s : s = messages
  OBVIOUS
<1>2. ASSUME NEW t \in Task, loop[t] # Idle
      PROVE  /\ \A p \in DOMAIN s : s[p].role \in Spoken /\ s[p].time <= loop[t].since =>
                   s[p].time \in loop[t].view.tells \cup loop[t].view.said \cup dropped
             /\ loop[t].view.tells \cap loop[t].view.said = {}
  <2> PICK r : r = loop[t]
    OBVIOUS
  <2>1. r \in LoopState /\ Viewed(r, s)
    <3>1. r \in LoopState
      BY <1>2, LoopAt
    <3>2. Viewed(r, s)
      BY <1>2 DEF HistoryInv, LoopOK
    <3> QED
      BY <3>1, <3>2
  <2>2. r.since \in Nat /\ r.view.said \subseteq Number
    BY <2>1, LoopFields
  <2>3. PICK u \in 0 .. MaxMessages :
          /\ From(r.view, u, s)
          /\ \A i \in r.view.said : i >= u /\ Said(s, i)
          /\ \A i \in u .. r.since : Said(s, i) => i \in r.view.said
    BY <2>1 DEF Viewed
  <2>4. /\ \A i \in r.view.tells : i < u
        /\ \A i \in Number : Said(s, i) /\ i < u => i \in r.view.tells \cup dropped
    <3>1. CASE r.view.tells = {} /\ u = 0
      BY <3>1 DEF Number
    <3>2. ASSUME NEW d \in Dividers(s), s[d].tells = r.view.tells, s[d].time = u
          PROVE  /\ \A i \in r.view.tells : i < u
                 /\ \A i \in Number : Said(s, i) /\ i < u => i \in r.view.tells \cup dropped
      BY <1>1, <3>2 DEF Told
    <3> QED
      BY <2>3, <3>1, <3>2 DEF From
  <2>5. ASSUME NEW p \in DOMAIN s, s[p].role \in Spoken, s[p].time <= r.since
        PROVE  s[p].time \in r.view.tells \cup r.view.said \cup dropped
    <3>1. s[p].time \in Number /\ s[p].time \in Nat /\ Said(s, s[p].time)
      BY <1>1, <2>5, ElementTypes DEF Said
    <3>2. CASE s[p].time < u
      BY <2>4, <3>1, <3>2
    <3>3. CASE ~(s[p].time < u)
      <4>1. s[p].time \in u .. r.since
        BY <2>2, <2>5, <3>1, <3>3
      <4> QED
        BY <2>3, <3>1, <4>1
    <3> QED
      BY <3>2, <3>3
  <2>6. r.view.tells \cap r.view.said = {}
    <3>1. \A i \in Number : ~(i < u /\ i >= u)
      BY SizeAssumption DEF Number
    <3> QED
      BY <2>2, <2>3, <2>4, <3>1
  <2> QED
    BY <2>5, <2>6
<1> QED
  BY <1>2 DEF LiveForgetsNothing

(* The session file has each message once, as many as arrived, and each    *)
(* divider once (append_message, insert_message_at).                       *)
THEOREM HistoryTypeCorrect == HistorySpec => []HistoryTypeOK
<1>1. HistoryInv => HistoryTypeOK
  BY DEF HistoryInv
<1> QED
  BY <1>1, HistoryStands, PTL

(* However many runs compact the history, and whatever arrives meanwhile,  *)
(* a reload of the session has every message that was not dropped on       *)
(* purpose, once: told by the summary or following it                      *)
(* (_run_agent_loop, _stored_messages_to_llm).                             *)
THEOREM CompactionForgetsNothing == HistorySpec => []NothingForgotten
<1>1. HistoryInv => NothingForgotten
  BY NothingIsForgotten
<1> QED
  BY <1>1, HistoryStands, PTL

(* The divider cuts the stored history where the compactor cut the         *)
(* conversation of the run (_stored_compaction_span).                      *)
THEOREM LiveViewIsReload == HistorySpec => []LiveIsReload
<1>1. HistoryInv => LiveIsReload
  BY LiveIsAsReload
<1> QED
  BY <1>1, HistoryStands, PTL

(* What was said before a run read the session is in what its model gets,  *)
(* told or word for word, or was dropped on purpose, whatever other runs   *)
(* compact beside it (_run_agent_loop, compact of both compactors).        *)
THEOREM LiveViewForgetsNothing == HistorySpec => []LiveForgetsNothing
<1>1. HistoryInv => LiveForgetsNothing
  BY LivesForgetNothing
<1> QED
  BY <1>1, HistoryStands, PTL
=============================================================================
