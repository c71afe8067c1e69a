------------------------ MODULE RuntimeManagerProofs ------------------------
(***************************************************************************)
(* Proofs about RuntimeManager, for every set of bundles, addresses, runs  *)
(* and every bound.  The argument: at every suspension point a retired     *)
(* bundle is lent or its address is already marked closed (Settled).  So a *)
(* swap can only make the replaced bundle closable and a release only the  *)
(* released one, the list of a closing loop has at most one element, and   *)
(* the stale rest of the list that could be closed twice is empty.         *)
(***************************************************************************)
EXTENDS RuntimeManager, TLAPS

(* Live bundles have distinct addresses, and everything the manager refers *)
(* to is alive.                                                            *)
Distinct ==
  \A b, c \in Bundle : Alive(b) /\ address[b] = address[c] => b = c

AllAlive ==
  /\ Alive(active)
  /\ \A b \in retired : Alive(b)
  /\ \A c \in Closer :
       /\ frame[c].now # None => Alive(frame[c].now)
       /\ \A b \in frame[c].rest : Alive(b)

(* A lease is on the active bundle or on a retired one. *)
LentKept ==
  /\ active \notin retired
  /\ \A r \in Run : lease[r].state = "leased" =>
       lease[r].bundle \in retired \cup {active}

Settled == \A b \in retired : b \in Lent(lease) \/ address[b] \in closed

(* Only the shutdown loop ever has more than one bundle on its list.       *)
NoStaleRest ==
  /\ \A c \in Run \cup {"select"} : frame[c].rest = {}
  /\ frame["shutdown"].now # None => stopping

Counted ==
  \A b \in Bundle :
    /\ closeCalls[b] <= 1
    /\ closeCalls[b] = 1 /\ Alive(b) => address[b] \in closed

Open == ~stopping => \A b \in retired \cup {active} : closeCalls[b] = 0

(* A mark in _closed hits an open bundle of the manager only if the bundle *)
(* was born under it.                                                      *)
OwnMarks ==
  ~stopping =>
    \A b \in retired \cup {active} : address[b] \in closed => b \in mistaken

Inv ==
  /\ TypeOK
  /\ Distinct
  /\ AllAlive
  /\ LentKept
  /\ Settled
  /\ NoStaleRest
  /\ Counted
  /\ Open
  /\ OwnMarks

USE BundleAssumption, AddressAssumption, RuntimeAssumption, RunAssumption,
    BoundAssumption

LEMMA InitInv == Init => Inv
<1> SUFFICES ASSUME Init PROVE Inv
  OBVIOUS
<1> USE DEF Init
<1>1. TypeOK
  <2>1. lease \in [Run -> Lease]
    BY DEF Lease, NoLease
  <2>2. frame \in [Closer -> Frame]
    BY DEF Frame, Idle
  <2>3. address \in [Bundle -> Address \cup {None}] /\ usedBefore \subseteq Address
    OBVIOUS
  <2>4. runtime \in [Bundle -> Runtime] /\ configured \in Runtime
    OBVIOUS
  <2> QED
    BY <2>1, <2>2, <2>3, <2>4 DEF TypeOK
<1>2. Distinct /\ AllAlive
  BY DEF Distinct, AllAlive, Alive, Idle
<1>3. LentKept /\ Settled /\ NoStaleRest
  BY DEF LentKept, Settled, NoStaleRest, NoLease, Idle, Closer
<1>4. Counted /\ Open /\ OwnMarks
  BY DEF Counted, Open, OwnMarks, Alive
<1> QED
  BY <1>1, <1>2, <1>3, <1>4 DEF Inv

(* The bundles that become closable when the active bundle is replaced.    *)
LEMMA SwapClosable ==
  ASSUME Inv
  PROVE  Closable(retired \cup {active}, lease) \subseteq {active}
BY DEF Inv, Settled, Closable, Lent

(* ... and when a run gives back its lease.                                *)
LEMMA ReleaseClosable ==
  ASSUME Inv, NEW r \in Run, lease[r].state = "leased",
         NEW ctx \in Lease, ctx.state = "leased", ctx.bundle = lease[r].bundle
  PROVE  LET ls == [lease EXCEPT ![r] = [ctx EXCEPT !.state = "gone"]] IN
         /\ Leased(ls) = Leased(lease) \ {r}
         /\ Lent(lease) = Lent(ls) \cup {lease[r].bundle}
         /\ Closable(retired, ls) \subseteq {lease[r].bundle}
<1> DEFINE ls == [lease EXCEPT ![r] = [ctx EXCEPT !.state = "gone"]]
<1>1. /\ lease \in [Run -> Lease]
      /\ ls \in [Run -> Lease]
      /\ ls[r].state = "gone"
      /\ \A q \in Run : q # r => ls[q] = lease[q]
  BY DEF Inv, TypeOK, Lease
<1>2. Leased(ls) = Leased(lease) \ {r}
  BY <1>1 DEF Leased
<1>3. Lent(lease) = Lent(ls) \cup {lease[r].bundle}
  BY <1>1, <1>2 DEF Lent, Leased
<1>4. Closable(retired, ls) \subseteq {lease[r].bundle}
  BY <1>3 DEF Closable, Inv, Settled
<1> QED
  BY <1>2, <1>3, <1>4

(* A run gives back a share of its lease and perhaps closes its bundle.    *)
LEMMA MaybeReleaseStep ==
  ASSUME Inv, NEW r \in Run, lease[r].state = "leased",
         NEW ctx \in Lease, ctx.state = "leased", ctx.bundle = lease[r].bundle,
         MaybeRelease(r, ctx),
         UNCHANGED <<address, runtime, available, active, configured, failed,
                     usedBefore, mistaken, selection, serving, stopping>>
  PROVE  Inv'
<1> USE DEF Inv
<1>0. lease \in [Run -> Lease] /\ r \in Closer /\ r # "shutdown" /\ r # "select"
  BY DEF TypeOK, Closer
<1>1. CASE ctx.owner \/ ctx.callbacks > 0
  <2>1. /\ lease' = [lease EXCEPT ![r] = ctx]
        /\ UNCHANGED <<retired, closed, closeCalls, frame>>
    BY <1>1 DEF MaybeRelease
  <2>2. lease' \in [Run -> Lease] /\ Lent(lease') = Lent(lease)
    BY <2>1, <1>0 DEF Lent, Leased
  <2>3. TypeOK'
    BY <2>1, <2>2 DEF TypeOK
  <2>4. Settled' /\ LentKept'
    BY <2>1, <2>2, <1>0 DEF Settled, LentKept, Lent, Leased
  <2> QED
    BY <2>1, <2>3, <2>4
    DEF Distinct, AllAlive, Alive, NoStaleRest, Counted, Open, OwnMarks
<1>2. CASE ~(ctx.owner \/ ctx.callbacks > 0)
  <2> DEFINE ls == [lease EXCEPT ![r] = [ctx EXCEPT !.state = "gone"]]
             b == lease[r].bundle
             todo == Closable(retired, ls)
  <2>1. lease' = ls /\ CloseLoop(r, retired, todo)
    BY <1>2 DEF MaybeRelease, CloseUnusedRetired
  <2>2. /\ Leased(ls) = Leased(lease) \ {r}
        /\ Lent(lease) = Lent(ls) \cup {b}
        /\ todo \subseteq {b}
    BY ReleaseClosable
  <2>3. ls \in [Run -> Lease] /\ \A q \in Run : q # r => ls[q] = lease[q]
    BY <1>0 DEF Lease
  <2>4. b \in retired \cup {active} /\ b \in Bundle
    BY DEF LentKept, TypeOK
  <2>5. LentKept' \/ retired' # retired
    BY <2>1, <2>2, <2>3 DEF LentKept, Leased
  <2>6. CASE todo = {}
    <3>1. /\ frame' = [frame EXCEPT ![r] = Idle]
          /\ retired' = retired
          /\ UNCHANGED <<closed, closeCalls>>
      BY <2>1, <2>6 DEF CloseLoop
    <3>2. TypeOK'
      BY <3>1, <2>1, <2>3, <1>0 DEF TypeOK, Frame, Idle
    <3>3. AllAlive' /\ NoStaleRest'
      BY <3>1, <1>0 DEF AllAlive, NoStaleRest, Alive, Idle, TypeOK, Closer
    <3>4. Settled'
      <4> SUFFICES ASSUME NEW x \in retired, x \notin Lent(ls),
                          address[x] \notin closed
                   PROVE  FALSE
        BY <3>1, <2>1 DEF Settled
      <4>1. x = b /\ x \notin todo
        BY <2>2, <2>6 DEF Settled
      <4>2. PICK y \in Lent(ls) : address[y] = address[x]
        BY <4>1 DEF Closable
      <4>3. y \in Bundle /\ x \in Bundle
        BY <4>2, <2>2, LentKept, TypeOK DEF LentKept, TypeOK, Lent, Leased
      <4> QED
        BY <4>2, <4>3 DEF Distinct, AllAlive
    <3> QED
      BY <3>1, <3>2, <3>3, <3>4, <2>5
      DEF Distinct, Counted, Open, OwnMarks, Alive
  <2>7. CASE todo # {}
    <3>1. /\ b \in todo
          /\ EnterClose(r, b, todo \ {b})
          /\ retired' = retired \ {b}
          /\ todo \ {b} = {}
      BY <2>1, <2>2, <2>7 DEF CloseLoop
    <3>2. /\ closed' = closed \cup {address[b]}
          /\ closeCalls' = [closeCalls EXCEPT ![b] = @ + 1]
          /\ frame' = [frame EXCEPT ![r] = [now |-> b, rest |-> {}]]
      BY <3>1 DEF EnterClose
    <3>3. b \in retired /\ address[b] \notin closed /\ Alive(b) /\ b \notin Lent(ls)
      BY <3>1 DEF Closable, AllAlive
    <3>4. closeCalls[b] = 0
      BY <3>3, <2>4 DEF Counted, TypeOK
    <3>5. TypeOK'
      BY <3>1, <3>2, <2>1, <2>3, <2>4, <1>0, <3>3 DEF TypeOK, Frame, Alive
    <3>6. AllAlive' /\ NoStaleRest' /\ Distinct'
      BY <3>1, <3>2, <3>3, <1>0
      DEF AllAlive, NoStaleRest, Alive, TypeOK, Closer, Distinct
    <3>7. LentKept'
      BY <2>1, <2>2, <2>3, <3>1, <3>3 DEF LentKept, Leased, Lent
    <3>8. Settled'
      BY <2>1, <2>2, <3>1, <3>2 DEF Settled
    <3>9. Counted'
      BY <3>2, <3>4, <2>4 DEF Counted, TypeOK, Alive
    <3>10. Open'
      BY <3>1, <3>2, <3>3, <2>4 DEF Open, TypeOK, LentKept
    <3>11. OwnMarks'
      <4>1. active # b /\ \A x \in retired \cup {active} : x # b => address[x] # address[b]
        BY <3>3, <2>4 DEF LentKept, Distinct, AllAlive, TypeOK
      <4> QED
        BY <3>1, <3>2, <3>3, <2>4, <4>1 DEF OwnMarks, TypeOK, Alive
    <3> QED
      BY <3>5, <3>6, <3>7, <3>8, <3>9, <3>10, <3>11
  <2> QED
    BY <2>6, <2>7
<1> QED
  BY <1>1, <1>2

(* A constructed candidate replaces the active bundle.                     *)
LEMMA SwapStep ==
  ASSUME Inv, NEW new \in Bundle, NEW rt \in Runtime, NEW avail \in BOOLEAN,
         Construct(new, rt, avail), Swap(new), failed' \in BOOLEAN
  PROVE  Inv'
<1> USE DEF Inv
<1> DEFINE old == active
           ret == retired \cup {old}
           todo == Closable(ret, lease)
<1>1. PICK a \in Address :
        /\ \A c \in Bundle : address[c] # a
        /\ AddressReuse \/ a \notin usedBefore
        /\ address' = [address EXCEPT ![new] = a]
        /\ usedBefore' = usedBefore \cup {a}
        /\ mistaken' = IF a \in closed THEN mistaken \cup {new} ELSE mistaken
  BY DEF Construct
<1>2. /\ address[new] = None
      /\ closeCalls[new] = 0
      /\ runtime' = [runtime EXCEPT ![new] = rt]
      /\ available' = [available EXCEPT ![new] = avail]
  BY DEF Construct
<1>3. /\ active' = new
      /\ CloseLoop("select", ret, todo)
      /\ selection' = "idle"
      /\ UNCHANGED <<configured, lease, serving, stopping>>
  BY DEF Swap, CloseUnusedRetired
<1>4. new \notin ret /\ ret \subseteq Bundle /\ ~Alive(new)
  BY <1>2 DEF AllAlive, Alive, TypeOK
<1>5. /\ address'[new] = a
      /\ \A b \in Bundle : b # new => address'[b] = address[b]
      /\ a # None
  BY <1>1 DEF TypeOK
<1>6. Distinct'
  BY <1>1, <1>5 DEF Distinct, Alive
<1>7. "select" \in Closer /\ "select" # "shutdown"
  BY DEF Closer
<1>8. todo \subseteq {old}
  BY SwapClosable
<1>9. CASE todo = {}
  <2>1. /\ frame' = [frame EXCEPT !["select"] = Idle]
        /\ retired' = ret
        /\ UNCHANGED <<closed, closeCalls>>
    BY <1>3, <1>9 DEF CloseLoop
  <2>2. TypeOK'
    BY <1>1, <1>2, <1>3, <1>4, <1>7, <2>1 DEF TypeOK, Frame, Idle
  <2>3. AllAlive'
    <3>1. \A b \in Bundle : Alive(b) => Alive(b)'
      BY <1>5 DEF Alive
    <3>2. Alive(active)' /\ \A b \in retired' : Alive(b)'
      BY <3>1, <1>3, <1>4, <1>5, <2>1 DEF AllAlive, Alive
    <3>3. \A c \in Closer : frame'[c] = frame[c] \/ frame'[c] = Idle
      BY <2>1, <1>7 DEF TypeOK
    <3> QED
      BY <3>1, <3>2, <3>3 DEF AllAlive, Idle, TypeOK, Frame
  <2>4. NoStaleRest'
    BY <2>1, <1>3, <1>7 DEF NoStaleRest, Idle, TypeOK, Closer
  <2>5. LentKept'
    BY <1>3, <1>4, <2>1 DEF LentKept
  <2>6. Settled'
    <3>1. \A b \in ret : b \in Lent(lease) \/ address[b] \in closed
      <4> SUFFICES ASSUME NEW x \in ret, x \notin Lent(lease),
                          address[x] \notin closed
                   PROVE  FALSE
        OBVIOUS
      <4>1. PICK y \in Lent(lease) : address[y] = address[x]
        BY <1>9 DEF Closable
      <4>2. y \in Bundle /\ x \in Bundle
        BY <4>1, <1>4 DEF LentKept, TypeOK, Lent, Leased
      <4> QED
        BY <4>1, <4>2 DEF Distinct, AllAlive
    <3> QED
      BY <3>1, <1>3, <1>4, <1>5, <2>1 DEF Settled
  <2>7. Counted' /\ Open'
    BY <1>2, <1>3, <1>4, <1>5, <2>1 DEF Counted, Open, Alive
  <2>8. OwnMarks'
    BY <1>1, <1>3, <1>4, <1>5, <2>1 DEF OwnMarks, Alive, TypeOK
  <2> QED
    BY <1>6, <2>2, <2>3, <2>4, <2>5, <2>6, <2>7, <2>8
<1>10. CASE todo # {}
  <2>1. /\ old \in todo
        /\ EnterClose("select", old, todo \ {old})
        /\ retired' = retired
        /\ todo \ {old} = {}
    BY <1>3, <1>8, <1>10 DEF CloseLoop, LentKept
  <2>2. /\ closed' = closed \cup {address[old]}
        /\ closeCalls' = [closeCalls EXCEPT ![old] = @ + 1]
        /\ frame' = [frame EXCEPT !["select"] = [now |-> old, rest |-> {}]]
    BY <2>1 DEF EnterClose
  <2>3. /\ address[old] \notin closed
        /\ address[old] \in Address
        /\ Alive(old)
        /\ old \notin Lent(lease)
        /\ old \in Bundle /\ old # new
    BY <2>1, <1>4 DEF Closable, AllAlive, TypeOK, Alive
  <2>4. closeCalls[old] = 0
    BY <2>3 DEF Counted, TypeOK
  <2>5. TypeOK'
    BY <1>1, <1>2, <1>3, <1>7, <2>1, <2>2, <2>3, <2>4 DEF TypeOK, Frame
  <2>6. AllAlive'
    <3>1. \A b \in Bundle : Alive(b) => Alive(b)'
      BY <1>5 DEF Alive
    <3>2. Alive(active)' /\ \A b \in retired' : Alive(b)'
      BY <3>1, <1>3, <1>4, <1>5, <2>1 DEF AllAlive, Alive
    <3>3. \A c \in Closer :
            frame'[c] = frame[c] \/ frame'[c] = [now |-> old, rest |-> {}]
      BY <2>2, <1>7 DEF TypeOK
    <3> QED
      BY <3>1, <3>2, <3>3, <2>3 DEF AllAlive, TypeOK, Frame
  <2>7. NoStaleRest'
    BY <2>2, <1>3, <1>7 DEF NoStaleRest, TypeOK, Closer
  <2>8. LentKept'
    BY <1>3, <1>4, <2>1, <2>3 DEF LentKept, Lent, Leased
  <2>9. Settled'
    BY <1>3, <1>4, <1>5, <2>1, <2>2 DEF Settled
  <2>10. Counted'
    BY <1>2, <1>5, <2>2, <2>3, <2>4 DEF Counted, TypeOK, Alive
  <2>11. Open'
    BY <1>2, <1>3, <1>4, <2>1, <2>2, <2>3 DEF Open, LentKept, TypeOK
  <2>12. OwnMarks'
    <3>1. \A x \in retired : address[x] # address[old]
      BY <2>3 DEF LentKept, Distinct, AllAlive, TypeOK
    <3>2. address'[new] = a /\ a # address[old]
      BY <1>1, <1>5, <2>3
    <3> QED
      BY <1>1, <1>3, <1>4, <1>5, <2>1, <2>2, <2>3, <3>1, <3>2
      DEF OwnMarks, TypeOK, Alive
  <2> QED
    BY <1>6, <2>5, <2>6, <2>7, <2>8, <2>9, <2>10, <2>11, <2>12
<1> QED
  BY <1>9, <1>10

(* One turn of the shutdown loop, which looks at _closed before it closes. *)
LEMMA ShutdownStep ==
  ASSUME Inv, NEW todo \in SUBSET Bundle, \A b \in todo : Alive(b),
         ShutdownLoop(todo), stopping',
         UNCHANGED <<address, runtime, available, active, configured, failed,
                     retired, usedBefore, mistaken, lease, selection, serving>>
  PROVE  Inv'
<1> USE DEF Inv
<1>1. "shutdown" \in Closer /\ "shutdown" \notin Run \cup {"select"}
  BY DEF Closer
<1> DEFINE open == {b \in todo : address[b] \notin closed}
<1>2. CASE open = {}
  <2>1. frame' = [frame EXCEPT !["shutdown"] = Idle] /\ UNCHANGED <<closed, closeCalls>>
    BY <1>2 DEF ShutdownLoop
  <2>2. TypeOK'
    BY <2>1, <1>1 DEF TypeOK, Frame, Idle
  <2>3. AllAlive' /\ NoStaleRest'
    BY <2>1, <1>1 DEF AllAlive, NoStaleRest, Alive, Idle, TypeOK, Closer
  <2> QED
    BY <2>1, <2>2, <2>3
    DEF Distinct, LentKept, Settled, Lent, Leased, Counted, Open, OwnMarks, Alive
<1>3. CASE open # {}
  <2>1. PICK b \in open : EnterClose("shutdown", b, todo \ {b})
    BY <1>3 DEF ShutdownLoop
  <2>2. /\ closed' = closed \cup {address[b]}
        /\ closeCalls' = [closeCalls EXCEPT ![b] = @ + 1]
        /\ frame' = [frame EXCEPT !["shutdown"] = [now |-> b, rest |-> todo \ {b}]]
    BY <2>1 DEF EnterClose
  <2>3. b \in Bundle /\ Alive(b) /\ address[b] \in Address /\ closeCalls[b] = 0
    BY <2>1 DEF TypeOK, Alive, Counted
  <2>4. TypeOK'
    BY <2>2, <2>3, <1>1 DEF TypeOK, Frame
  <2>5. AllAlive' /\ NoStaleRest'
    BY <2>2, <2>3, <1>1 DEF AllAlive, NoStaleRest, Alive, TypeOK, Closer
  <2>6. Counted'
    BY <2>2, <2>3 DEF Counted, TypeOK, Alive
  <2>7. OwnMarks'
    BY <2>2, <2>3 DEF OwnMarks, TypeOK, Alive
  <2> QED
    BY <2>2, <2>4, <2>5, <2>6, <2>7
    DEF Distinct, LentKept, Settled, Lent, Leased, Open, Alive
<1> QED
  BY <1>2, <1>3

LEMMA NextInv == Inv /\ [Next]_vars => Inv'
<1> SUFFICES ASSUME Inv, [Next]_vars PROVE Inv'
  OBVIOUS
<1> USE DEF Inv
<1>1. ASSUME NEW rt \in Runtime, SelectBegins(rt) PROVE Inv'
  BY <1>1 DEF SelectBegins, TypeOK, Distinct, AllAlive, Alive, LentKept,
       Settled, Lent, Leased, NoStaleRest, Counted, Open, OwnMarks
<1>2. ASSUME NEW b \in Bundle, SelectSucceeds(b) PROVE Inv'
  <2>1. configured \in Runtime /\ failed' \in BOOLEAN
    BY <1>2 DEF TypeOK, SelectSucceeds
  <2> QED
    BY <1>2, <2>1, SwapStep DEF SelectSucceeds
<1>3. CASE ReloadFails
  BY <1>3 DEF ReloadFails, TypeOK, Distinct, AllAlive, Alive, LentKept,
       Settled, Lent, Leased, NoStaleRest, Counted, Open, OwnMarks
<1>4. ASSUME NEW b \in Bundle, StartupFails(b) PROVE Inv'
  <2>1. configured \in Runtime /\ failed' \in BOOLEAN
    BY <1>4 DEF TypeOK, StartupFails
  <2> QED
    BY <1>4, <2>1, SwapStep DEF StartupFails
<1>5. CASE Serve
  BY <1>5 DEF Serve, TypeOK, Distinct, AllAlive, Alive, LentKept,
       Settled, Lent, Leased, NoStaleRest, Counted, Open, OwnMarks
<1>6. ASSUME NEW r \in Run, AcquireRun(r) PROVE Inv'
  <2>1. lease' \in [Run -> Lease] /\ Lent(lease) \subseteq Lent(lease')
    BY <1>6 DEF AcquireRun, TypeOK, Lease, Lent, Leased
  <2>2. LentKept'
    BY <1>6 DEF AcquireRun, LentKept, TypeOK
  <2> QED
    BY <1>6, <2>1, <2>2 DEF AcquireRun, TypeOK, Distinct, AllAlive, Alive,
         Settled, NoStaleRest, Counted, Open, OwnMarks
<1>7. ASSUME NEW r \in Run, EnterCallback(r) PROVE Inv'
  <2>1. lease' \in [Run -> Lease]
    BY <1>7 DEF EnterCallback, TypeOK, Lease
  <2>2. Lent(lease') = Lent(lease) /\ LentKept'
    BY <1>7 DEF EnterCallback, TypeOK, Lease, Lent, Leased, LentKept
  <2> QED
    BY <1>7, <2>1, <2>2 DEF EnterCallback, TypeOK, Distinct, AllAlive, Alive,
         Settled, NoStaleRest, Counted, Open, OwnMarks
<1>8. ASSUME NEW r \in Run, ExitCallback(r) PROVE Inv'
  <2> DEFINE ctx == [lease[r] EXCEPT !.callbacks = @ - 1]
  <2>1. ctx \in Lease /\ ctx.state = "leased" /\ ctx.bundle = lease[r].bundle
    BY <1>8 DEF ExitCallback, TypeOK, Lease
  <2> QED
    BY <1>8, <2>1, MaybeReleaseStep DEF ExitCallback
<1>9. ASSUME NEW r \in Run, ReleaseRun(r) PROVE Inv'
  <2> DEFINE ctx == [lease[r] EXCEPT !.owner = FALSE]
  <2>1. ctx \in Lease /\ ctx.state = "leased" /\ ctx.bundle = lease[r].bundle
    BY <1>9 DEF ReleaseRun, TypeOK, Lease
  <2> QED
    BY <1>9, <2>1, MaybeReleaseStep DEF ReleaseRun
<1>10. ASSUME NEW c \in Closer, CloseReturns(c) PROVE Inv'
  <2>1. frame[c].rest = {}
    BY <1>10 DEF CloseReturns, NoStaleRest, Closer
  <2>2. /\ frame' = [frame EXCEPT ![c] = Idle]
        /\ UNCHANGED <<retired, closed, closeCalls>>
    BY <1>10, <2>1 DEF CloseReturns, CloseLoop
  <2>3. frame' \in [Closer -> Frame]
    BY <2>2 DEF TypeOK, Frame, Idle
  <2>4. AllAlive' /\ NoStaleRest'
    BY <1>10, <2>2
    DEF CloseReturns, AllAlive, NoStaleRest, Alive, Idle, TypeOK, Closer
  <2> QED
    BY <1>10, <2>2, <2>3, <2>4 DEF CloseReturns, TypeOK, Distinct, LentKept,
         Settled, Lent, Leased, Counted, Open, OwnMarks, Alive
<1>11. CASE ShutdownBegins
  <2>1. \A b \in {active} \cup retired : b \in Bundle /\ Alive(b)
    BY DEF TypeOK, AllAlive
  <2> QED
    BY <1>11, <2>1, ShutdownStep DEF ShutdownBegins
<1>12. CASE ShutdownContinues
  <2>1. "shutdown" \in Closer
    BY DEF Closer
  <2>2. \A b \in frame["shutdown"].rest : b \in Bundle /\ Alive(b)
    BY <2>1 DEF TypeOK, AllAlive, Frame
  <2>3. stopping /\ stopping'
    BY <1>12 DEF ShutdownContinues, NoStaleRest
  <2> QED
    BY <1>12, <2>2, <2>3, ShutdownStep DEF ShutdownContinues
<1>13. CASE ShutdownAborts
  <2>1. "shutdown" \in Closer /\ "shutdown" \notin Run \cup {"select"}
    BY DEF Closer
  <2>2. frame' \in [Closer -> Frame] /\ AllAlive' /\ NoStaleRest'
    BY <1>13, <2>1 DEF ShutdownAborts, TypeOK, Frame, Idle, AllAlive,
         NoStaleRest, Alive, Closer
  <2> QED
    BY <1>13, <2>2 DEF ShutdownAborts, TypeOK, Distinct, LentKept, Settled,
         Lent, Leased, Counted, Open, OwnMarks, Alive
<1>14. ASSUME NEW b \in Bundle, Reclaim(b) PROVE Inv'
  <2>1. /\ address' = [address EXCEPT ![b] = None]
        /\ b # active /\ b \notin retired /\ b \notin Lent(lease)
        /\ \A c \in Closer : b # frame[c].now /\ b \notin frame[c].rest
    BY <1>14 DEF Reclaim, Referenced
  <2>2. \A x \in Bundle : x # b => address'[x] = address[x]
    BY <2>1 DEF TypeOK
  <2>3. address' \in [Bundle -> Address \cup {None}] /\ address'[b] = None
    BY <2>1 DEF TypeOK
  <2>4. Distinct' /\ Counted' /\ OwnMarks'
    BY <1>14, <2>1, <2>2, <2>3
    DEF Reclaim, Distinct, Counted, OwnMarks, Alive, TypeOK
  <2>5. AllAlive'
    BY <1>14, <2>1, <2>2 DEF Reclaim, AllAlive, Alive, TypeOK, Frame
  <2>6. Settled'
    BY <1>14, <2>1, <2>2 DEF Reclaim, Settled, Lent, Leased, TypeOK
  <2> QED
    BY <1>14, <2>3, <2>4, <2>5, <2>6
    DEF Reclaim, TypeOK, LentKept, NoStaleRest, Open
<1>15. CASE UNCHANGED vars
  BY <1>15 DEF vars, TypeOK, Distinct, AllAlive, Alive, LentKept,
       Settled, Lent, Leased, NoStaleRest, Counted, Open, OwnMarks
<1> QED
  BY <1>1, <1>2, <1>3, <1>4, <1>5, <1>6, <1>7, <1>8, <1>9, <1>10, <1>11,
     <1>12, <1>13, <1>14, <1>15 DEF Next

(* The inductive invariant holds in every reachable state.                 *)
LEMMA SpecInv == Spec => []Inv
<1> QED
  BY InitInv, NextInv, PTL DEF Spec

(* Every state of every behaviour of the manager is well typed.            *)
THEOREM TypeCorrect == Spec => []TypeOK
<1>1. Inv => TypeOK
  BY DEF Inv
<1> QED
  BY <1>1, SpecInv, PTL

(* No reload, release or closing loop closes a bundle in use.              *)
THEOREM InUseSafety == Spec => []InUseNeverClosed
<1>1. Inv => InUseNeverClosed
  BY DEF Inv, InUseNeverClosed, Open, LentKept, Lent, Leased
<1> QED
  BY <1>1, SpecInv, PTL

(* aclose() runs at most once on each bundle, even when id() of a freed    *)
(* bundle is handed to a later one and even across shutdown.               *)
THEOREM CloseOnce == Spec => []ClosedAtMostOnce
<1>1. Inv => ClosedAtMostOnce
  BY DEF Inv, ClosedAtMostOnce, Counted
<1> QED
  BY <1>1, SpecInv, PTL

(* A retired bundle is lent, or was born at an address under which an      *)
(* earlier one was closed: whether or not addresses come back.             *)
THEOREM RetiredAreLent == Spec => []NoIdleRetired
<1>1. Inv => NoIdleRetired
  BY DEF Inv, NoIdleRetired, Settled, OwnMarks
<1> QED
  BY <1>1, SpecInv, PTL
=============================================================================
