--------------------------- MODULE RuntimeManager ---------------------------
(***************************************************************************)
(* The RuntimeManager of dataclaw/providers/agent/factory.py: it publishes *)
(* one immutable RuntimeBundle at a time, lends the published bundle to    *)
(* the runs that start, retires a replaced bundle and closes it when its   *)
(* last lease is gone.                                                     *)
(*                                                                         *)
(* Everything runs on one event loop, so a step of this module is the code *)
(* between two real suspension points: the build of a candidate bundle and *)
(* every `await bundle.aclose()'.  The manager's own _lock guards a body   *)
(* without an await and is never contended, so it does not appear.         *)
(***************************************************************************)
EXTENDS Naturals, FiniteSets

CONSTANTS
  Bundle,        \* RuntimeBundle objects that may ever be constructed
  Provisional,   \* the one constructed before startup selection
  Address,       \* values id() may return
  Runtime,       \* configurable runtime names
  Run,           \* run leases (ActiveRunContext objects)
  MaxCallbacks,  \* bound: callbacks inside callback_scope per run
  AddressReuse,  \* may id() of a freed bundle be handed to a later one?
  None

ASSUME BundleAssumption  == Provisional \in Bundle /\ None \notin Bundle
ASSUME AddressAssumption == Address # {} /\ None \notin Address
ASSUME RuntimeAssumption == Runtime # {}
ASSUME RunAssumption     == {"select", "shutdown"} \cap Run = {}
ASSUME BoundAssumption   == MaxCallbacks \in Nat /\ AddressReuse \in BOOLEAN

VARIABLES
  address,     \* id(b) while b is alive, None before and after
  runtime,     \* identity.runtime of each constructed bundle
  available,   \* availability of each constructed bundle
  active,      \* active_bundle
  configured,  \* configured_runtime
  failed,      \* last_selection_error is not None
  retired,     \* values of _retired
  closed,      \* _closed: addresses, not bundles
  usedBefore,  \* history: addresses some bundle has had
  mistaken,    \* history: bundles born at an address already in _closed
  lease,       \* _runs: the context of each run
  selection,   \* where select() stands: "startup", "idle", "building"
  serving,     \* the lifespan has yielded, requests are accepted
  stopping,    \* aclose() of the manager has begun
  frame,       \* the closing loop each closer is suspended in
  closeCalls   \* history: calls of b.aclose()

vars == <<address, runtime, available, active, configured, failed, retired,
          closed, usedBefore, mistaken, lease, selection, serving, stopping,
          frame, closeCalls>>

(* Who can be suspended in `await bundle.aclose()': the holder of the      *)
(* selection lock, the task that gave back the last share of a run, and    *)
(* the lifespan's shutdown.                                                *)
Closer == Run \cup {"select", "shutdown"}

NoLease == [state |-> "new", bundle |-> None, owner |-> FALSE, callbacks |-> 0]
Idle    == [now |-> None, rest |-> {}]

Lease ==
  [state: {"new", "leased", "gone"}, bundle: Bundle \cup {None},
   owner: BOOLEAN, callbacks: Nat]
Frame == [now: Bundle \cup {None}, rest: SUBSET Bundle]

Alive(b)   == address[b] # None
Leased(ls) == {r \in Run : ls[r].state = "leased"}
Lent(ls)   == {ls[r].bundle : r \in Leased(ls)}

TypeOK ==
  /\ address \in [Bundle -> Address \cup {None}]
  /\ runtime \in [Bundle -> Runtime]
  /\ available \in [Bundle -> BOOLEAN]
  /\ active \in Bundle
  /\ configured \in Runtime
  /\ failed \in BOOLEAN
  /\ retired \subseteq Bundle
  /\ closed \subseteq Address
  /\ usedBefore \subseteq Address
  /\ mistaken \subseteq Bundle
  /\ lease \in [Run -> Lease]
  /\ selection \in {"startup", "idle", "building"}
  /\ serving \in BOOLEAN
  /\ stopping \in BOOLEAN
  /\ frame \in [Closer -> Frame]
  /\ closeCalls \in [Bundle -> Nat]

Init ==
  /\ \E a \in Address :
       /\ address = [b \in Bundle |-> IF b = Provisional THEN a ELSE None]
       /\ usedBefore = {a}
  /\ \E r \in Runtime : runtime = [b \in Bundle |-> r] /\ configured = r
  /\ available = [b \in Bundle |-> TRUE]
  /\ active = Provisional
  /\ failed = FALSE
  /\ retired = {}
  /\ closed = {}
  /\ mistaken = {}
  /\ lease = [r \in Run |-> NoLease]
  /\ selection = "startup"
  /\ serving = FALSE
  /\ stopping = FALSE
  /\ frame = [c \in Closer |-> Idle]
  /\ closeCalls = [b \in Bundle |-> 0]

-----------------------------------------------------------------------------
(* The retirement protocol *)

(* The list `closable' is computed once; its first element is marked,      *)
(* forgotten and closed before the first suspension, the rest of the list  *)
(* stays in the frame of the suspended loop.                               *)
\* Mutant: a replaced bundle is closed whether or not a run still uses it.
Closable_IgnoresLeases(ret, ls) == {b \in ret : address[b] \notin closed}

Closable(ret, ls) ==
  {b \in ret : /\ address[b] \notin {address[c] : c \in Lent(ls)}
               /\ address[b] \notin closed}

EnterClose(c, b, rest) ==
  /\ closed' = closed \cup {address[b]}
  /\ closeCalls' = [closeCalls EXCEPT ![b] = @ + 1]
  /\ frame' = [frame EXCEPT ![c] = [now |-> b, rest |-> rest]]

(* One turn of the loop: close the next bundle of the list, or leave.       *)
CloseLoop(c, ret, todo) ==
  IF todo = {}
  THEN /\ frame' = [frame EXCEPT ![c] = Idle]
       /\ retired' = ret
       /\ UNCHANGED <<closed, closeCalls>>
  ELSE \E b \in todo :
         /\ EnterClose(c, b, todo \ {b})
         /\ retired' = ret \ {b}

CloseUnusedRetired(c, ret, ls) == CloseLoop(c, ret, Closable(ret, ls))

(* `await bundle.aclose()' returned (or raised, which is logged): the loop *)
(* goes on with the list it computed before it suspended.                  *)
CloseReturns(c) ==
  /\ c # "shutdown"
  /\ frame[c].now # None
  /\ CloseLoop(c, retired, frame[c].rest)
  /\ UNCHANGED <<address, runtime, available, active, configured, failed,
                 usedBefore, mistaken, lease, selection, serving, stopping>>

-----------------------------------------------------------------------------
(* Selection *)

(* A new RuntimeBundle object is constructed at some address no live       *)
(* bundle occupies.                                                        *)
Construct(b, rt, avail) ==
  /\ address[b] = None
  /\ closeCalls[b] = 0
  /\ \E a \in Address :
       /\ \A c \in Bundle : address[c] # a
       /\ AddressReuse \/ a \notin usedBefore
       /\ address' = [address EXCEPT ![b] = a]
       /\ usedBefore' = usedBefore \cup {a}
       /\ mistaken' = IF a \in closed THEN mistaken \cup {b} ELSE mistaken
  /\ runtime' = [runtime EXCEPT ![b] = rt]
  /\ available' = [available EXCEPT ![b] = avail]

(* select(): take _selection_lock, read the configuration and begin to     *)
(* build the candidate.  The lock is held until the swap has closed what   *)
(* it can.                                                                 *)
SelectBegins(rt) ==
  /\ selection \in {"startup", "idle"}
  /\ frame["select"] = Idle
  /\ ~stopping
  /\ (selection = "startup") = ~serving
  /\ configured' = rt
  /\ selection' = "building"
  /\ UNCHANGED <<address, runtime, available, active, failed, retired,
                 closed, usedBefore, mistaken, lease, serving, stopping,
                 frame, closeCalls>>

Swap(b) ==
  /\ active' = b
  /\ CloseUnusedRetired("select", retired \cup {active}, lease)
  /\ selection' = "idle"
  /\ UNCHANGED <<configured, lease, serving, stopping>>

SelectSucceeds(b) ==
  /\ selection = "building"
  /\ Construct(b, configured, TRUE)
  /\ failed' = FALSE
  /\ Swap(b)

(* A failed reload keeps the active bundle.                                *)
ReloadFails ==
  /\ selection = "building"
  /\ serving
  /\ failed' = TRUE
  /\ selection' = "idle"
  /\ UNCHANGED <<address, runtime, available, active, configured, retired,
                 closed, usedBefore, mistaken, lease, serving, stopping,
                 frame, closeCalls>>

(* A failed startup publishes an unavailable bundle in place of the        *)
(* provisional one.                                                        *)
StartupFails(b) ==
  /\ selection = "building"
  /\ ~serving
  /\ Construct(b, configured, FALSE)
  /\ failed' = TRUE
  /\ Swap(b)

(* The lifespan awaits select(startup=True), then serves requests.         *)
Serve ==
  /\ ~serving
  /\ selection = "idle"
  /\ frame["select"] = Idle
  /\ serving' = TRUE
  /\ UNCHANGED <<address, runtime, available, active, configured, failed,
                 retired, closed, usedBefore, mistaken, lease, selection,
                 stopping, frame, closeCalls>>

-----------------------------------------------------------------------------
(* Leases *)

AcquireRun(r) ==
  /\ serving
  /\ available[active]
  /\ lease[r].state = "new"
  /\ lease' = [lease EXCEPT ![r] = [state |-> "leased", bundle |-> active,
                                    owner |-> TRUE, callbacks |-> 0]]
  /\ UNCHANGED <<address, runtime, available, active, configured, failed,
                 retired, closed, usedBefore, mistaken, selection, serving,
                 stopping, frame, closeCalls>>

EnterCallback(r) ==
  /\ lease[r].state = "leased"
  /\ lease[r].callbacks < MaxCallbacks
  /\ lease' = [lease EXCEPT ![r].callbacks = @ + 1]
  /\ UNCHANGED <<address, runtime, available, active, configured, failed,
                 retired, closed, usedBefore, mistaken, selection, serving,
                 stopping, frame, closeCalls>>

\* Mutant: the last release forgets to close the retired bundle.
MaybeRelease_WithoutClose(r, ctx) ==
  /\ lease' = [lease EXCEPT ![r] =
                 IF ctx.owner \/ ctx.callbacks > 0
                 THEN ctx ELSE [ctx EXCEPT !.state = "gone"]]
  /\ UNCHANGED <<retired, closed, closeCalls, frame>>

(* The run gives back what is left of its lease: only when neither the     *)
(* chat task nor a callback holds it is the context forgotten and the      *)
(* bundle, if retired, closed.                                             *)
MaybeRelease(r, ctx) ==
  IF ctx.owner \/ ctx.callbacks > 0
  THEN /\ lease' = [lease EXCEPT ![r] = ctx]
       /\ UNCHANGED <<retired, closed, closeCalls, frame>>
  ELSE LET ls == [lease EXCEPT ![r] = [ctx EXCEPT !.state = "gone"]] IN
       /\ lease' = ls
       /\ CloseUnusedRetired(r, retired, ls)

ExitCallback(r) ==
  /\ lease[r].state = "leased"
  /\ lease[r].callbacks > 0
  /\ MaybeRelease(r, [lease[r] EXCEPT !.callbacks = @ - 1])
  /\ UNCHANGED <<address, runtime, available, active, configured, failed,
                 usedBefore, mistaken, selection, serving, stopping>>

ReleaseRun(r) ==
  /\ lease[r].state = "leased"
  /\ lease[r].owner
  /\ MaybeRelease(r, [lease[r] EXCEPT !.owner = FALSE])
  /\ UNCHANGED <<address, runtime, available, active, configured, failed,
                 usedBefore, mistaken, selection, serving, stopping>>

-----------------------------------------------------------------------------
(* Shutdown and reclamation *)

\* Mutant: the shutdown loop trusts its list and does not look at _closed.
ShutdownLoop_Blind(todo) ==
  IF todo = {}
  THEN /\ frame' = [frame EXCEPT !["shutdown"] = Idle]
       /\ UNCHANGED <<closed, closeCalls>>
  ELSE \E b \in todo : EnterClose("shutdown", b, todo \ {b})

(* aclose(): the list [active, *retired] is built once; before each close  *)
(* the loop looks at _closed again.                                        *)
ShutdownLoop(todo) ==
  LET open == {b \in todo : address[b] \notin closed} IN
  IF open = {}
  THEN /\ frame' = [frame EXCEPT !["shutdown"] = Idle]
       /\ UNCHANGED <<closed, closeCalls>>
  ELSE \E b \in open : EnterClose("shutdown", b, todo \ {b})

ShutdownBegins ==
  /\ serving
  /\ ~stopping
  /\ stopping' = TRUE
  /\ ShutdownLoop({active} \cup retired)
  /\ UNCHANGED <<address, runtime, available, active, configured, failed,
                 retired, usedBefore, mistaken, lease, selection, serving>>

ShutdownContinues ==
  /\ frame["shutdown"].now # None
  /\ ShutdownLoop(frame["shutdown"].rest)
  /\ UNCHANGED <<address, runtime, available, active, configured, failed,
                 retired, usedBefore, mistaken, lease, selection, serving,
                 stopping>>

(* An aclose() that raises ends the shutdown loop: nothing catches it.      *)
ShutdownAborts ==
  /\ frame["shutdown"].now # None
  /\ frame' = [frame EXCEPT !["shutdown"] = Idle]
  /\ UNCHANGED <<address, runtime, available, active, configured, failed,
                 retired, closed, usedBefore, mistaken, lease, selection,
                 serving, stopping, closeCalls>>

(* CPython frees a bundle nothing refers to; its address may come back.    *)
Referenced(b) ==
  \/ b = active
  \/ b \in retired
  \/ b \in Lent(lease)
  \/ \E c \in Closer : b = frame[c].now \/ b \in frame[c].rest

Reclaim(b) ==
  /\ Alive(b)
  /\ ~Referenced(b)
  /\ address' = [address EXCEPT ![b] = None]
  /\ UNCHANGED <<runtime, available, active, configured, failed, retired,
                 closed, usedBefore, mistaken, lease, selection, serving,
                 stopping, frame, closeCalls>>

Next ==
  \/ \E rt \in Runtime : SelectBegins(rt)
  \/ \E b \in Bundle : SelectSucceeds(b)
  \/ ReloadFails
  \/ \E b \in Bundle : StartupFails(b)
  \/ Serve
  \/ \E r \in Run : AcquireRun(r)
  \/ \E r \in Run : EnterCallback(r)
  \/ \E r \in Run : ExitCallback(r)
  \/ \E r \in Run : ReleaseRun(r)
  \/ \E c \in Closer : CloseReturns(c)
  \/ ShutdownBegins
  \/ ShutdownContinues
  \/ ShutdownAborts
  \/ \E b \in Bundle : Reclaim(b)

Spec == Init /\ [][Next]_vars

-----------------------------------------------------------------------------
(* What the manager promises *)

(* A bundle a run, a tool callback or a cancellation still uses has not    *)
(* been closed, however reloads, releases and closing loops interleave     *)
(* (the process's own shutdown excepted): _close_unused_retired.           *)
InUseNeverClosed ==
  ~stopping => \A b \in Lent(lease) \cup {active} : closeCalls[b] = 0

(* aclose() runs at most once on a bundle, although a closing loop keeps   *)
(* the list it computed before it suspended and does not look again.       *)
ClosedAtMostOnce == \A b \in Bundle : closeCalls[b] <= 1

(* A replaced bundle waits only for a lease: whoever gives the last lease  *)
(* back also closes the bundle, so reloads do not accumulate open clients. *)
(* The one loss there is has a cause the bundle is born with: its address  *)
(* is one an earlier bundle was closed under, and _closed, which holds     *)
(* addresses, takes it for that one (_close_unused_retired).               *)
NoIdleRetired ==
  ~stopping => \A b \in retired : b \in Lent(lease) \/ b \in mistaken

=============================================================================
