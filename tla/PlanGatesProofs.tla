-------------------------- MODULE PlanGatesProofs --------------------------
(***************************************************************************)
(* Proofs about PlanGates, for every set of plans, calls and findings.     *)
(***************************************************************************)
EXTENDS PlanGates, TLAPS

(* An update read a plan that was there.                                   *)
CopyOK == \A c \in Call : op[c].at = "pre-check" => op[c].copy[op[c].plan] # None

(* A plan that is not there, and was neither deleted, overtaken nor lost,  *)
(* has no reviews, and no review of it is under way.                       *)
Settled == overtaken \cup deleted \cup lost

Fresh == \A p \in Plan \ Settled : file[p] = None => latest[p] = None

Awaited == \A c \in Call :
    op[c].at = "sub-agent" /\ op[c].plan \notin Settled => file[op[c].plan] # None

Inv == TypeOK /\ CopyOK /\ AnsweredIsStored /\ GateIsVerdict /\ Fresh /\ Awaited

-----------------------------------------------------------------------------
LEMMA OpTypes ==
    ASSUME TypeOK, NEW c \in Call
    PROVE  /\ op[c].at \in {"pre-check", "sub-agent", "auto review"} => op[c].plan \in Plan
           /\ op[c].at = "pre-check" => op[c].copy \in [Plan -> Record \cup {None}]
<1>1. op[c] \in Waits \cup {Idle}
  BY DEF TypeOK
<1>2. Idle.at = "idle"
  BY DEF Idle
<1> QED
  BY <1>1, <1>2 DEF Waits

LEMMA VerdictType ==
    ASSUME NEW o, NEW l
    PROVE  Verdict(o, l) \in {"fail", "unknown", "pass"}
  BY DEF Verdict

(* A record with one field replaced.                                       *)
LEMMA Patched ==
    ASSUME NEW r \in Record
    PROVE  /\ \A g \in Gate : LET n == [r EXCEPT !.gate = g] IN
                n \in Record /\ n.gate = g
           /\ \A d \in Decision : LET n == [r EXCEPT !.decision = d] IN
                n \in Record /\ n.decision = d /\ n.gate = r.gate
           /\ [r EXCEPT !.gate = r.gate] = r
  BY DEF Record

(* One plan is stored.                                                     *)
LEMMA Stored ==
    ASSUME TypeOK, NEW p \in Plan, NEW r \in Record \cup {None}, Store(p, r)
    PROVE  /\ file' \in [Plan -> Record \cup {None}] /\ said' \in [Plan -> Record \cup {None}]
           /\ file'[p] = r /\ said'[p] = r
           /\ \A q \in Plan : q # p => file'[q] = file[q] /\ said'[q] = said[q]
  BY DEF Store, TypeOK

(* The gate of one plan follows its ledger.                                *)
LEMMA Synced ==
    ASSUME TypeOK, NEW p \in Plan, Sync(p)
    PROVE  /\ file' \in [Plan -> Record \cup {None}] /\ said' \in [Plan -> Record \cup {None}]
           /\ \A q \in Plan : q # p => file'[q] = file[q] /\ said'[q] = said[q]
           /\ file[p] = None => file' = file /\ said' = said
           /\ file[p] # None =>
                /\ file'[p] # None => file'[p].gate = Verdict(open'[p], latest'[p])
                /\ file'[p] \in Record
                /\ said'[p] = file'[p]
           /\ behind' = behind \ {p}
<1>1. CASE file[p] = None
  BY <1>1 DEF Sync, TypeOK
<1>2. CASE file[p] # None
  <2> DEFINE v == Verdict(open'[p], latest'[p])
             r == [file[p] EXCEPT !.gate = v]
  <2>1. file[p] \in Record /\ v \in Gate
    BY <1>2, VerdictType DEF TypeOK, Gate
  <2>2. r \in Record /\ r.gate = v
    BY <2>1, Patched
  <2>3. Store(p, r) /\ behind' = behind \ {p}
    BY <1>2 DEF Sync
  <2> HIDE DEF r
  <2> QED
    BY <1>2, <2>2, <2>3, Stored
<1> QED
  BY <1>1, <1>2

(* The whole file is written back.                                         *)
LEMMA WrittenBack ==
    ASSUME TypeOK, AnsweredIsStored, UNCHANGED lost,
           NEW p \in Plan, NEW copy \in [Plan -> Record \cup {None}], copy[p] # None,
           NEW r \in Record, r.gate = copy[p].gate, WriteBack(p, copy, r)
    PROVE  /\ file' \in [Plan -> Record \cup {None}] /\ said' \in [Plan -> Record \cup {None}]
           /\ overtaken' \subseteq Plan /\ overtaken \subseteq overtaken'
           /\ \A q \in Plan : q # p => file'[q] = copy[q]
           /\ file'[p] = r
           /\ \A q \in Plan \ overtaken' : file[q] = copy[q]
           /\ AnsweredIsStored'
<1>1. file' = [copy EXCEPT ![p] = r]
  BY DEF WriteBack
<1>2. /\ file' \in [Plan -> Record \cup {None}] /\ file'[p] = r
      /\ \A q \in Plan : q # p => file'[q] = copy[q]
  BY <1>1
<1>3. /\ overtaken' = overtaken \cup {q \in Plan : file[q] # copy[q]}
      /\ overtaken' \subseteq Plan
  BY DEF WriteBack, TypeOK
<1>4. \A q \in Plan \ overtaken' : file[q] = copy[q]
  BY <1>3
<1>5. said' = [q \in Plan |-> IF q \in overtaken' \cup lost THEN file'[q]
                              ELSE IF q = p THEN [r EXCEPT !.gate = said[p].gate] ELSE said[q]]
  BY DEF WriteBack, Told
<1>6. ASSUME NEW q \in Plan PROVE said'[q] \in Record \cup {None} /\
                                  (q \notin overtaken' \cup lost => file'[q] = said'[q])
  <2>1. CASE q \in overtaken' \cup lost
    BY <1>2, <1>5, <2>1
  <2>2. CASE q \notin overtaken' \cup lost
    <3>1. file[q] = copy[q] /\ said[q] = file[q]
      BY <1>3, <1>4, <2>2 DEF AnsweredIsStored
    <3>2. CASE q # p
      BY <1>2, <1>5, <2>2, <3>1, <3>2
    <3>3. CASE q = p
      <4>1. [r EXCEPT !.gate = said[p].gate] = r
        BY <3>1, <3>3, Patched
      <4>2. said'[p] = [r EXCEPT !.gate = said[p].gate]
        BY <1>5, <2>2, <3>3
      <4> QED
        BY <1>2, <3>3, <4>1, <4>2
    <3> QED
      BY <3>2, <3>3
  <2> QED
    BY <2>1, <2>2
<1>7. said' \in [Plan -> Record \cup {None}] /\ AnsweredIsStored'
  <2>1. said' \in [Plan -> Record \cup {None}]
    BY <1>5, <1>6
  <2>2. AnsweredIsStored'
    BY <1>6 DEF AnsweredIsStored
  <2> QED
    BY <2>1, <2>2
<1> QED
  BY <1>2, <1>3, <1>4, <1>7

-----------------------------------------------------------------------------
LEMMA InitInv == Init => Inv
  BY DEF Init, Inv, TypeOK, Idle, CopyOK, AnsweredIsStored, GateIsVerdict, Fresh, Awaited

(* A step that stores one plan and does not touch the ledger.              *)
LEMMA StoreKeeps ==
    ASSUME Inv, NEW p \in Plan, NEW r \in Record, Store(p, r), UNCHANGED <<ledger, ghosts>>,
           op' \in [Call -> Waits \cup {Idle}], \A c \in Call : op'[c] \in {op[c], Idle},
           \/ r.gate \in {"accepted", "unaudited"}
           \/ file[p] # None /\ r.gate = file[p].gate
           \/ file[p] = None /\ p \notin deleted \cup lost /\ r.gate = None
    PROVE  Inv'
<1>1. /\ file' \in [Plan -> Record \cup {None}] /\ said' \in [Plan -> Record \cup {None}]
      /\ file'[p] = r /\ said'[p] = r
      /\ \A q \in Plan : q # p => file'[q] = file[q] /\ said'[q] = said[q]
  BY Stored DEF Inv
<1>2. UNCHANGED <<open, latest, deleted, behind, overtaken, lost, demanded>>
  BY DEF ledger, ghosts
<1>3. TypeOK' /\ CopyOK'
  BY <1>1, <1>2 DEF Inv, TypeOK, CopyOK, Idle
<1>4. AnsweredIsStored'
  BY <1>1, <1>2 DEF Inv, AnsweredIsStored
<1>5. GateIsVerdict'
  BY <1>1, <1>2 DEF Inv, GateIsVerdict, Fresh, Settled
<1>6. Fresh'
  BY <1>1, <1>2, NoneAssumption DEF Inv, Fresh, Settled
<1>7. Awaited'
  <2> SUFFICES ASSUME NEW d \in Call, op'[d].at = "sub-agent", op'[d].plan \notin Settled'
               PROVE  file'[op'[d].plan] # None
    BY DEF Awaited
  <2>1. op'[d] = op[d]
    BY DEF Idle
  <2>2. op[d].plan \in Plan /\ file[op[d].plan] # None
    BY <1>2, <2>1, OpTypes DEF Inv, Awaited, Settled
  <2> QED
    BY <1>1, <2>1, <2>2, NoneAssumption
<1> QED
  BY <1>3, <1>4, <1>5, <1>6, <1>7 DEF Inv

(* A step that changes the ledger of one plan and lets its gate follow.    *)
LEMMA ReviewKeeps ==
    ASSUME Inv, NEW p \in Plan, Sync(p),
           open' \in [Plan -> [Claim -> 0..1]], latest' \in [Plan -> Run \cup {None}],
           \A q \in Plan : q # p => open'[q] = open[q] /\ latest'[q] = latest[q],
           file[p] = None /\ p \notin Settled => latest'[p] = latest[p],
           op' \in [Call -> Waits \cup {Idle}], \A c \in Call : op'[c] \in {op[c], Idle},
           UNCHANGED <<deleted, overtaken, lost>>, demanded' \subseteq Plan
    PROVE  Inv'
<1>1. /\ file' \in [Plan -> Record \cup {None}] /\ said' \in [Plan -> Record \cup {None}]
      /\ \A q \in Plan : q # p => file'[q] = file[q] /\ said'[q] = said[q]
      /\ file[p] = None => file' = file /\ said' = said
      /\ file[p] # None =>
           /\ file'[p] # None => file'[p].gate = Verdict(open'[p], latest'[p])
           /\ file'[p] \in Record /\ said'[p] = file'[p]
      /\ behind' = behind \ {p}
  BY Synced DEF Inv
<1>2. TypeOK'
  BY <1>1 DEF Inv, TypeOK
<1>3. CopyOK'
  BY DEF Inv, CopyOK, Idle
<1>4. AnsweredIsStored'
  BY <1>1 DEF Inv, AnsweredIsStored
<1>5. GateIsVerdict'
  <2> SUFFICES ASSUME NEW q \in Plan, q \notin overtaken' \cup behind', file'[q] # None
               PROVE  \/ file'[q].gate \in {"accepted", "unaudited"}
                      \/ file'[q].gate = Verdict(open'[q], latest'[q])
                      \/ file'[q].gate = None /\ latest'[q] = None
    BY DEF GateIsVerdict
  <2>1. CASE q = p
    BY <1>1, <2>1
  <2>2. CASE q # p
    BY <1>1, <2>2 DEF Inv, GateIsVerdict
  <2> QED
    BY <2>1, <2>2
<1>6. \A q \in Plan : file'[q] = None <=> file[q] = None
  BY <1>1, NoneAssumption DEF Inv, TypeOK
<1>7. Fresh'
  BY <1>6 DEF Inv, Fresh, Settled
<1>8. Awaited'
  <2> SUFFICES ASSUME NEW d \in Call, op'[d].at = "sub-agent", op'[d].plan \notin Settled'
               PROVE  file'[op'[d].plan] # None
    BY DEF Awaited
  <2>1. op'[d] = op[d]
    BY DEF Idle
  <2>2. op[d].plan \in Plan /\ file[op[d].plan] # None
    BY <2>1, OpTypes DEF Inv, Awaited, Settled
  <2> QED
    BY <1>6, <2>1, <2>2
<1> QED
  BY <1>2, <1>3, <1>4, <1>5, <1>7, <1>8 DEF Inv

(* A step that writes the file back as an update has read it.              *)
LEMMA UpdateKeeps ==
    ASSUME Inv, NEW p \in Plan, NEW copy \in [Plan -> Record \cup {None}], copy[p] # None,
           NEW r \in Record, r.gate = copy[p].gate, WriteBack(p, copy, r),
           NEW c \in Call, NEW w \in Waits \cup {Idle}, op' = [op EXCEPT ![c] = w],
           w.at \in {"auto review", "idle"},
           UNCHANGED <<ledger, deleted, behind, lost, demanded>>
    PROVE  Inv'
<1>1. /\ file' \in [Plan -> Record \cup {None}] /\ said' \in [Plan -> Record \cup {None}]
      /\ overtaken' \subseteq Plan /\ overtaken \subseteq overtaken'
      /\ \A q \in Plan : q # p => file'[q] = copy[q]
      /\ file'[p] = r /\ file'[p] \in Record /\ file'[p].gate = copy[p].gate
      /\ \A q \in Plan \ overtaken' : file[q] = copy[q]
      /\ AnsweredIsStored'
  BY WrittenBack DEF Inv
<1>2. UNCHANGED <<open, latest, deleted, behind, lost, demanded>>
  BY DEF ledger
<1>3. op' \in [Call -> Waits \cup {Idle}]
  BY DEF Inv, TypeOK
<1>4. \A d \in Call : op'[d] = op[d] \/ op'[d].at \in {"auto review", "idle"}
  BY DEF Inv, TypeOK
<1>5. TypeOK'
  BY <1>1, <1>2, <1>3 DEF Inv, TypeOK
<1>6. CopyOK'
  BY <1>4 DEF Inv, CopyOK
<1>7. GateIsVerdict'
  <2> SUFFICES ASSUME NEW q \in Plan, q \notin overtaken' \cup behind', file'[q] # None
               PROVE  \/ file'[q].gate \in {"accepted", "unaudited"}
                      \/ file'[q].gate = Verdict(open'[q], latest'[q])
                      \/ file'[q].gate = None /\ latest'[q] = None
    BY DEF GateIsVerdict
  <2>1. file[q] = copy[q] /\ copy[q] # None /\ file'[q].gate = file[q].gate
    BY <1>1
  <2> QED
    BY <1>1, <1>2, <2>1 DEF Inv, GateIsVerdict
<1>8. Fresh'
  BY <1>1, <1>2, NoneAssumption DEF Inv, Fresh, Settled
<1>9. Awaited'
  <2> SUFFICES ASSUME NEW d \in Call, op'[d].at = "sub-agent", op'[d].plan \notin Settled'
               PROVE  file'[op'[d].plan] # None
    BY DEF Awaited
  <2>1. op'[d] = op[d] /\ op[d].plan \in Plan /\ op[d].plan \notin Settled
    BY <1>1, <1>2, <1>4, OpTypes DEF Inv, Settled
  <2>2. file[op[d].plan] # None /\ op[d].plan \notin overtaken'
    BY <2>1 DEF Inv, Awaited, Settled
  <2> QED
    BY <1>1, <2>1, <2>2, NoneAssumption
<1> QED
  BY <1>1, <1>5, <1>6, <1>7, <1>8, <1>9 DEF Inv

-----------------------------------------------------------------------------
LEMMA ReturnsTo ==
    ASSUME NEW c, NEW p \in Plan, NEW done \in BOOLEAN, Returns(c, p, done)
    PROVE  \E w \in Waits \cup {Idle} :
             op' = [op EXCEPT ![c] = w] /\ w.at \in {"auto review", "idle"}
<1> DEFINE a == [at |-> "auto review", plan |-> p]
<1>1. a \in Waits /\ a.at = "auto review" /\ Idle.at = "idle"
  BY DEF Waits, Idle
<1>2. op' = [op EXCEPT ![c] = a] \/ op' = [op EXCEPT ![c] = Idle]
  BY DEF Returns
<1> HIDE DEF a
<1> QED
  BY <1>1, <1>2

LEMMA CheckedKeeps ==
    ASSUME Inv, NEW c \in Call, NEW p \in Plan, NEW copy \in [Plan -> Record \cup {None}],
           copy[p] # None, CheckedUpdate(c, p, copy), UNCHANGED <<ledger, deleted, behind, lost, demanded>>
    PROVE  Inv'
<1>1. CASE op' = [op EXCEPT ![c] = Idle] /\ UNCHANGED <<file, said, overtaken>>
  <2>1. UNCHANGED <<file, said, overtaken, open, latest, deleted, behind, lost, demanded>>
    BY <1>1 DEF ledger
  <2>2. op' \in [Call -> Waits \cup {Idle}] /\ \A d \in Call : op'[d] = op[d] \/ op'[d] = Idle
    BY <1>1 DEF Inv, TypeOK
  <2>3. TypeOK' /\ CopyOK'
    BY <2>1, <2>2 DEF Inv, TypeOK, CopyOK, Idle
  <2>4. AnsweredIsStored' /\ GateIsVerdict' /\ Fresh'
    BY <2>1 DEF Inv, AnsweredIsStored, GateIsVerdict, Fresh, Settled
  <2>5. Awaited'
    BY <2>1, <2>2 DEF Inv, Awaited, Settled, Idle
  <2> QED
    BY <2>3, <2>4, <2>5 DEF Inv
<1>2. ASSUME NEW r \in Written({TRUE}, copy[p].gate), WriteBack(p, copy, r),
             NEW done \in BOOLEAN, Returns(c, p, done)
      PROVE  Inv'
  <2>1. PICK w \in Waits \cup {Idle} :
          op' = [op EXCEPT ![c] = w] /\ w.at \in {"auto review", "idle"}
    BY <1>2, ReturnsTo
  <2>2. copy[p].gate \in Gate
    BY DEF Record
  <2>3. r \in Record /\ r.gate = copy[p].gate
    BY <1>2, <2>2 DEF Written, Record
  <2> QED
    BY <1>2, <2>1, <2>3, UpdateKeeps
<1> QED
  BY <1>1, <1>2 DEF CheckedUpdate

(* The checklist's findings.                                               *)
LEMMA ChecklistType ==
    ASSUME TypeOK, NEW p \in Plan, NEW found, Checklist(p, found)
    PROVE  /\ open' \in [Plan -> [Claim -> 0..1]]
           /\ \A q \in Plan : q # p => open'[q] = open[q]
<1> DEFINE new == [k \in Claim |-> IF k \in CheckClaim THEN IF k \in found THEN 1 ELSE 0
                                   ELSE open[p][k]]
<1>1. new \in [Claim -> 0..1]
  BY DEF TypeOK
<1>2. open' = [open EXCEPT ![p] = new]
  BY DEF Checklist
<1> HIDE DEF new
<1> QED
  BY <1>1, <1>2 DEF TypeOK

LEMMA RunType ==
    ASSUME TypeOK, NEW p \in Plan, NEW demands \in BOOLEAN,
           NEW by \in {"checklist", "subagent"}, Latest(p, demands, by)
    PROVE  /\ latest' \in [Plan -> Run \cup {None}] /\ demanded' \subseteq Plan
           /\ \A q \in Plan : q # p => latest'[q] = latest[q]
<1>1. [demands |-> demands, by |-> by] \in Run
  BY DEF Run
<1>2. latest' = [latest EXCEPT ![p] = [demands |-> demands, by |-> by]]
  BY DEF Latest
<1>3. demanded' \subseteq Plan
  BY DEF Latest, TypeOK
<1> QED
  BY <1>1, <1>2, <1>3 DEF TypeOK

(* A call ends.                                                            *)
LEMMA CallEnds ==
    ASSUME TypeOK, NEW c \in Call, op' = [op EXCEPT ![c] = Idle]
    PROVE  /\ op' \in [Call -> Waits \cup {Idle}] /\ \A d \in Call : op'[d] \in {op[d], Idle}
           /\ op'[c] = Idle
  BY DEF TypeOK

LEMMA AutoReviewKeeps ==
    ASSUME Inv, NEW c \in Call, NEW found, AutoReview(c, found)
    PROVE  Inv'
<1> DEFINE p == op[c].plan
           v == Verdict(open'[p], latest'[p])
           ready == file[p].ready /\ v = "pass"
           r == [file[p] EXCEPT !.gate = v, !.ready = @ /\ v = "pass"]
<1>1. /\ file[p] # None /\ Checklist(p, found) /\ Store(p, r)
      /\ Latest(p, FALSE, "checklist")
      /\ behind' = behind \ {p} /\ op' = [op EXCEPT ![c] = Idle]
      /\ UNCHANGED <<deleted, overtaken, lost>>
  BY DEF AutoReview
<1>2. p \in Plan
  BY OpTypes DEF AutoReview, Inv
<1>3. open' \in [Plan -> [Claim -> 0..1]] /\ \A q \in Plan : q # p => open'[q] = open[q]
  BY <1>1, <1>2, ChecklistType DEF Inv
<1>4. /\ latest' \in [Plan -> Run \cup {None}] /\ demanded' \subseteq Plan
      /\ \A q \in Plan : q # p => latest'[q] = latest[q]
  BY <1>1, <1>2, RunType DEF Inv
<1>5. r \in Record /\ r.gate = v
  <2>1. file[p] \in Record
    BY <1>1, <1>2 DEF Inv, TypeOK
  <2>2. v \in Gate /\ ready \in BOOLEAN
    BY VerdictType DEF Gate
  <2> HIDE DEF v
  <2> QED
    BY <2>1, <2>2 DEF Record
<1> HIDE DEF r, v
<1>6. /\ file' \in [Plan -> Record \cup {None}] /\ said' \in [Plan -> Record \cup {None}]
      /\ file'[p] = r /\ said'[p] = r
      /\ \A q \in Plan : q # p => file'[q] = file[q] /\ said'[q] = said[q]
  BY <1>1, <1>2, <1>5, Stored DEF Inv
<1>7. /\ op' \in [Call -> Waits \cup {Idle}] /\ \A d \in Call : op'[d] \in {op[d], Idle}
  BY <1>1, CallEnds DEF Inv
<1> HIDE DEF p
<1>8. TypeOK' /\ CopyOK'
  BY <1>1, <1>3, <1>4, <1>6, <1>7 DEF Inv, TypeOK, CopyOK, Idle
<1>9. AnsweredIsStored'
  BY <1>1, <1>6 DEF Inv, AnsweredIsStored
<1>10. GateIsVerdict'
  <2> SUFFICES ASSUME NEW q \in Plan, q \notin overtaken' \cup behind', file'[q] # None
               PROVE  \/ file'[q].gate \in {"accepted", "unaudited"}
                      \/ file'[q].gate = Verdict(open'[q], latest'[q])
                      \/ file'[q].gate = None /\ latest'[q] = None
    BY DEF GateIsVerdict
  <2>1. CASE q = p
    BY <1>5, <1>6, <2>1 DEF v
  <2>2. CASE q # p
    BY <1>1, <1>3, <1>4, <1>6, <2>2 DEF Inv, GateIsVerdict
  <2> QED
    BY <2>1, <2>2
<1>11. \A q \in Plan : file'[q] = None <=> file[q] = None
  BY <1>1, <1>2, <1>5, <1>6, NoneAssumption
<1>12. Fresh'
  BY <1>1, <1>2, <1>4, <1>11 DEF Inv, Fresh, Settled
<1>13. Awaited'
  <2> SUFFICES ASSUME NEW d \in Call, op'[d].at = "sub-agent", op'[d].plan \notin Settled'
               PROVE  file'[op'[d].plan] # None
    BY DEF Awaited
  <2>1. op'[d] = op[d]
    BY <1>7 DEF Idle
  <2>2. op[d].plan \in Plan /\ file[op[d].plan] # None
    BY <1>1, <2>1, OpTypes DEF Inv, Awaited, Settled
  <2> QED
    BY <1>11, <2>1, <2>2
<1> QED
  BY <1>8, <1>9, <1>10, <1>12, <1>13 DEF Inv

-----------------------------------------------------------------------------
(* Where the file and what was told stay and a plan's ledger may get ahead. *)
LEMMA BehindKeeps ==
    ASSUME Inv, NEW p \in Plan,
           open' \in [Plan -> [Claim -> 0..1]], latest' \in [Plan -> Run \cup {None}],
           \A q \in Plan : q # p => open'[q] = open[q] /\ latest'[q] = latest[q],
           file[p] = None /\ p \notin Settled => latest'[p] = latest[p],
           behind' = behind \cup {p}, op' \in [Call -> Waits \cup {Idle}],
           \A d \in Call : \/ op'[d] \in {op[d], Idle}
                           \/ op'[d] = [at |-> "sub-agent", plan |-> p] /\ file[p] # None,
           UNCHANGED <<file, said, deleted, overtaken, lost>>, demanded' \subseteq Plan
    PROVE  Inv'
<1>1. TypeOK' /\ CopyOK'
  BY DEF Inv, TypeOK, CopyOK, Idle
<1>2. AnsweredIsStored' /\ GateIsVerdict'
  BY DEF Inv, AnsweredIsStored, GateIsVerdict
<1>3. Fresh'
  BY DEF Inv, Fresh, Settled
<1>4. Awaited'
  <2> SUFFICES ASSUME NEW d \in Call, op'[d].at = "sub-agent", op'[d].plan \notin Settled'
               PROVE  file'[op'[d].plan] # None
    BY DEF Awaited
  <2>1. CASE op'[d] = op[d]
    BY <2>1 DEF Inv, Awaited, Settled
  <2>2. CASE op'[d] = [at |-> "sub-agent", plan |-> p] /\ file[p] # None
    BY <2>2
  <2> QED
    BY <2>1, <2>2 DEF Idle
<1> QED
  BY <1>1, <1>2, <1>3, <1>4 DEF Inv

LEMMA DeleteKeeps ==
    ASSUME Inv, NEW p \in Plan, DeletePlan(p)
    PROVE  Inv'
<1> DEFINE new == [k \in Claim |-> 0]
<1>1. /\ Store(p, None) /\ open' = [open EXCEPT ![p] = new]
      /\ latest' = [latest EXCEPT ![p] = None]
      /\ deleted' = deleted \cup {p} /\ demanded' = demanded \ {p}
      /\ UNCHANGED <<op, behind, overtaken, lost>>
  BY DEF DeletePlan
<1>2. new \in [Claim -> 0..1]
  OBVIOUS
<1> HIDE DEF new
<1>3. /\ file' \in [Plan -> Record \cup {None}] /\ said' \in [Plan -> Record \cup {None}]
      /\ file'[p] = None /\ said'[p] = None
      /\ \A q \in Plan : q # p => file'[q] = file[q] /\ said'[q] = said[q]
  BY <1>1, Stored DEF Inv
<1>4. \A q \in Plan : q # p => open'[q] = open[q] /\ latest'[q] = latest[q]
  BY <1>1 DEF Inv, TypeOK
<1>5. TypeOK' /\ CopyOK'
  BY <1>1, <1>2, <1>3 DEF Inv, TypeOK, CopyOK
<1>6. AnsweredIsStored' /\ GateIsVerdict' /\ Fresh'
  BY <1>1, <1>3, <1>4 DEF Inv, AnsweredIsStored, GateIsVerdict, Fresh, Settled
<1>7. Awaited'
  BY <1>1, <1>3, OpTypes DEF Inv, Awaited, Settled
<1> QED
  BY <1>5, <1>6, <1>7 DEF Inv

LEMMA ProposeKeeps ==
    ASSUME Inv, NEW p \in Plan, Propose(p)
    PROVE  Inv'
<1> DEFINE g == IF file[p] = None THEN None ELSE file[p].gate
<1>1. PICK r \in Written(BOOLEAN, g) : Store(p, r)
  BY DEF Propose
<1>2. p \notin deleted \cup lost /\ UNCHANGED <<ledger, op, ghosts>>
  BY DEF Propose
<1>3. g \in Gate
  BY DEF Inv, TypeOK, Record, Gate
<1>4. r \in Record /\ r.gate = g
  <2> HIDE DEF g
  <2> QED
    BY <1>1, <1>3 DEF Written, Record
<1>5. op' \in [Call -> Waits \cup {Idle}] /\ \A c \in Call : op'[c] \in {op[c], Idle}
  BY <1>2 DEF Inv, TypeOK
<1> QED
  BY <1>1, <1>2, <1>4, <1>5, StoreKeeps

(* The user's decision or acceptance changes one field, and an acceptance  *)
(* that is not finished the same field.                                    *)
LEMMA UserKeeps ==
    ASSUME Inv, NEW p \in Plan,
           AcceptRisk(p) \/ CrashBeforeAudit(p) \/ \E d \in Decision : SubmitDecision(p, d)
    PROVE  Inv'
<1>1. ASSUME NEW g \in {"accepted", "unaudited"}, file[p] # None,
             Store(p, [file[p] EXCEPT !.gate = g]), UNCHANGED <<ledger, ghosts>>,
             op' \in [Call -> Waits \cup {Idle}], \A c \in Call : op'[c] \in {op[c], Idle}
      PROVE  Inv'
  <2> DEFINE r == [file[p] EXCEPT !.gate = g]
  <2>1. file[p] \in Record /\ g \in Gate
    BY <1>1 DEF Inv, TypeOK, Gate
  <2>2. r \in Record /\ r.gate = g
    BY <2>1, Patched
  <2>3. Store(p, r)
    BY <1>1
  <2> HIDE DEF r
  <2> QED
    BY <1>1, <2>2, <2>3, StoreKeeps
<1>2. UNCHANGED op => op' \in [Call -> Waits \cup {Idle}] /\ \A c \in Call : op'[c] \in {op[c], Idle}
  BY DEF Inv, TypeOK
<1>3. CASE AcceptRisk(p)
  BY <1>1, <1>2, <1>3 DEF AcceptRisk
<1>4. CASE CrashBeforeAudit(p)
  <2> DEFINE g == IF file[p].gate = "accepted" THEN file[p].gate ELSE "unaudited"
  <2>1. Store(p, [file[p] EXCEPT !.gate = g])
    BY <1>4 DEF CrashBeforeAudit
  <2>2. file[p] # None /\ UNCHANGED <<ledger, ghosts>> /\ g \in {"accepted", "unaudited"}
    BY <1>4 DEF CrashBeforeAudit
  <2>3. op' \in [Call -> Waits \cup {Idle}] /\ \A c \in Call : op'[c] \in {op[c], Idle}
    BY <1>4 DEF CrashBeforeAudit, Dies
  <2> HIDE DEF g
  <2> QED
    BY <1>1, <2>1, <2>2, <2>3
<1>5. ASSUME NEW d \in Decision, SubmitDecision(p, d) PROVE Inv'
  <2> DEFINE r == [file[p] EXCEPT !.decision = d]
  <2>1. Store(p, r) /\ UNCHANGED <<ledger, op, ghosts>> /\ file[p] \in Record /\ file[p] # None
    BY <1>5 DEF SubmitDecision, Inv, TypeOK
  <2>2. r \in Record /\ r.gate = file[p].gate
    BY <2>1, Patched
  <2> HIDE DEF r
  <2> QED
    BY <1>2, <2>1, <2>2, StoreKeeps
<1> QED
  BY <1>3, <1>4, <1>5

(* One finding of a plan is resolved.                                      *)
LEMMA ResolvedType ==
    ASSUME TypeOK, NEW p \in Plan, NEW k \in Claim, Resolved(p, k)
    PROVE  /\ open' \in [Plan -> [Claim -> 0..1]]
           /\ \A q \in Plan : q # p => open'[q] = open[q]
<1>1. open[p][k] - 1 \in 0..1
  BY DEF TypeOK, Resolved
<1> QED
  BY <1>1 DEF TypeOK, Resolved

(* The reviewer's findings.                                                *)
LEMMA ReportedType ==
    ASSUME TypeOK, NEW p \in Plan, NEW found, Reported(p, found)
    PROVE  /\ open' \in [Plan -> [Claim -> 0..1]]
           /\ \A q \in Plan : q # p => open'[q] = open[q]
<1> DEFINE new == [k \in Claim |-> IF k \in found THEN 1 ELSE open[p][k]]
<1>1. new \in [Claim -> 0..1]
  BY DEF TypeOK
<1>2. open' = [open EXCEPT ![p] = new]
  BY DEF Reported
<1> HIDE DEF new
<1> QED
  BY <1>1, <1>2 DEF TypeOK

(* A crash between the ledger and the gate.                                *)
LEMMA CrashKeeps ==
    ASSUME Inv, NEW p \in Plan, CrashBeforeGate(p)
    PROVE  Inv'
<1> DEFINE Ahead ==
             /\ open' \in [Plan -> [Claim -> 0..1]] /\ latest' \in [Plan -> Run \cup {None}]
             /\ \A q \in Plan : q # p => open'[q] = open[q] /\ latest'[q] = latest[q]
             /\ file[p] = None /\ p \notin Settled => latest'[p] = latest[p]
             /\ demanded' \subseteq Plan
           Runs == /\ latest' \in [Plan -> Run \cup {None}] /\ demanded' \subseteq Plan
                   /\ \A q \in Plan : q # p => latest'[q] = latest[q]
<1>1. UNCHANGED <<latest, demanded>> => Runs /\ latest' = latest
  BY DEF Inv, TypeOK
<1>2. \A demands \in BOOLEAN, by \in {"checklist", "subagent"} : Latest(p, demands, by) => Runs
  BY RunType DEF Inv
<1> HIDE DEF Runs
<1>3. ASSUME NEW found, Checklist(p, found), file[p] # None, Runs PROVE Ahead
  <2>1. open' \in [Plan -> [Claim -> 0..1]] /\ \A q \in Plan : q # p => open'[q] = open[q]
    BY <1>3, ChecklistType DEF Inv
  <2> QED
    BY <1>3, <2>1 DEF Runs
<1>4. ASSUME NEW c \in Call, op[c].at = "sub-agent", op[c].plan = p, Runs,
             UNCHANGED open \/ \E found \in SUBSET AgentClaim : Reported(p, found)
      PROVE  Ahead
  <2>1. open' \in [Plan -> [Claim -> 0..1]] /\ \A q \in Plan : q # p => open'[q] = open[q]
    BY <1>4, ReportedType DEF Inv, TypeOK
  <2>2. p \notin Settled => file[p] # None
    BY <1>4 DEF Inv, Awaited
  <2> QED
    BY <1>4, <2>1, <2>2 DEF Runs
<1>5. ASSUME NEW k \in Claim, Resolved(p, k), Runs, latest' = latest PROVE Ahead
  <2>1. open' \in [Plan -> [Claim -> 0..1]] /\ \A q \in Plan : q # p => open'[q] = open[q]
    BY <1>5, ResolvedType DEF Inv
  <2> QED
    BY <1>5, <2>1 DEF Runs
<1> HIDE DEF Ahead
<1>6. Ahead
  BY <1>1, <1>2, <1>3, <1>4, <1>5 DEF CrashBeforeGate
<1>7. op' \in [Call -> Waits \cup {Idle}] /\ \A d \in Call : op'[d] = Idle
  BY DEF CrashBeforeGate, Dies
<1>8. behind' = behind \cup {p} /\ UNCHANGED <<file, said, deleted, overtaken, lost>>
  BY DEF CrashBeforeGate
<1> QED
  BY <1>6, <1>7, <1>8, BehindKeeps DEF Ahead

(* One after the gate of an automatic review is a review that ended.       *)
LEMMA CrashBeforeFlagKeeps ==
    ASSUME Inv, NEW p \in Plan, CrashBeforeFlag(p)
    PROVE  Inv'
<1>1. open' \in [Plan -> [Claim -> 0..1]] /\ \A q \in Plan : q # p => open'[q] = open[q]
  BY ChecklistType DEF CrashBeforeFlag, Inv
<1>2. /\ latest' \in [Plan -> Run \cup {None}] /\ demanded' \subseteq Plan
      /\ \A q \in Plan : q # p => latest'[q] = latest[q]
  BY RunType DEF CrashBeforeFlag, RunRecorded, Inv
<1>3. Sync(p) /\ file[p] # None /\ UNCHANGED <<deleted, overtaken, lost>>
  BY DEF CrashBeforeFlag, RunRecorded
<1>4. op' \in [Call -> Waits \cup {Idle}] /\ \A c \in Call : op'[c] \in {op[c], Idle}
  BY DEF CrashBeforeFlag, Dies
<1> QED
  BY <1>1, <1>2, <1>3, <1>4, ReviewKeeps

(* A write that broke off leaves no plans.                                 *)
LEMMA CrashInWriteKeeps ==
    ASSUME Inv, CrashInWrite
    PROVE  Inv'
<1>1. /\ lost' = lost \cup {p \in Plan : file[p] # None}
      /\ file' = [p \in Plan |-> None]
      /\ op' = [c \in Call |-> Idle]
      /\ UNCHANGED <<open, latest, said, deleted, behind, overtaken, demanded>>
  BY DEF CrashInWrite, Dies, ledger
<1>2. Idle.at = "idle"
  BY DEF Idle
<1>3. TypeOK' /\ CopyOK'
  BY <1>1, <1>2 DEF Inv, TypeOK, CopyOK
<1>4. AnsweredIsStored'
  BY <1>1 DEF Inv, AnsweredIsStored
<1>5. GateIsVerdict' /\ Fresh' /\ Awaited'
  BY <1>1, <1>2 DEF Inv, GateIsVerdict, Fresh, Awaited, Settled
<1> QED
  BY <1>3, <1>4, <1>5 DEF Inv

LEMMA ReviewBeginsKeeps ==
    ASSUME Inv, NEW c \in Call, NEW p \in Plan, NEW found, SubagentReviewBegins(c, p, found)
    PROVE  Inv'
<1> DEFINE w == [at |-> "sub-agent", plan |-> p]
<1>1. w \in Waits
  BY DEF Waits
<1>2. op' = [op EXCEPT ![c] = w]
  BY DEF SubagentReviewBegins
<1> HIDE DEF w
<1>3. op' \in [Call -> Waits \cup {Idle}] /\ \A d \in Call : op'[d] \in {op[d], w}
  BY <1>1, <1>2 DEF Inv, TypeOK
<1>4. open' \in [Plan -> [Claim -> 0..1]] /\ \A q \in Plan : q # p => open'[q] = open[q]
  BY ChecklistType DEF SubagentReviewBegins, Inv
<1>5. \A d \in Call : \/ op'[d] \in {op[d], Idle}
                      \/ op'[d] = [at |-> "sub-agent", plan |-> p] /\ file[p] # None
  BY <1>3 DEF w, SubagentReviewBegins
<1>6. /\ latest' = latest /\ latest' \in [Plan -> Run \cup {None}] /\ demanded' \subseteq Plan
      /\ behind' = behind \cup {p} /\ UNCHANGED <<file, said, deleted, overtaken, lost>>
  BY DEF SubagentReviewBegins, Inv, TypeOK
<1> QED
  BY <1>3, <1>4, <1>5, <1>6, BehindKeeps

(* The reviews that write their gate.                                      *)
LEMMA ChecklistReviewKeeps ==
    ASSUME Inv, NEW p \in Plan, NEW demands \in BOOLEAN, NEW found,
           ChecklistReview(p, demands, found)
    PROVE  Inv'
<1>1. open' \in [Plan -> [Claim -> 0..1]] /\ \A q \in Plan : q # p => open'[q] = open[q]
  BY ChecklistType DEF ChecklistReview, Inv
<1>2. /\ latest' \in [Plan -> Run \cup {None}] /\ demanded' \subseteq Plan
      /\ \A q \in Plan : q # p => latest'[q] = latest[q]
      /\ Sync(p)
  BY RunType DEF ChecklistReview, RunRecorded, Inv
<1>3. op' \in [Call -> Waits \cup {Idle}] /\ \A c \in Call : op'[c] \in {op[c], Idle}
  BY DEF ChecklistReview, Inv, TypeOK
<1>4. file[p] # None /\ UNCHANGED <<deleted, overtaken, lost>>
  BY DEF ChecklistReview
<1> QED
  BY <1>1, <1>2, <1>3, <1>4, ReviewKeeps

LEMMA SubagentKeeps ==
    ASSUME Inv, NEW c \in Call,
           SubagentFails(c) \/ \E found \in SUBSET AgentClaim : SubagentReports(c, found)
    PROVE  Inv'
<1> DEFINE p == op[c].plan
<1>1. op[c].at = "sub-agent" /\ op' = [op EXCEPT ![c] = Idle] /\ UNCHANGED <<deleted, overtaken, lost>>
  BY DEF SubagentFails, SubagentReports
<1>2. p \in Plan /\ (p \notin Settled => file[p] # None)
  BY <1>1, OpTypes DEF Inv, Awaited
<1>3. op' \in [Call -> Waits \cup {Idle}] /\ \A d \in Call : op'[d] \in {op[d], Idle}
  BY <1>1, CallEnds DEF Inv
<1>4. open' \in [Plan -> [Claim -> 0..1]] /\ \A q \in Plan : q # p => open'[q] = open[q]
  <2>1. CASE SubagentFails(c)
    BY <2>1 DEF SubagentFails, Inv, TypeOK
  <2>2. ASSUME NEW found, SubagentReports(c, found)
        PROVE  open' \in [Plan -> [Claim -> 0..1]] /\ \A q \in Plan : q # p => open'[q] = open[q]
    <3>1. Reported(p, found)
      BY <2>2 DEF SubagentReports
    <3> HIDE DEF p
    <3> QED
      BY <1>2, <3>1, ReportedType DEF Inv
  <2> QED
    BY <2>1, <2>2
<1>5. \E by \in {"checklist", "subagent"} : RunRecorded(p, TRUE, by)
  BY DEF SubagentFails, SubagentReports
<1> HIDE DEF p
<1>6. /\ latest' \in [Plan -> Run \cup {None}] /\ demanded' \subseteq Plan
      /\ \A q \in Plan : q # p => latest'[q] = latest[q]
      /\ Sync(p)
  BY <1>2, <1>5, RunType DEF RunRecorded, Inv
<1> QED
  BY <1>1, <1>2, <1>3, <1>4, <1>6, ReviewKeeps

LEMMA ResolveKeeps ==
    ASSUME Inv, NEW p \in Plan, NEW k \in Claim, ResolveFinding(p, k)
    PROVE  Inv'
<1>1. open' \in [Plan -> [Claim -> 0..1]] /\ \A q \in Plan : q # p => open'[q] = open[q]
  BY ResolvedType DEF ResolveFinding, Inv
<1>2. /\ latest' = latest /\ latest' \in [Plan -> Run \cup {None}] /\ demanded' \subseteq Plan
      /\ op' \in [Call -> Waits \cup {Idle}] /\ \A c \in Call : op'[c] \in {op[c], Idle}
      /\ Sync(p) /\ UNCHANGED <<deleted, overtaken, lost>>
  BY DEF ResolveFinding, Inv, TypeOK
<1> QED
  BY <1>1, <1>2, ReviewKeeps

LEMMA AskKeeps ==
    ASSUME Inv, NEW c \in Call, NEW p \in Plan, AskPrecheck(c, p)
    PROVE  Inv'
<1> DEFINE w == [at |-> "pre-check", plan |-> p, copy |-> file]
<1>1. w \in Waits /\ w.at = "pre-check" /\ w.plan = p /\ w.copy = file
  BY DEF Waits, Inv, TypeOK
<1>2. op' = [op EXCEPT ![c] = w] /\ file[p] # None /\ UNCHANGED <<file, ledger, said, ghosts>>
  BY DEF AskPrecheck
<1> HIDE DEF w
<1>3. UNCHANGED <<file, open, latest, said, deleted, behind, overtaken, lost, demanded>>
  BY <1>2 DEF ledger, ghosts
<1>4. op' \in [Call -> Waits \cup {Idle}] /\ \A d \in Call : op'[d] \in {op[d], w}
  BY <1>1, <1>2 DEF Inv, TypeOK
<1>5. TypeOK' /\ CopyOK'
  BY <1>1, <1>2, <1>3, <1>4 DEF Inv, TypeOK, CopyOK
<1>6. AnsweredIsStored' /\ GateIsVerdict' /\ Fresh' /\ Awaited'
  BY <1>1, <1>3, <1>4 DEF Inv, AnsweredIsStored, GateIsVerdict, Fresh, Awaited, Settled
<1> QED
  BY <1>5, <1>6 DEF Inv

LEMMA AbandonedKeeps ==
    ASSUME Inv, NEW c \in Call, Abandoned(c)
    PROVE  Inv'
<1>1. UNCHANGED <<file, open, latest, said, deleted, behind, overtaken, lost, demanded>>
  BY DEF Abandoned, ledger, ghosts
<1>2. op' \in [Call -> Waits \cup {Idle}] /\ \A d \in Call : op'[d] \in {op[d], Idle}
  BY CallEnds DEF Abandoned, Inv
<1>3. TypeOK' /\ CopyOK'
  BY <1>1, <1>2 DEF Inv, TypeOK, CopyOK, Idle
<1>4. AnsweredIsStored' /\ GateIsVerdict' /\ Fresh' /\ Awaited'
  BY <1>1, <1>2 DEF Inv, AnsweredIsStored, GateIsVerdict, Fresh, Awaited, Settled, Idle
<1> QED
  BY <1>3, <1>4 DEF Inv

LEMMA UpdateActionKeeps ==
    ASSUME Inv, NEW c \in Call,
           \/ \E p \in Plan : UpdateProgress(c, p) \/ UpdateReady(c, p)
           \/ PrecheckAnswers(c)
    PROVE  Inv'
<1>1. file \in [Plan -> Record \cup {None}]
  BY DEF Inv, TypeOK
<1>2. ASSUME NEW p \in Plan, UpdateProgress(c, p) PROVE Inv'
  <2>1. file[p] # None /\ UNCHANGED <<ledger, deleted, behind, lost, demanded>>
    BY <1>2 DEF UpdateProgress
  <2>2. file[p].ready \in BOOLEAN /\ file[p].gate \in Gate
    BY <1>1, <2>1 DEF Record
  <2>3. PICK r \in Written({file[p].ready, FALSE}, file[p].gate), done \in BOOLEAN :
          WriteBack(p, file, r) /\ Returns(c, p, done)
    BY <1>2 DEF UpdateProgress
  <2>4. r \in Record /\ r.gate = file[p].gate
    BY <2>2, <2>3 DEF Written, Record
  <2>5. PICK w \in Waits \cup {Idle} :
          op' = [op EXCEPT ![c] = w] /\ w.at \in {"auto review", "idle"}
    BY <2>3, ReturnsTo
  <2> QED
    BY <1>1, <2>1, <2>3, <2>4, <2>5, UpdateKeeps
<1>3. ASSUME NEW p \in Plan, UpdateReady(c, p) PROVE Inv'
  BY <1>1, <1>3, CheckedKeeps DEF UpdateReady
<1>4. CASE PrecheckAnswers(c)
  <2>1. /\ op[c].plan \in Plan /\ op[c].copy \in [Plan -> Record \cup {None}]
        /\ op[c].copy[op[c].plan] # None
    BY <1>4, OpTypes DEF PrecheckAnswers, Inv, CopyOK
  <2> QED
    BY <1>4, <2>1, CheckedKeeps DEF PrecheckAnswers
<1> QED
  BY <1>2, <1>3, <1>4

LEMMA NextInv == Inv /\ [Next]_vars => Inv'
<1> SUFFICES ASSUME Inv, [Next]_vars PROVE Inv'
  OBVIOUS
<1>1. ASSUME NEW p \in Plan,
             \/ Propose(p) \/ AcceptRisk(p) \/ DeletePlan(p)
             \/ \E d \in Decision : SubmitDecision(p, d)
             \/ CrashBeforeGate(p) \/ CrashBeforeFlag(p) \/ CrashBeforeAudit(p)
      PROVE  Inv'
  BY <1>1, ProposeKeeps, UserKeeps, DeleteKeeps, CrashKeeps, CrashBeforeFlagKeeps
<1>2. ASSUME NEW p \in Plan, NEW demands \in BOOLEAN, NEW found \in SUBSET CheckClaim,
             ChecklistReview(p, demands, found)
      PROVE  Inv'
  BY <1>2, ChecklistReviewKeeps
<1>3. ASSUME NEW p \in Plan, NEW k \in Claim, ResolveFinding(p, k) PROVE Inv'
  BY <1>3, ResolveKeeps
<1>4. ASSUME NEW c \in Call, NEW p \in Plan,
             \/ UpdateProgress(c, p) \/ UpdateReady(c, p) \/ AskPrecheck(c, p)
             \/ \E found \in SUBSET CheckClaim : SubagentReviewBegins(c, p, found)
      PROVE  Inv'
  BY <1>4, UpdateActionKeeps, AskKeeps, ReviewBeginsKeeps
<1>5. ASSUME NEW c \in Call,
             \/ PrecheckAnswers(c) \/ SubagentFails(c) \/ Abandoned(c)
             \/ \E found \in SUBSET AgentClaim : SubagentReports(c, found)
      PROVE  Inv'
  BY <1>5, UpdateActionKeeps, SubagentKeeps, AbandonedKeeps
<1>6. ASSUME NEW c \in Call, NEW found \in SUBSET CheckClaim, AutoReview(c, found) PROVE Inv'
  BY <1>6, AutoReviewKeeps
<1>7. CASE UNCHANGED vars
  BY <1>7 DEF vars, Inv, TypeOK, CopyOK, AnsweredIsStored, GateIsVerdict, Fresh, Awaited, Settled
<1> QED
  BY <1>1, <1>2, <1>3, <1>4, <1>5, <1>6, <1>7, CrashInWriteKeeps DEF Next

(* The inductive invariant holds in every reachable state.                 *)
THEOREM InvHolds == Spec => []Inv
  BY InitInv, NextInv, PTL DEF Spec

(* The plan file, the ledger and the calls keep their types; no claim is   *)
(* open twice, however many reviews of a step overlap.                     *)
THEOREM PlanTypes == Spec => []TypeOK
<1>1. Inv => TypeOK
  BY DEF Inv
<1> QED
  BY <1>1, InvHolds, PTL

(* What a caller was told is stored, unless a pre-checked update overtook  *)
(* it.                                                                     *)
THEOREM AnswersStored == Spec => []AnsweredIsStored
<1>1. Inv => AnsweredIsStored
  BY DEF Inv
<1> QED
  BY <1>1, InvHolds, PTL

(* The gate in the plan file is the ledger's verdict or an accepted risk.  *)
THEOREM GateFollowsLedger == Spec => []GateIsVerdict
<1>1. Inv => GateIsVerdict
  BY DEF Inv
<1> QED
  BY <1>1, InvHolds, PTL

=============================================================================
