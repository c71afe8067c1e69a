----------------------------- MODULE PlanGates -----------------------------
(***************************************************************************)
(* Plans and their review gate: the user's decision, the agent's progress  *)
(* updates, the review ledger and the gate copied from it live in two      *)
(* stores without a lock, and tool calls of two agents (one file holds the *)
(* plans of every session) suspend between reading and writing them.       *)
(*                                                                         *)
(* A plan has one step here: two steps of a plan share nothing but the     *)
(* file, as two plans do.                                                  *)
(***************************************************************************)
EXTENDS Naturals, FiniteSets

CONSTANTS
    Plan,
    Call,       \* tool calls under way
    CheckClaim, \* what the checklist can find, always of severity required
    AgentClaim, \* what the reviewer sub-agent can find
    Precheck,   \* decision.routing.plan_gates
    None

ASSUME PlanAssumption == None \notin Plan
ASSUME ClaimAssumption == CheckClaim \cap AgentClaim = {}
ASSUME PrecheckAssumption == Precheck \in BOOLEAN

VARIABLES
    file,      \* proposals.json: each plan's record
    open,      \* review ledger: how many findings of each claim are open
    latest,    \* review ledger: the last review run of the step
    op,        \* what each tool call waits for
    said,      \* what callers were last told to be stored for each plan
    deleted,   \* plans that were deleted; ids are not used again
    behind,    \* plans whose ledger has changed since their gate was written
    overtaken, \* plans whose record was replaced by an older copy
    lost,      \* plans that were in the file when a write of it broke off
    demanded   \* steps for which a sub-agent review was asked and has not taken place

vars == <<file, open, latest, op, said, deleted, behind, overtaken, lost, demanded>>
ledger == <<open, latest>>
ghosts == <<deleted, behind, overtaken, lost, demanded>>

Claim == CheckClaim \cup AgentClaim

(* A plan is pending, or changes are requested; or it is approved or       *)
(* denied, and a new proposal is a new plan.                               *)
Decision == {"undecided", "decided"}

(* An acceptance is written twice, and audited only by the second write:   *)
(* without its date and reason it lifts no block.                          *)
Gate == {None, "pass", "fail", "unknown", "accepted", "unaudited"}

(* A step is of risk when its text names what the policy wants reviewed.   *)
Record == [decision: Decision, ready: BOOLEAN, risk: BOOLEAN, gate: Gate]

(* What an agent may write without touching the gate.                      *)
Written(ready, gate) == [decision: Decision, ready: ready, risk: BOOLEAN, gate: {gate}]

(* A reviewer that raised, or whose answer could not be parsed, leaves the *)
(* checklist's run (reviewer_type "checklist", "mixed").                   *)
Run == [demands: BOOLEAN, by: {"checklist", "subagent"}]

ASSUME NoneAssumption == None \notin Record

Idle == [at |-> "idle"]
Waits ==
    [at: {"pre-check"}, plan: Plan, copy: [Plan -> Record \cup {None}]]
      \cup [at: {"sub-agent", "auto review"}, plan: Plan]

(* A problem is open at most once, also when two reviews of a step overlap *)
(* (_persist_checklist_findings, _persist_subagent_findings).              *)
TypeOK ==
    /\ file \in [Plan -> Record \cup {None}]
    /\ open \in [Plan -> [Claim -> 0..1]]
    /\ latest \in [Plan -> Run \cup {None}]
    /\ op \in [Call -> Waits \cup {Idle}]
    /\ said \in [Plan -> Record \cup {None}]
    /\ deleted \subseteq Plan /\ behind \subseteq Plan /\ overtaken \subseteq Plan
    /\ lost \subseteq Plan /\ demanded \subseteq Plan

Init ==
    /\ file = [p \in Plan |-> None]
    /\ open = [p \in Plan |-> [k \in Claim |-> 0]]
    /\ latest = [p \in Plan |-> None]
    /\ op = [c \in Call |-> Idle]
    /\ said = file
    /\ deleted = {} /\ behind = {} /\ overtaken = {} /\ lost = {}
    /\ demanded = {}

-----------------------------------------------------------------------------
(* One read, one change, one write, with nothing in between.               *)
Store(p, r) ==
    /\ file' = [file EXCEPT ![p] = r]
    /\ said' = [said EXCEPT ![p] = r]

(* _compute_review_gate, from the ledger alone.                            *)
Verdict(o, l) ==
    IF \E k \in Claim : o[k] > 0 THEN "fail"
    ELSE IF l = None THEN "unknown"
    ELSE IF l.demands /\ l.by = "checklist" THEN "unknown"
    ELSE "pass"

(* _sync_plan_gate: set_step_gate forgets an acceptance; if the plan is    *)
(* gone nothing is written and nobody is told.                             *)
Sync(p) ==
    /\ behind' = behind \ {p}
    /\ IF file[p] = None THEN UNCHANGED <<file, said>>
       ELSE Store(p, [file[p] EXCEPT !.gate = Verdict(open'[p], latest'[p])])

-----------------------------------------------------------------------------
(* The plan and the user.                                                  *)

(* propose_plan: a new plan, or the revision of one that was not decided;  *)
(* the caller may set the step ready, the gate is kept.                    *)
Propose(p) ==
    /\ p \notin deleted \cup lost
    /\ file[p] # None => file[p].decision = "undecided"
    /\ \E r \in Written(BOOLEAN, IF file[p] = None THEN None ELSE file[p].gate) : Store(p, r)
    /\ UNCHANGED <<ledger, op, ghosts>>

(* submit_decision: at any time, also a second time.                       *)
SubmitDecision(p, d) ==
    /\ file[p] # None
    /\ Store(p, [file[p] EXCEPT !.decision = d])
    /\ UNCHANGED <<ledger, op, ghosts>>

(* accept_gate_risk, once the user has approved the call.                  *)
AcceptRisk(p) ==
    /\ file[p] # None
    /\ Store(p, [file[p] EXCEPT !.gate = "accepted"])
    /\ UNCHANGED <<ledger, op, ghosts>>

(* The session is deleted: its plans, and its ledger.                      *)
DeletePlan(p) ==
    /\ file[p] # None
    /\ Store(p, None)
    /\ open' = [open EXCEPT ![p] = [k \in Claim |-> 0]]
    /\ latest' = [latest EXCEPT ![p] = None]
    /\ deleted' = deleted \cup {p}
    /\ demanded' = demanded \ {p}
    /\ UNCHANGED <<op, behind, overtaken, lost>>

-----------------------------------------------------------------------------
(* update_plan.                                                            *)

(* blocking_gates of the step as it would be stored: what its patched text *)
(* asks for, the live verdict and the stored acceptance.                   *)
Required(p, r) ==
    \/ r.risk
    \/ Verdict(open[p], latest[p]) = "fail"
    \/ latest[p] # None /\ Verdict(open[p], latest[p]) # "pass"

Blocked(p, r) ==
    Required(p, r) /\ r.gate # "accepted" /\ Verdict(open[p], latest[p]) # "pass"

(* What an update writes: the whole file as it was when it was read, with  *)
(* the plan patched. Of the gate it says nothing, and what was told of a   *)
(* plan that it overtakes, or that was lost, counts no longer.             *)
Told(p, r) ==
    said' = [q \in Plan |-> IF q \in overtaken' \cup lost THEN file'[q]
                            ELSE IF q = p THEN [r EXCEPT !.gate = said[p].gate] ELSE said[q]]

\* Mutant: a patch replaces the step, its gates with it.
WriteBack_DropsGate(p, copy, r) ==
    /\ file' = [copy EXCEPT ![p] = [r EXCEPT !.gate = None]]
    /\ overtaken' = overtaken \cup {q \in Plan : file[q] # copy[q]}
    /\ Told(p, r)

WriteBack(p, copy, r) ==
    /\ file' = [copy EXCEPT ![p] = r]
    /\ overtaken' = overtaken \cup {q \in Plan : file[q] # copy[q]}
    /\ Told(p, r)

(* An update that completes a step is followed by its automatic review.    *)
Returns(c, p, done) ==
    op' = [op EXCEPT ![c] = IF done THEN [at |-> "auto review", plan |-> p] ELSE Idle]

(* A patch that does not ask for validation; like every patch it may       *)
(* rewrite the text of the step and set the status of the plan.            *)
UpdateProgress(c, p) ==
    /\ op[c] = Idle /\ file[p] # None
    /\ \E r \in Written({file[p].ready, FALSE}, file[p].gate), done \in BOOLEAN :
         WriteBack(p, file, r) /\ Returns(c, p, done)
    /\ UNCHANGED <<ledger, deleted, behind, lost, demanded>>

(* One that asks, once it is known what the pre-check says.                *)
CheckedUpdate(c, p, copy) ==
    \E r \in Written({TRUE}, copy[p].gate) :
      \/ /\ Blocked(p, r)
         /\ op' = [op EXCEPT ![c] = Idle]
         /\ UNCHANGED <<file, said, overtaken>>
      \/ /\ ~Blocked(p, r)
         /\ WriteBack(p, copy, r)
         /\ \E done \in BOOLEAN : Returns(c, p, done)

(* The pre-check is off, or has its answer in its cache.                   *)
UpdateReady(c, p) ==
    /\ op[c] = Idle /\ file[p] # None
    /\ CheckedUpdate(c, p, file)
    /\ UNCHANGED <<ledger, deleted, behind, lost, demanded>>

AskPrecheck(c, p) ==
    /\ Precheck
    /\ op[c] = Idle /\ file[p] # None
    /\ op' = [op EXCEPT ![c] = [at |-> "pre-check", plan |-> p, copy |-> file]]
    /\ UNCHANGED <<file, ledger, said, ghosts>>

PrecheckAnswers(c) ==
    /\ op[c].at = "pre-check"
    /\ CheckedUpdate(c, op[c].plan, op[c].copy)
    /\ UNCHANGED <<ledger, deleted, behind, lost, demanded>>

-----------------------------------------------------------------------------
(* Reviews.                                                                *)

(* _persist_checklist_findings: one open finding for what is there now,    *)
(* none for what is not; other findings are left alone.                    *)
Checklist(p, found) ==
    open' = [open EXCEPT ![p] =
               [k \in Claim |-> IF k \in CheckClaim THEN IF k \in found THEN 1 ELSE 0
                                ELSE open[p][k]]]

(* append_review_run: the run is the latest of its step.                   *)
Latest(p, demands, by) ==
    /\ latest' = [latest EXCEPT ![p] = [demands |-> demands, by |-> by]]
    /\ demanded' = IF by = "subagent" THEN demanded \ {p}
                   ELSE IF demands THEN demanded \cup {p} ELSE demanded

(* The gate follows.                                                       *)
RunRecorded(p, demands, by) == Latest(p, demands, by) /\ Sync(p)

(* request_analysis_review of a checklist, or of a sub-agent that is not   *)
(* there.                                                                  *)
ChecklistReview(p, demands, found) ==
    /\ file[p] # None
    /\ Checklist(p, found)
    /\ RunRecorded(p, demands, "checklist")
    /\ UNCHANGED <<op, deleted, overtaken, lost>>

(* The checklist has reported when the sub-agent is awaited.               *)
SubagentReviewBegins(c, p, found) ==
    /\ op[c] = Idle /\ file[p] # None
    /\ Checklist(p, found)
    /\ op' = [op EXCEPT ![c] = [at |-> "sub-agent", plan |-> p]]
    /\ behind' = behind \cup {p}
    /\ UNCHANGED <<file, latest, said, deleted, overtaken, lost, demanded>>

(* _persist_subagent_findings: what the reviewer reports is open once,     *)
(* however often it is reported, and stays open until it is resolved.      *)
\* Mutant: every report of the reviewer opens a finding of its own.
Reported_NoDedupe(p, found) ==
    open' = [open EXCEPT ![p] =
               [k \in Claim |-> IF k \in found THEN open[p][k] + 1 ELSE open[p][k]]]

Reported(p, found) ==
    open' = [open EXCEPT ![p] =
               [k \in Claim |-> IF k \in found THEN 1 ELSE open[p][k]]]

SubagentReports(c, found) ==
    /\ op[c].at = "sub-agent"
    /\ Reported(op[c].plan, found)
    /\ RunRecorded(op[c].plan, TRUE, "subagent")
    /\ op' = [op EXCEPT ![c] = Idle]
    /\ UNCHANGED <<deleted, overtaken, lost>>

(* It raised, or its answer could not be parsed.                           *)
SubagentFails(c) ==
    /\ op[c].at = "sub-agent"
    /\ op' = [op EXCEPT ![c] = Idle]
    /\ UNCHANGED <<open, deleted, overtaken, lost>>
    /\ RunRecorded(op[c].plan, TRUE, "checklist")

(* append_finding_resolution.                                              *)
Resolved(p, k) ==
    /\ open[p][k] > 0
    /\ open' = [open EXCEPT ![p][k] = @ - 1]

(* resolve_review_finding.                                                 *)
\* Mutant: the gate is not computed again.
ResolveFinding_Unsynced(p, k) ==
    /\ Resolved(p, k)
    /\ UNCHANGED <<file, said, latest, op, ghosts>>

ResolveFinding(p, k) ==
    /\ Resolved(p, k)
    /\ UNCHANGED latest
    /\ Sync(p)
    /\ UNCHANGED <<op, deleted, overtaken, lost, demanded>>

(* auto_review_completed_steps_hook: a checklist review of a step whose    *)
(* text asks for it, and a ready flag that it contradicts is taken back.   *)
AutoReview(c, found) ==
    /\ op[c].at = "auto review"
    /\ op' = [op EXCEPT ![c] = Idle]
    /\ LET p == op[c].plan
           v == Verdict(open'[p], latest'[p]) IN
         /\ file[p] # None /\ file[p].risk
         /\ Checklist(p, found)
         /\ Latest(p, FALSE, "checklist")
         /\ Store(p, [file[p] EXCEPT !.gate = v, !.ready = @ /\ v = "pass"])
         /\ behind' = behind \ {p}
    /\ UNCHANGED <<deleted, overtaken, lost>>

(* The plan of an automatic review is gone or its text does not ask for    *)
(* one, or the run is stopped: nothing more is written.                    *)
Abandoned(c) ==
    /\ op[c] # Idle
    /\ op' = [op EXCEPT ![c] = Idle]
    /\ UNCHANGED <<file, ledger, said, ghosts>>

-----------------------------------------------------------------------------
(* The process dies between two writes; nothing that was awaited returns.  *)
Dies == op' = [c \in Call |-> Idle]

(* After a write to the ledger, before that of the gate: of a checklist,   *)
(* of a reviewer's report or failure, or of a resolution. A review may die *)
(* before or after its run is appended.                                    *)
CrashBeforeGate(p) ==
    /\ \/ /\ file[p] # None
          /\ \E found \in SUBSET CheckClaim : Checklist(p, found)
          /\ \/ UNCHANGED <<latest, demanded>>
             \/ \E demands \in BOOLEAN : Latest(p, demands, "checklist")
       \/ /\ \E c \in Call : op[c].at = "sub-agent" /\ op[c].plan = p
          /\ \/ /\ \E found \in SUBSET AgentClaim : Reported(p, found)
                /\ UNCHANGED <<latest, demanded>> \/ Latest(p, TRUE, "subagent")
             \/ UNCHANGED open /\ Latest(p, TRUE, "checklist")
       \/ \E k \in Claim : Resolved(p, k) /\ UNCHANGED <<latest, demanded>>
    /\ behind' = behind \cup {p}
    /\ Dies
    /\ UNCHANGED <<file, said, deleted, overtaken, lost>>

(* After the gate of an automatic review, before the ready flag.           *)
CrashBeforeFlag(p) ==
    /\ \E c \in Call : op[c].at = "auto review" /\ op[c].plan = p
    /\ file[p] # None /\ file[p].risk
    /\ \E found \in SUBSET CheckClaim : Checklist(p, found)
    /\ RunRecorded(p, FALSE, "checklist")
    /\ Dies
    /\ UNCHANGED <<deleted, overtaken, lost>>

(* Between the two writes of an acceptance; the first keeps the date and   *)
(* the reason of an acceptance that is there already.                      *)
CrashBeforeAudit(p) ==
    /\ file[p] # None
    /\ Store(p, [file[p] EXCEPT !.gate = IF @ = "accepted" THEN @ ELSE "unaudited"])
    /\ Dies
    /\ UNCHANGED <<ledger, ghosts>>

(* In write_proposals: what is left of the file cannot be read, and counts *)
(* as no plans.                                                            *)
CrashInWrite ==
    /\ lost' = lost \cup {p \in Plan : file[p] # None}
    /\ file' = [p \in Plan |-> None]
    /\ Dies
    /\ UNCHANGED <<ledger, said, deleted, behind, overtaken, demanded>>

-----------------------------------------------------------------------------
Next ==
    \/ \E p \in Plan :
         \/ Propose(p) \/ AcceptRisk(p) \/ DeletePlan(p)
         \/ \E d \in Decision : SubmitDecision(p, d)
         \/ \E demands \in BOOLEAN, found \in SUBSET CheckClaim : ChecklistReview(p, demands, found)
         \/ \E k \in Claim : ResolveFinding(p, k)
    \/ \E c \in Call :
         \/ \E p \in Plan :
              \/ UpdateProgress(c, p) \/ UpdateReady(c, p) \/ AskPrecheck(c, p)
              \/ \E found \in SUBSET CheckClaim : SubagentReviewBegins(c, p, found)
         \/ PrecheckAnswers(c)
         \/ \E found \in SUBSET AgentClaim : SubagentReports(c, found)
         \/ SubagentFails(c)
         \/ \E found \in SUBSET CheckClaim : AutoReview(c, found)
         \/ Abandoned(c)
    \/ \E p \in Plan : CrashBeforeGate(p) \/ CrashBeforeFlag(p) \/ CrashBeforeAudit(p)
    \/ CrashInWrite

Spec == Init /\ [][Next]_vars

-----------------------------------------------------------------------------
(* What a caller was told is stored is stored: decisions, accepted risks,  *)
(* gates and flags get lost only where an update wrote back a file it had  *)
(* read before the pre-check was awaited (read_proposals, write_proposals), *)
(* or where a write of the file broke off.                                 *)
AnsweredIsStored ==
    \A p \in Plan \ (overtaken \cup lost) : file[p] = said[p]

(* The gate a plan shows is the ledger's verdict or a risk the user has    *)
(* accepted since, whatever reviews, resolutions and updates overlap; only *)
(* after a review that awaits its sub-agent, or a crash, may the ledger be *)
(* ahead of it, until the next review or resolution.                       *)
GateIsVerdict ==
    \A p \in Plan \ (overtaken \cup behind) :
        file[p] # None =>
            \/ file[p].gate \in {"accepted", "unaudited"}
            \/ file[p].gate = Verdict(open[p], latest[p])
            \/ file[p].gate = None /\ latest[p] = None

(* README.md:61: "A required sub-agent review remains unresolved until     *)
(* that reviewer has actually run."                                        *)
SubagentScope ==
    \A p \in demanded : Verdict(open[p], latest[p]) # "pass"
=============================================================================
