--------------------------- MODULE ArtifactStore ---------------------------
(***************************************************************************)
(* The disk store of published artifacts and living reports.               *)
(*                                                                         *)
(* An artifact is a directory: one file per version, meta.json with the    *)
(* records of its versions, and for living reports a manifest that only    *)
(* grows.  Every operation runs on the event loop without suspending, so   *)
(* no two of them overlap; what tears them apart is a crash or a failing   *)
(* write between two of their files.  `op` is the operation under way.     *)
(***************************************************************************)
EXTENDS Naturals, FiniteSets

CONSTANTS
    Artifacts,    \* artifact ids
    Sessions,     \* chat sessions
    Contents,     \* published documents, told apart by their digest
    Notes,        \* manifest events, each with an id of its own
    LivingReport, \* living_report_id: the report of each session that has one
    MaxVersion,   \* bound on the versions of one artifact
    MaxTears,     \* bound on the interrupted appends to one manifest
    None

Versions == 1 .. MaxVersion

ASSUME NoneAssumption == None \notin Sessions \cup Contents \cup Artifacts
ASSUME LivingAssumption == 
    /\ DOMAIN LivingReport \subseteq Sessions
    /\ \A s \in DOMAIN LivingReport : LivingReport[s] \in Artifacts
ASSUME BoundsAssumption == MaxVersion \in Nat /\ MaxTears \in Nat

VARIABLES
    files,    \* files[a][v]: content of v<v>.html
    meta,     \* meta.json: owner None means that there is none
    manifest, \* the readable events of manifest.jsonl
    torn,     \* manifests whose last line has no end
    op,       \* the operation under way
    (* What clients have been told, for the properties. *)
    acked,    \* <<artifact, version, content>> answered with success
    noted,    \* manifest events answered with success
    tears,    \* how often an append to a manifest was interrupted
    damaged   \* artifacts whose removal was interrupted

disk == <<files, meta>>
report == <<manifest, torn, noted, tears>>
vars == <<files, meta, manifest, torn, op, acked, noted, tears, damaged>>

NoMeta == [owner |-> None, records |-> {}, latest |-> 0]

Idle == [step |-> "idle", art |-> None, session |-> None, version |-> 0,
         content |-> None, rest |-> {}]

TypeOK ==
    /\ files \in [Artifacts -> [Versions -> Contents \cup {None}]]
    /\ meta \in [Artifacts -> [owner: Sessions \cup {None},
                               records: SUBSET (Versions \X Contents),
                               latest: 0 .. MaxVersion]]
    /\ manifest \in [Artifacts -> SUBSET Notes]
    /\ torn \in SUBSET Artifacts
    /\ op \in [step: {"idle", "version", "source", "record", "remove"},
               art: Artifacts \cup {None}, session: Sessions \cup {None},
               version: 0 .. MaxVersion, content: Contents \cup {None},
               rest: SUBSET Artifacts]
    /\ acked \in SUBSET (Artifacts \X Versions \X Contents)
    /\ noted \in [Artifacts -> SUBSET Notes]
    /\ tears \in [Artifacts -> Nat]
    /\ damaged \in SUBSET Artifacts

Init ==
    /\ files = [a \in Artifacts |-> [v \in Versions |-> None]]
    /\ meta = [a \in Artifacts |-> NoMeta]
    /\ manifest = [a \in Artifacts |-> {}]
    /\ torn = {}
    /\ op = Idle
    /\ acked = {}
    /\ noted = [a \in Artifacts |-> {}]
    /\ tears = [a \in Artifacts |-> 0]
    /\ damaged = {}

-----------------------------------------------------------------------------
(* write_artifact_version.                                                 *)

IsLatest_FromRecords(a, v) == v = meta[a].latest

(* The number of the newest version file, 0 if there is none. *)
IsLatest(a, v) ==
    /\ v # 0 => files[a][v] # None
    /\ \A w \in Versions : files[a][w] # None => w <= v

(* A base version is only compared when the artifact has versions. *)
BaseAccepted(base, latest) == base = None \/ latest = 0 \/ base = latest

(* The id of a living report is a digest of its session's id: other        *)
(* sessions do not come to name it.                                        *)
Knows(s, a) == \A t \in DOMAIN LivingReport : LivingReport[t] = a => t = s

OwnedOrNew(a, s) == meta[a].owner \in {None, s}

Recorded_AnyDigest(a, c) == {r[1] : r \in meta[a].records}

(* The versions whose record has the digest of this document. *)
Recorded(a, c) == {v \in Versions : <<v, c>> \in meta[a].records}

(* The same document again: only the workspace copy is written, and the    *)
(* version that has it already is the answer.                              *)
PublishAgain(s, a, c, base) ==
    /\ op = Idle
    /\ Knows(s, a)
    /\ \E latest \in 0 .. MaxVersion :
         IsLatest(a, latest) /\ BaseAccepted(base, latest)
    /\ OwnedOrNew(a, s)
    /\ \E v \in Recorded(a, c) : acked' = acked \cup {<<a, v, c>>}
    /\ UNCHANGED <<disk, report, op, damaged>>

PublishBegins(s, a, c, base) ==
    /\ op = Idle
    /\ Knows(s, a)
    /\ OwnedOrNew(a, s)
    /\ Recorded(a, c) = {}
    /\ \E latest \in 0 .. MaxVersion :
         /\ IsLatest(a, latest)
         /\ BaseAccepted(base, latest)
         /\ latest < MaxVersion
         /\ op' = [step |-> "version", art |-> a, session |-> s,
                   version |-> latest + 1, content |-> c, rest |-> {}]
    /\ UNCHANGED <<disk, report, acked, damaged>>

WriteVersion ==
    /\ op.step = "version"
    /\ files' = [files EXCEPT ![op.art][op.version] = op.content]
    /\ op' = [op EXCEPT !.step = "source"]
    /\ UNCHANGED <<meta, report, acked, damaged>>

(* The copy in the workspace is not part of the store: only that a crash   *)
(* can fall before and after it matters.                                   *)
WriteSource ==
    /\ op.step = "source"
    /\ op' = [op EXCEPT !.step = "record"]
    /\ UNCHANGED <<disk, report, acked, damaged>>

WriteRecord ==
    /\ op.step = "record"
    /\ meta' = [meta EXCEPT ![op.art] =
                  [owner |-> op.session,
                   records |-> @.records \cup {<<op.version, op.content>>},
                   latest |-> op.version]]
    /\ acked' = acked \cup {<<op.art, op.version, op.content>>}
    /\ op' = Idle
    /\ UNCHANGED <<files, report, damaged>>

-----------------------------------------------------------------------------
(* Removal.  rmtree removes the files of a directory in any order; nobody  *)
(* is promised a version of an artifact that is being removed.             *)

RemovalBegins(a, rest) ==
    /\ op' = [Idle EXCEPT !.step = "remove", !.art = a, !.rest = rest]
    /\ acked' = {t \in acked : t[1] # a}
    /\ noted' = [noted EXCEPT ![a] = {}]
    /\ UNCHANGED <<disk, manifest, torn, tears, damaged>>

(* delete_artifact, from the tool or the page, by the owning session. *)
Delete(s, a) ==
    /\ op = Idle
    /\ meta[a].owner = s
    /\ RemovalBegins(a, {})

(* The cleanup of a deleted session removes one owned artifact after the   *)
(* other.                                                                  *)
DeleteSession(s) ==
    /\ op = Idle
    /\ LET owned == {a \in Artifacts : meta[a].owner = s}
       IN  \E a \in owned : RemovalBegins(a, owned \ {a})

RemoveVersion(v) ==
    /\ op.step = "remove"
    /\ files[op.art][v] # None
    /\ files' = [files EXCEPT ![op.art][v] = None]
    /\ UNCHANGED <<meta, report, op, acked, damaged>>

RemoveMeta ==
    /\ op.step = "remove"
    /\ meta[op.art] # NoMeta
    /\ meta' = [meta EXCEPT ![op.art] = NoMeta]
    /\ UNCHANGED <<files, report, op, acked, damaged>>

RemoveManifest ==
    /\ op.step = "remove"
    /\ manifest[op.art] # {} \/ op.art \in torn
    /\ manifest' = [manifest EXCEPT ![op.art] = {}]
    /\ torn' = torn \ {op.art}
    /\ UNCHANGED <<disk, op, acked, noted, tears, damaged>>

RemovalEnds ==
    /\ op.step = "remove"
    /\ meta[op.art] = NoMeta
    /\ manifest[op.art] = {} /\ op.art \notin torn
    /\ \A v \in Versions : files[op.art][v] = None
    /\ damaged' = damaged \ {op.art}
    /\ IF op.rest = {}
         THEN op' = Idle /\ UNCHANGED <<acked, noted>>
         ELSE \E a \in op.rest :
                /\ op' = [op EXCEPT !.art = a, !.rest = @ \ {a}]
                /\ acked' = {t \in acked : t[1] # a}
                /\ noted' = [noted EXCEPT ![a] = {}]
    /\ UNCHANGED <<disk, manifest, torn, tears>>

(* A crash or an error of the file system ends whatever is under way.      *)
Interrupted ==
    /\ op # Idle
    /\ op' = Idle
    /\ damaged' = IF op.step = "remove" THEN damaged \cup {op.art} ELSE damaged
    /\ UNCHANGED <<disk, report, acked>>

-----------------------------------------------------------------------------
(* append_living_report_event: ensure_living_report, one line appended,    *)
(* ensure_living_report again, which then changes no more than a date.     *)

EnsureReport(s) ==
    meta' = [meta EXCEPT ![LivingReport[s]].owner = s]

Unused(n) == \A a \in Artifacts : n \notin manifest[a] \cup noted[a]

Note_StillTorn(s, n) ==
    LET a == LivingReport[s] IN
    /\ op = Idle
    /\ Unused(n)
    /\ EnsureReport(s)
    /\ manifest' = [manifest EXCEPT ![a] = IF a \in torn THEN @ ELSE @ \cup {n}]
    /\ noted' = [noted EXCEPT ![a] = @ \cup {n}]
    /\ UNCHANGED <<files, op, acked, torn, tears, damaged>>

(* A line without an end and the line appended to it become one line that  *)
(* read_manifest_events skips.                                             *)
Note(s, n) ==
    LET a == LivingReport[s] IN
    /\ op = Idle
    /\ Unused(n)
    /\ EnsureReport(s)
    /\ manifest' = [manifest EXCEPT ![a] = IF a \in torn THEN @ ELSE @ \cup {n}]
    /\ torn' = torn \ {a}
    /\ noted' = [noted EXCEPT ![a] = @ \cup {n}]
    /\ UNCHANGED <<files, op, acked, tears, damaged>>

NoteInterrupted(s) ==
    LET a == LivingReport[s] IN
    /\ op = Idle
    /\ tears[a] < MaxTears
    /\ EnsureReport(s)
    /\ \E partial \in BOOLEAN : torn' = IF partial THEN torn \cup {a} ELSE torn
    /\ tears' = [tears EXCEPT ![a] = @ + 1]
    /\ UNCHANGED <<files, manifest, op, acked, noted, damaged>>

-----------------------------------------------------------------------------
Next ==
    \/ \E s \in Sessions, a \in Artifacts, c \in Contents, base \in Versions \cup {None} :
         PublishAgain(s, a, c, base) \/ PublishBegins(s, a, c, base)
    \/ WriteVersion \/ WriteSource \/ WriteRecord
    \/ \E s \in Sessions, a \in Artifacts : Delete(s, a)
    \/ \E s \in Sessions : DeleteSession(s)
    \/ \E v \in Versions : RemoveVersion(v)
    \/ RemoveMeta \/ RemoveManifest \/ RemovalEnds \/ Interrupted
    \/ \E s \in DOMAIN LivingReport :
         NoteInterrupted(s) \/ \E n \in Notes : Note(s, n)

Spec == Init /\ [][Next]_vars

-----------------------------------------------------------------------------
Whole(a) == a \notin damaged /\ ~(op.step = "remove" /\ op.art = a)

(* Whatever write the last crash fell between, every version that meta.json *)
(* records has its file with the recorded document: that is what lets      *)
(* PublishAgain answer from the records alone.                             *)
RecordsHaveFiles ==
    \A a \in Artifacts : Whole(a) =>
        \A r \in meta[a].records : files[a][r[1]] = r[2]

(* A version number returned by publish_artifact serves the document that  *)
(* was published under it until the artifact is removed.                   *)
AckedServed ==
    \A t \in acked : Whole(t[1]) =>
        /\ files[t[1]][t[2]] = t[3]
        /\ <<t[2], t[3]>> \in meta[t[1]].records

(* The records are the history of the artifact: one per version, none past *)
(* latest_version, and latest_version among them.  read_artifact, which    *)
(* goes by the records, and the page, which goes by the files, agree on    *)
(* the newest version unless a publish was interrupted before its record.  *)
RecordsInOrder ==
    \A a \in Artifacts : Whole(a) =>
        LET recorded == {r[1] : r \in meta[a].records} IN
        /\ \A r, q \in meta[a].records : r[1] = q[1] => r = q
        /\ \A v \in recorded : v <= meta[a].latest
        /\ meta[a].latest = 0 \/ meta[a].latest \in recorded
        /\ {v \in Versions : files[a][v] # None} \subseteq recorded
              => IsLatest(a, meta[a].latest)

(* An interrupted append costs at most one event that was acknowledged     *)
(* later: the one that is glued to the unfinished line.                    *)
NotesKept ==
    \A a \in Artifacts : Cardinality(noted[a] \ manifest[a]) <= tears[a]

(* A version file is never written over: not by a revision, not by a       *)
(* publish after a crash, not after an interrupted removal.                *)
NeverRewritten ==
    [][\A a \in Artifacts, v \in Versions :
         files[a][v] # None => files'[a][v] \in {files[a][v], None}]_vars
=============================================================================
