------------------------ MODULE ArtifactStoreProofs ------------------------
(***************************************************************************)
(* Proofs about ArtifactStore, for every set of artifacts, sessions and    *)
(* documents, any number of versions and any number of interruptions.      *)
(***************************************************************************)
EXTENDS ArtifactStore, FiniteSetTheorems, TLAPS

Publishing == {"version", "source", "record"}

OpOK ==
    /\ op.step \in Publishing =>
         /\ op.art \in Artifacts /\ op.session \in Sessions
         /\ op.version \in Versions /\ op.content \in Contents
    /\ op.step = "remove" => op.art \in Artifacts /\ op.art \notin op.rest

(* The version being written is new, and newer than every record.          *)
PublishOK ==
    /\ op.step = "version" => files[op.art][op.version] = None
    /\ op.step \in {"source", "record"} => files[op.art][op.version] = op.content
    /\ op.step \in Publishing /\ op.art \notin damaged =>
         \A r \in meta[op.art].records : r[1] < op.version

(* Nothing is promised of what is being removed.                           *)
RemovalOK ==
    op.step = "remove" =>
        /\ \A t \in acked : t[1] # op.art
        /\ noted[op.art] = {}

Ordered ==
    \A a \in Artifacts : Whole(a) =>
        /\ \A r, q \in meta[a].records : r[1] = q[1] => r = q
        /\ \A r \in meta[a].records : r[1] <= meta[a].latest
        /\ meta[a].latest = 0 \/ \E r \in meta[a].records : r[1] = meta[a].latest

(* A torn manifest has an interruption to its account that has not cost    *)
(* anything yet.                                                           *)
NotesOK ==
    \A a \in Artifacts :
        /\ IsFiniteSet(noted[a])
        /\ Cardinality(noted[a] \ manifest[a]) <= tears[a]
        /\ a \in torn => Cardinality(noted[a] \ manifest[a]) + 1 <= tears[a]

DiskOK == OpOK /\ PublishOK /\ RecordsHaveFiles /\ AckedServed /\ Ordered

Inv == TypeOK /\ DiskOK /\ RemovalOK /\ NotesOK

-----------------------------------------------------------------------------
LEMMA InitInv == Init => Inv
<1> SUFFICES ASSUME Init PROVE Inv
  OBVIOUS
<1>1. TypeOK
  BY NoneAssumption, BoundsAssumption DEF Init, TypeOK, NoMeta, Idle, Versions
<1>2. NotesOK
  <2> SUFFICES ASSUME NEW a \in Artifacts
               PROVE  /\ IsFiniteSet(noted[a])
                      /\ Cardinality(noted[a] \ manifest[a]) <= tears[a]
                      /\ a \notin torn
    BY DEF NotesOK
  <2>1. noted[a] = {} /\ noted[a] \ manifest[a] = {} /\ tears[a] = 0 /\ a \notin torn
    BY DEF Init
  <2> QED
    BY <2>1, FS_EmptySet
<1> QED
  BY <1>1, <1>2 DEF Init, Inv, DiskOK, OpOK, PublishOK, RecordsHaveFiles, AckedServed, Ordered,
     RemovalOK, Idle, NoMeta, Publishing

LEMMA RemovalType ==
  ASSUME TypeOK, NEW a \in Artifacts, NEW rest \in SUBSET Artifacts, RemovalBegins(a, rest)
  PROVE  TypeOK'
<1> USE NoneAssumption, BoundsAssumption DEF TypeOK, RemovalBegins, disk
<1>1. op' = [step |-> "remove", art |-> a, session |-> None, version |-> 0,
             content |-> None, rest |-> rest]
  BY DEF Idle
<1>2. acked' \in SUBSET (Artifacts \X Versions \X Contents)
  OBVIOUS
<1>3. noted' \in [Artifacts -> SUBSET Notes]
  OBVIOUS
<1> QED
  BY <1>1, <1>2, <1>3

LEMMA EnsureKeeps ==
  ASSUME TypeOK, NEW s \in DOMAIN LivingReport, EnsureReport(s)
  PROVE  /\ meta' \in [Artifacts -> [owner: Sessions \cup {None},
                                    records: SUBSET (Versions \X Contents),
                                    latest: 0 .. MaxVersion]]
         /\ \A a \in Artifacts : /\ meta'[a].records = meta[a].records
                                /\ meta'[a].latest = meta[a].latest
<1>1. LivingReport[s] \in Artifacts /\ s \in Sessions
  BY LivingAssumption
<1> QED
  BY <1>1 DEF TypeOK, EnsureReport

LEMMA NextType == Inv /\ [Next]_vars => TypeOK'
<1> SUFFICES ASSUME Inv, [Next]_vars PROVE TypeOK'
  OBVIOUS
<1> USE NoneAssumption, BoundsAssumption, LivingAssumption DEF Inv, DiskOK, TypeOK, disk, report, Versions
<1>1. ASSUME NEW s \in Sessions, NEW a \in Artifacts, NEW c \in Contents,
             NEW base \in Versions \cup {None}, PublishAgain(s, a, c, base)
      PROVE  TypeOK'
  BY <1>1 DEF PublishAgain, Recorded
<1>2. ASSUME NEW s \in Sessions, NEW a \in Artifacts, NEW c \in Contents,
             NEW base \in Versions \cup {None}, PublishBegins(s, a, c, base)
      PROVE  TypeOK'
  BY <1>2 DEF PublishBegins
<1>3. CASE WriteVersion
  BY <1>3 DEF WriteVersion, OpOK, Publishing
<1>4. CASE WriteSource
  BY <1>4 DEF WriteSource
<1>5. CASE WriteRecord
  <2> USE <1>5 DEF WriteRecord
  <2>1. /\ op.art \in Artifacts /\ op.session \in Sessions
        /\ op.version \in Versions /\ op.content \in Contents
    BY DEF OpOK, Publishing
  <2>2. <<op.version, op.content>> \in Versions \X Contents
    BY <2>1
  <2>3. meta' \in [Artifacts -> [owner: Sessions \cup {None},
                                records: SUBSET (Versions \X Contents), latest: 0 .. MaxVersion]]
    BY <2>1, <2>2
  <2>4. acked' \in SUBSET (Artifacts \X Versions \X Contents)
    BY <2>1
  <2> QED
    BY <2>3, <2>4 DEF Idle
<1>6. ASSUME NEW s \in Sessions, NEW a \in Artifacts, Delete(s, a) PROVE TypeOK'
  BY <1>6, RemovalType DEF Delete
<1>7. ASSUME NEW s \in Sessions, DeleteSession(s) PROVE TypeOK'
  <2>1. PICK a \in Artifacts : \E rest \in SUBSET Artifacts : RemovalBegins(a, rest)
    BY <1>7 DEF DeleteSession
  <2> QED
    BY <2>1, RemovalType
<1>8. ASSUME NEW v \in Versions, RemoveVersion(v) PROVE TypeOK'
  BY <1>8 DEF RemoveVersion, OpOK
<1>9. CASE RemoveMeta
  BY <1>9 DEF RemoveMeta, OpOK, NoMeta
<1>10. CASE RemoveManifest
  BY <1>10 DEF RemoveManifest, OpOK
<1>11. CASE RemovalEnds
  <2> USE <1>11 DEF RemovalEnds
  <2>1. CASE op.rest = {}
    BY <2>1 DEF Idle
  <2>2. CASE op.rest # {}
    <3>1. PICK a \in op.rest :
            /\ op' = [op EXCEPT !.art = a, !.rest = @ \ {a}]
            /\ acked' = {t \in acked : t[1] # a}
            /\ noted' = [noted EXCEPT ![a] = {}]
      BY <2>2
    <3>2. a \in Artifacts /\ op.rest \ {a} \in SUBSET Artifacts
      OBVIOUS
    <3> QED
      BY <3>1, <3>2
  <2> QED
    BY <2>1, <2>2
<1>12. CASE Interrupted
  BY <1>12 DEF Interrupted, OpOK, Idle
<1>13. ASSUME NEW s \in DOMAIN LivingReport, NEW n \in Notes, Note(s, n) PROVE TypeOK'
  <2> DEFINE a == LivingReport[s]
  <2>1. /\ manifest' = [manifest EXCEPT ![a] = IF a \in torn THEN @ ELSE @ \cup {n}]
        /\ noted' = [noted EXCEPT ![a] = @ \cup {n}] /\ torn' = torn \ {a}
        /\ EnsureReport(s) /\ UNCHANGED <<files, op, acked, tears, damaged>>
    BY <1>13 DEF Note
  <2>2. a \in Artifacts
    OBVIOUS
  <2>3. manifest' \in [Artifacts -> SUBSET Notes] /\ noted' \in [Artifacts -> SUBSET Notes]
    BY <2>1, <2>2
  <2> HIDE DEF a
  <2> QED
    BY <2>1, <2>3, EnsureKeeps
<1>14. ASSUME NEW s \in DOMAIN LivingReport, NoteInterrupted(s) PROVE TypeOK'
  <2> DEFINE a == LivingReport[s]
  <2>1. /\ torn' \in {torn, torn \cup {a}}
        /\ tears' = [tears EXCEPT ![a] = @ + 1]
        /\ EnsureReport(s) /\ UNCHANGED <<files, manifest, op, acked, noted, damaged>>
    BY <1>14 DEF NoteInterrupted
  <2>2. a \in Artifacts
    OBVIOUS
  <2>3. tears' \in [Artifacts -> Nat] /\ torn' \in SUBSET Artifacts
    BY <2>1, <2>2
  <2> HIDE DEF a
  <2> QED
    BY <2>1, <2>3, EnsureKeeps
<1>15. CASE UNCHANGED vars
  BY <1>15 DEF vars
<1> QED
  BY <1>1, <1>2, <1>3, <1>4, <1>5, <1>6, <1>7, <1>8, <1>9, <1>10, <1>11, <1>12, <1>13, <1>14, <1>15
  DEF Next

-----------------------------------------------------------------------------
(* What concerns the manifest only leaves the disk's promises alone.       *)
LEMMA DiskKept ==
  ASSUME TypeOK, DiskOK,
         \A a \in Artifacts : /\ meta'[a].records = meta[a].records
                            /\ meta'[a].latest = meta[a].latest,
         files' = files, op' = op, acked' = acked, damaged' = damaged
  PROVE  DiskOK'
<1>1. OpOK' /\ AckedServed' /\ RecordsHaveFiles' /\ Ordered'
  BY DEF TypeOK, DiskOK, OpOK, AckedServed, RecordsHaveFiles, Ordered, Whole
<1>2. PublishOK'
  BY DEF TypeOK, DiskOK, OpOK, PublishOK, Publishing
<1> QED
  BY <1>1, <1>2 DEF DiskOK

LEMMA RemovalDisk ==
  ASSUME TypeOK, DiskOK, op = Idle, NEW a \in Artifacts, NEW rest, a \notin rest,
         RemovalBegins(a, rest)
  PROVE  DiskOK'
<1>1. op'.step = "remove" /\ op'.art = a /\ op'.rest = rest
  BY DEF RemovalBegins, Idle
<1>2. OpOK' /\ PublishOK'
  BY <1>1 DEF OpOK, PublishOK, Publishing
<1>3. \A b \in Artifacts : Whole(b)' => Whole(b)
  BY DEF RemovalBegins, Whole, Idle
<1>4. RecordsHaveFiles' /\ Ordered' /\ AckedServed'
  BY <1>3 DEF DiskOK, RecordsHaveFiles, Ordered, AckedServed, RemovalBegins, disk, TypeOK
<1> QED
  BY <1>2, <1>4 DEF DiskOK

LEMMA NextDisk == Inv /\ [Next]_vars => DiskOK'
<1> SUFFICES ASSUME Inv, [Next]_vars PROVE DiskOK'
  OBVIOUS
<1> USE NoneAssumption, BoundsAssumption DEF Inv, disk, report
<1>1. ASSUME NEW s \in Sessions, NEW a \in Artifacts, NEW c \in Contents,
             NEW base \in Versions \cup {None}, PublishAgain(s, a, c, base)
      PROVE  DiskOK'
  <2>1. PICK v \in Recorded(a, c) : acked' = acked \cup {<<a, v, c>>}
    BY <1>1 DEF PublishAgain
  <2>2. Whole(a) => files[a][v] = c /\ <<v, c>> \in meta[a].records
    BY <2>1 DEF Recorded, DiskOK, RecordsHaveFiles
  <2>3. UNCHANGED <<files, meta, op, damaged>>
    BY <1>1 DEF PublishAgain
  <2>4. AckedServed'
    BY <2>1, <2>2, <2>3 DEF DiskOK, AckedServed, Whole
  <2> QED
    BY <2>3, <2>4 DEF DiskOK, OpOK, PublishOK, RecordsHaveFiles, Ordered, Whole
<1>2. ASSUME NEW s \in Sessions, NEW a \in Artifacts, NEW c \in Contents,
             NEW base \in Versions \cup {None}, PublishBegins(s, a, c, base)
      PROVE  DiskOK'
  <2>1. PICK latest \in 0 .. MaxVersion :
          /\ IsLatest(a, latest) /\ latest < MaxVersion
          /\ op' = [step |-> "version", art |-> a, session |-> s,
                    version |-> latest + 1, content |-> c, rest |-> {}]
    BY <1>2 DEF PublishBegins
  <2>2. op = Idle /\ UNCHANGED <<files, meta, acked, damaged>>
    BY <1>2 DEF PublishBegins
  <2>3. latest + 1 \in Versions /\ files[a][latest + 1] = None
    BY <2>1 DEF IsLatest, Versions
  <2>4. a \notin damaged => \A r \in meta[a].records : r[1] < latest + 1
    <3> SUFFICES ASSUME a \notin damaged, NEW r \in meta[a].records PROVE r[1] < latest + 1
      OBVIOUS
    <3>1. r[1] \in Versions /\ r[2] \in Contents
      BY DEF TypeOK
    <3>2. files[a][r[1]] = r[2]
      BY <2>2 DEF Whole, Idle, DiskOK, RecordsHaveFiles
    <3>3. r[1] <= latest
      BY <3>1, <3>2, <2>1 DEF IsLatest
    <3> QED
      BY <3>1, <3>3 DEF Versions
  <2>5. OpOK' /\ PublishOK'
    BY <2>1, <2>2, <2>3, <2>4 DEF OpOK, PublishOK, Publishing
  <2>6. \A b \in Artifacts : Whole(b)' => Whole(b)
    BY <2>2 DEF Whole, Idle
  <2> QED
    BY <2>2, <2>5, <2>6 DEF DiskOK, RecordsHaveFiles, Ordered, AckedServed, TypeOK
<1>3. CASE WriteVersion
  <2>1. /\ op.step = "version" /\ op' = [op EXCEPT !.step = "source"]
        /\ files' = [files EXCEPT ![op.art][op.version] = op.content]
        /\ UNCHANGED <<meta, acked, damaged>>
    BY <1>3 DEF WriteVersion
  <2>2. OpOK'
    BY <2>1 DEF DiskOK, OpOK, Publishing, TypeOK
  <2>3. op'.art = op.art /\ op'.version = op.version /\ op'.content = op.content /\ op'.step = "source"
    BY <2>1 DEF TypeOK
  <2>4. PublishOK'
    BY <2>1, <2>3 DEF DiskOK, OpOK, PublishOK, Publishing, TypeOK
  <2>5. \A b \in Artifacts : Whole(b)' => Whole(b)
    BY <2>1, <2>3 DEF Whole
  <2>6. \A b \in Artifacts, v \in Versions :
          b # op.art \/ v # op.version => files'[b][v] = files[b][v]
    BY <2>1 DEF DiskOK, OpOK, Publishing, TypeOK
  <2>7. Whole(op.art) => \A r \in meta[op.art].records : r[1] # op.version
    BY <2>1 DEF DiskOK, PublishOK, Publishing, Whole, OpOK, TypeOK, Versions
  <2>8. RecordsHaveFiles'
    BY <2>1, <2>5, <2>6, <2>7 DEF DiskOK, RecordsHaveFiles, TypeOK
  <2>9. AckedServed'
    BY <2>1, <2>5, <2>6, <2>7 DEF DiskOK, AckedServed, TypeOK
  <2>10. Ordered'
    BY <2>1, <2>5 DEF DiskOK, Ordered
  <2> QED
    BY <2>2, <2>4, <2>8, <2>9, <2>10 DEF DiskOK
<1>4. CASE WriteSource
  BY <1>4 DEF WriteSource, DiskOK, OpOK, PublishOK, Publishing, RecordsHaveFiles, AckedServed,
     Ordered, Whole, TypeOK
<1>5. CASE WriteRecord
  <2>1. /\ op.step = "record" /\ op' = Idle /\ UNCHANGED <<files, damaged>>
        /\ acked' = acked \cup {<<op.art, op.version, op.content>>}
    BY <1>5 DEF WriteRecord
  <2>2. /\ op.art \in Artifacts /\ op.version \in Versions
        /\ files[op.art][op.version] = op.content
    BY <2>1 DEF DiskOK, OpOK, PublishOK, Publishing
  <2>3. /\ meta'[op.art].records = meta[op.art].records \cup {<<op.version, op.content>>}
        /\ meta'[op.art].latest = op.version
        /\ \A b \in Artifacts \ {op.art} : meta'[b] = meta[b]
    BY <1>5, <2>2 DEF WriteRecord, TypeOK
  <2>4. OpOK' /\ PublishOK'
    BY <2>1 DEF OpOK, PublishOK, Publishing, Idle
  <2>5. \A b \in Artifacts : Whole(b)' => Whole(b)
    BY <2>1 DEF Whole
  <2>6. RecordsHaveFiles'
    BY <2>1, <2>2, <2>3, <2>5 DEF DiskOK, RecordsHaveFiles
  <2>7. AckedServed'
    BY <2>1, <2>2, <2>3, <2>5 DEF DiskOK, AckedServed, TypeOK
  <2>8. op.art \notin damaged =>
          \A r \in meta[op.art].records : r[1] < op.version /\ r[1] \in Nat
    <3>2. \A r \in meta[op.art].records : r[1] \in Nat
      <4>1. meta[op.art].records \in SUBSET (Versions \X Contents)
        BY <2>2 DEF TypeOK
      <4> QED
        BY <4>1 DEF Versions
    <3> QED
      BY <2>1, <3>2 DEF DiskOK, PublishOK, Publishing
  <2>9. Ordered'
    <3> SUFFICES ASSUME NEW b \in Artifacts, Whole(b)'
                 PROVE /\ \A r, q \in meta'[b].records : r[1] = q[1] => r = q
                       /\ \A r \in meta'[b].records : r[1] <= meta'[b].latest
                       /\ meta'[b].latest = 0 \/ \E r \in meta'[b].records : r[1] = meta'[b].latest
      BY DEF Ordered
    <3>1. CASE b # op.art
      BY <3>1, <2>3, <2>5 DEF DiskOK, Ordered
    <3>2. CASE b = op.art
      <4> DEFINE new == <<op.version, op.content>>
      <4>1. meta'[b].records = meta[b].records \cup {new} /\ meta'[b].latest = op.version
        BY <3>2, <2>3
      <4>2. \A r \in meta[b].records : r[1] < op.version /\ r[1] \in Nat
        BY <3>2, <2>1, <2>8 DEF Whole
      <4>3. \A r, q \in meta[b].records : r[1] = q[1] => r = q
        BY <2>5 DEF DiskOK, Ordered
      <4>4. op.version \in Nat /\ new[1] = op.version
        BY <2>2 DEF Versions
      <4> HIDE DEF new
      <4>5. \A r, q \in meta'[b].records : r[1] = q[1] => r = q
        BY <4>1, <4>2, <4>3, <4>4
      <4>6. \A r \in meta'[b].records : r[1] <= meta'[b].latest
        BY <4>1, <4>2, <4>4
      <4>7. \E r \in meta'[b].records : r[1] = meta'[b].latest
        BY <4>1, <4>4
      <4> QED
        BY <4>5, <4>6, <4>7
    <3> QED
      BY <3>1, <3>2
  <2> QED
    BY <2>4, <2>6, <2>7, <2>9 DEF DiskOK
<1>6. ASSUME NEW s \in Sessions, NEW a \in Artifacts, Delete(s, a) PROVE DiskOK'
  BY <1>6, RemovalDisk DEF Delete
<1>7. ASSUME NEW s \in Sessions, DeleteSession(s) PROVE DiskOK'
  <2>1. PICK a \in Artifacts : \E rest : a \notin rest /\ RemovalBegins(a, rest)
    BY <1>7 DEF DeleteSession
  <2> QED
    BY <1>7, <2>1, RemovalDisk DEF DeleteSession
<1>8. ASSUME NEW v \in Versions, RemoveVersion(v) PROVE DiskOK'
  <2>1. /\ op.step = "remove" /\ UNCHANGED <<meta, op, acked, damaged>>
        /\ \A b \in Artifacts \ {op.art} : files'[b] = files[b]
    BY <1>8 DEF RemoveVersion, TypeOK
  <2>2. \A b \in Artifacts : Whole(b)' => Whole(b) /\ b # op.art
    BY <2>1 DEF Whole
  <2> QED
    BY <2>1, <2>2 DEF DiskOK, OpOK, PublishOK, Publishing, RecordsHaveFiles, AckedServed, Ordered, TypeOK
<1>9. CASE RemoveMeta
  <2>1. /\ op.step = "remove" /\ UNCHANGED <<files, op, acked, damaged>>
        /\ \A b \in Artifacts \ {op.art} : meta'[b] = meta[b]
    BY <1>9 DEF RemoveMeta, TypeOK
  <2>2. \A b \in Artifacts : Whole(b)' => Whole(b) /\ b # op.art
    BY <2>1 DEF Whole
  <2> QED
    BY <2>1, <2>2 DEF DiskOK, OpOK, PublishOK, Publishing, RecordsHaveFiles, AckedServed, Ordered, TypeOK
<1>10. CASE RemoveManifest
  BY <1>10, DiskKept DEF RemoveManifest
<1>11. CASE RemovalEnds
  <2>1. /\ op.step = "remove" /\ meta[op.art] = NoMeta /\ UNCHANGED <<files, meta>>
        /\ damaged' = damaged \ {op.art} /\ acked' \subseteq acked
        /\ \A t \in acked : t[1] # op.art
    BY <1>11 DEF RemovalEnds, RemovalOK
  <2>2. \/ op' = Idle
        \/ \E a \in op.rest : op' = [op EXCEPT !.art = a, !.rest = @ \ {a}]
    BY <1>11 DEF RemovalEnds
  <2>3. OpOK' /\ PublishOK'
    <3>1. CASE op' = Idle
      BY <3>1 DEF OpOK, PublishOK, Publishing, Idle
    <3>2. ASSUME NEW a \in op.rest, op' = [op EXCEPT !.art = a, !.rest = @ \ {a}]
          PROVE  OpOK' /\ PublishOK'
      <4>1. op'.step = "remove" /\ op'.art = a /\ op'.rest = op.rest \ {a} /\ a \in Artifacts
        BY <3>2, <2>1 DEF TypeOK
      <4> QED
        BY <4>1 DEF OpOK, PublishOK, Publishing
    <3> QED
      BY <3>1, <3>2, <2>2
  <2>4. \A b \in Artifacts : Whole(b)' => b = op.art \/ Whole(b)
    BY <2>1 DEF Whole
  <2>5. RecordsHaveFiles' /\ Ordered'
    BY <2>1, <2>4 DEF DiskOK, RecordsHaveFiles, Ordered, NoMeta
  <2>6. AckedServed'
    BY <2>1, <2>4 DEF DiskOK, AckedServed, TypeOK
  <2> QED
    BY <2>3, <2>5, <2>6 DEF DiskOK
<1>12. CASE Interrupted
  <2>1. \A b \in Artifacts : Whole(b)' => Whole(b)
    BY <1>12 DEF Interrupted, Whole
  <2> QED
    BY <1>12, <2>1 DEF Interrupted, DiskOK, OpOK, PublishOK, Publishing, RecordsHaveFiles,
       AckedServed, Ordered, Idle, TypeOK
<1>13. ASSUME NEW s \in DOMAIN LivingReport, NEW n \in Notes, Note(s, n) PROVE DiskOK'
  BY <1>13, EnsureKeeps, DiskKept DEF Note
<1>14. ASSUME NEW s \in DOMAIN LivingReport, NoteInterrupted(s) PROVE DiskOK'
  BY <1>14, EnsureKeeps, DiskKept DEF NoteInterrupted
<1>15. CASE UNCHANGED vars
  BY <1>15, DiskKept DEF vars
<1> QED
  BY <1>1, <1>2, <1>3, <1>4, <1>5, <1>6, <1>7, <1>8, <1>9, <1>10, <1>11, <1>12, <1>13, <1>14, <1>15
  DEF Next

-----------------------------------------------------------------------------
(* The manifests. *)

LEMMA NextRemoval == Inv /\ [Next]_vars => RemovalOK'
<1> SUFFICES ASSUME Inv, [Next]_vars, op'.step = "remove"
             PROVE  /\ \A t \in acked' : t[1] # op'.art
                    /\ noted'[op'.art] = {}
  BY DEF RemovalOK
<1> USE DEF Inv, report
<1>1. ASSUME NEW a \in Artifacts, NEW rest, RemovalBegins(a, rest)
      PROVE  /\ \A t \in acked' : t[1] # op'.art
             /\ noted'[op'.art] = {}
  <2>1. op'.art = a
    BY <1>1 DEF RemovalBegins, Idle
  <2> QED
    BY <1>1, <2>1 DEF RemovalBegins, TypeOK
<1>2. ASSUME NEW s \in Sessions, NEW a \in Artifacts, Delete(s, a)
      PROVE  /\ \A t \in acked' : t[1] # op'.art
             /\ noted'[op'.art] = {}
  BY <1>1, <1>2 DEF Delete
<1>3. ASSUME NEW s \in Sessions, DeleteSession(s)
      PROVE  /\ \A t \in acked' : t[1] # op'.art
             /\ noted'[op'.art] = {}
  BY <1>1, <1>3 DEF DeleteSession
<1>4. ASSUME op.step = "remove", UNCHANGED <<op, acked, noted>>
      PROVE  /\ \A t \in acked' : t[1] # op'.art
             /\ noted'[op'.art] = {}
  BY <1>4 DEF RemovalOK
<1>5. CASE RemovalEnds
  <2>1. op.rest # {}
    <3> SUFFICES ASSUME op.rest = {} PROVE FALSE
      OBVIOUS
    <3>1. op' = Idle
      BY <1>5 DEF RemovalEnds
    <3> QED
      BY <3>1 DEF Idle
  <2>2. PICK a \in op.rest :
          /\ op' = [op EXCEPT !.art = a, !.rest = @ \ {a}]
          /\ acked' = {t \in acked : t[1] # a}
          /\ noted' = [noted EXCEPT ![a] = {}]
    BY <1>5, <2>1 DEF RemovalEnds
  <2>3. op'.art = a /\ a \in Artifacts
    BY <2>2 DEF TypeOK
  <2> QED
    BY <2>2, <2>3 DEF TypeOK
<1>6. CASE Interrupted \/ WriteRecord
  BY <1>6 DEF Interrupted, WriteRecord, Idle
<1>7. CASE WriteVersion \/ WriteSource
  BY <1>7 DEF WriteVersion, WriteSource, TypeOK
<1>8. ASSUME op = Idle, op' = op PROVE FALSE
  BY <1>8 DEF Idle
<1>9. ASSUME NEW s \in Sessions, NEW a \in Artifacts, NEW c \in Contents,
             NEW base \in Versions \cup {None}, PublishBegins(s, a, c, base)
      PROVE  FALSE
  BY <1>9 DEF PublishBegins
<1>10. CASE UNCHANGED vars
  BY <1>10, <1>4 DEF vars
<1> QED
  BY <1>2, <1>3, <1>4, <1>5, <1>6, <1>7, <1>8, <1>9, <1>10
  DEF Next, PublishAgain, RemoveVersion, RemoveMeta, RemoveManifest, Note, NoteInterrupted

(* What notes and manifests of one artifact may do in a step.              *)
NotesStep(a) ==
    \/ UNCHANGED <<noted[a], manifest[a], tears[a]>> /\ (a \in torn' => a \in torn)
    \/ noted'[a] = {} /\ tears'[a] = tears[a] /\ (a \in torn' => a \in torn)
    \/ noted[a] = {} /\ noted'[a] = {} /\ tears'[a] = tears[a] /\ a \notin torn'
    \/ \E n \in Notes :
         /\ noted'[a] = noted[a] \cup {n}
         /\ tears'[a] = tears[a]
         /\ a \notin torn'
         /\ manifest'[a] = IF a \in torn THEN manifest[a] ELSE manifest[a] \cup {n}
    \/ UNCHANGED <<noted[a], manifest[a]>> /\ tears'[a] = tears[a] + 1

LEMMA StepKeepsNotes ==
  ASSUME TypeOK, NotesOK, TypeOK', NEW a \in Artifacts, NotesStep(a)
  PROVE  /\ IsFiniteSet(noted'[a])
         /\ Cardinality(noted'[a] \ manifest'[a]) <= tears'[a]
         /\ a \in torn' => Cardinality(noted'[a] \ manifest'[a]) + 1 <= tears'[a]
<1> DEFINE lost == noted[a] \ manifest[a]
<1>1. /\ IsFiniteSet(noted[a])
      /\ Cardinality(lost) <= tears[a]
      /\ a \in torn => Cardinality(lost) + 1 <= tears[a]
  BY DEF NotesOK
<1>2. /\ tears[a] \in Nat
      /\ IsFiniteSet(lost) /\ Cardinality(lost) \in Nat
  BY <1>1, FS_Subset, FS_CardinalityType DEF TypeOK
<1>3. CASE UNCHANGED <<noted[a], manifest[a], tears[a]>> /\ (a \in torn' => a \in torn)
  BY <1>1, <1>3
<1>4. CASE noted'[a] = {} /\ tears'[a] = tears[a] /\ (a \in torn' => a \in torn)
  <2>1. noted'[a] \ manifest'[a] = {}
    BY <1>4
  <2> QED
    BY <1>1, <1>2, <1>4, <2>1, FS_EmptySet
<1>5. CASE noted[a] = {} /\ noted'[a] = {} /\ tears'[a] = tears[a] /\ a \notin torn'
  <2>1. noted'[a] \ manifest'[a] = {}
    BY <1>5
  <2> QED
    BY <1>1, <1>2, <1>5, <2>1, FS_EmptySet
<1>6. ASSUME NEW n \in Notes,
             noted'[a] = noted[a] \cup {n}, tears'[a] = tears[a], a \notin torn',
             manifest'[a] = IF a \in torn THEN manifest[a] ELSE manifest[a] \cup {n}
      PROVE  /\ IsFiniteSet(noted'[a])
             /\ Cardinality(noted'[a] \ manifest'[a]) <= tears'[a]
  <2>1. IsFiniteSet(noted'[a])
    BY <1>1, <1>6, FS_AddElement
  <2>2. CASE a \in torn
    <3>1. noted'[a] \ manifest'[a] \subseteq lost \cup {n}
      BY <1>6, <2>2
    <3>2. /\ IsFiniteSet(lost \cup {n})
          /\ Cardinality(lost \cup {n}) \in Nat
          /\ Cardinality(lost \cup {n}) <= Cardinality(lost) + 1
      <4>1. /\ IsFiniteSet(lost \cup {n})
            /\ Cardinality(lost \cup {n}) =
                 IF n \in lost THEN Cardinality(lost) ELSE Cardinality(lost) + 1
        BY <1>2, FS_AddElement
      <4> HIDE DEF lost
      <4> QED
        BY <4>1, <1>2
    <3>3. /\ Cardinality(noted'[a] \ manifest'[a]) <= Cardinality(lost \cup {n})
          /\ Cardinality(noted'[a] \ manifest'[a]) \in Nat
      BY <3>1, <3>2, FS_Subset, FS_CardinalityType
    <3> QED
      BY <1>1, <1>2, <1>6, <2>1, <2>2, <3>2, <3>3
  <2>3. CASE a \notin torn
    <3>1. noted'[a] \ manifest'[a] \subseteq lost
      BY <1>6, <2>3
    <3>2. /\ Cardinality(noted'[a] \ manifest'[a]) <= Cardinality(lost)
          /\ Cardinality(noted'[a] \ manifest'[a]) \in Nat
      BY <3>1, <1>2, FS_Subset, FS_CardinalityType
    <3> QED
      BY <1>1, <1>2, <1>6, <2>1, <3>2
  <2> QED
    BY <2>2, <2>3
<1>7. CASE UNCHANGED <<noted[a], manifest[a]>> /\ tears'[a] = tears[a] + 1
  BY <1>1, <1>2, <1>7
<1> QED
  BY <1>3, <1>4, <1>5, <1>6, <1>7 DEF NotesStep

LEMMA NextNotes == Inv /\ [Next]_vars => \A a \in Artifacts : NotesStep(a)
<1> SUFFICES ASSUME Inv, [Next]_vars, NEW b \in Artifacts PROVE NotesStep(b)
  OBVIOUS
<1> USE DEF Inv, report
<1>1. ASSUME UNCHANGED report PROVE NotesStep(b)
  BY <1>1 DEF NotesStep
<1>2. ASSUME NEW a \in Artifacts, noted' = [noted EXCEPT ![a] = {}], tears' = tears,
             torn' = torn, manifest' = manifest
      PROVE  NotesStep(b)
  BY <1>2 DEF NotesStep, TypeOK
<1>3. CASE RemoveManifest
  BY <1>3 DEF RemoveManifest, NotesStep, RemovalOK, TypeOK, DiskOK, OpOK
<1>4. CASE RemovalEnds
  <2>1. CASE noted' = noted
    BY <1>4, <1>1, <2>1 DEF RemovalEnds
  <2>2. CASE \E a \in op.rest : noted' = [noted EXCEPT ![a] = {}]
    BY <1>4, <1>2, <2>2 DEF RemovalEnds, TypeOK
  <2> QED
    BY <1>4, <2>1, <2>2 DEF RemovalEnds
<1>5. ASSUME NEW s \in DOMAIN LivingReport, NEW n \in Notes, Note(s, n) PROVE NotesStep(b)
  BY <1>5, LivingAssumption DEF Note, NotesStep, TypeOK
<1>6. ASSUME NEW s \in DOMAIN LivingReport, NoteInterrupted(s) PROVE NotesStep(b)
  BY <1>6, LivingAssumption DEF NoteInterrupted, NotesStep, TypeOK
<1>7. ASSUME NEW s \in Sessions, NEW a \in Artifacts, Delete(s, a) PROVE NotesStep(b)
  BY <1>7, <1>2 DEF Delete, RemovalBegins
<1>8. ASSUME NEW s \in Sessions, DeleteSession(s) PROVE NotesStep(b)
  BY <1>8, <1>2 DEF DeleteSession, RemovalBegins
<1>9. CASE UNCHANGED vars
  BY <1>9, <1>1 DEF vars
<1> QED
  BY <1>1, <1>3, <1>4, <1>5, <1>6, <1>7, <1>8, <1>9 DEF Next, PublishAgain, PublishBegins,
     WriteVersion, WriteSource, WriteRecord, RemoveVersion, RemoveMeta, Interrupted

-----------------------------------------------------------------------------
(* The inductive invariant. *)
THEOREM InvHolds == Spec => []Inv
<1>1. Inv /\ [Next]_vars => Inv'
  <2> SUFFICES ASSUME Inv, [Next]_vars PROVE Inv'
    OBVIOUS
  <2>1. TypeOK' /\ DiskOK' /\ RemovalOK'
    BY NextType, NextDisk, NextRemoval
  <2>2. NotesOK'
    BY <2>1, NextNotes, StepKeepsNotes DEF Inv, NotesOK
  <2> QED
    BY <2>1, <2>2 DEF Inv
<1> QED
  BY <1>1, InitInv, PTL DEF Spec

(* The store's state keeps its type, whatever is interrupted.              *)
THEOREM StoreTypes == Spec => []TypeOK
<1>1. Inv => TypeOK
  BY DEF Inv
<1> QED
  BY <1>1, InvHolds, PTL

(* Every version that the records name has its file, wherever a crash fell. *)
THEOREM RecordsServed == Spec => []RecordsHaveFiles
<1>1. Inv => RecordsHaveFiles
  BY DEF Inv, DiskOK
<1> QED
  BY <1>1, InvHolds, PTL

(* A version number that publish_artifact answered serves its document.    *)
THEOREM AnswersServed == Spec => []AckedServed
<1>1. Inv => AckedServed
  BY DEF Inv, DiskOK
<1> QED
  BY <1>1, InvHolds, PTL

(* The records are in order and agree with the files on the newest version. *)
THEOREM HistoryInOrder == Spec => []RecordsInOrder
<1>1. Inv => RecordsInOrder
  <2> SUFFICES ASSUME Inv, NEW a \in Artifacts, Whole(a)
               PROVE
        LET recorded == {r[1] : r \in meta[a].records} IN
        /\ \A r, q \in meta[a].records : r[1] = q[1] => r = q
        /\ \A v \in recorded : v <= meta[a].latest
        /\ meta[a].latest = 0 \/ meta[a].latest \in recorded
        /\ {v \in Versions : files[a][v] # None} \subseteq recorded
              => IsLatest(a, meta[a].latest)
    BY DEF RecordsInOrder
  <2> DEFINE recorded == {r[1] : r \in meta[a].records}
  <2>1. /\ \A r, q \in meta[a].records : r[1] = q[1] => r = q
        /\ \A v \in recorded : v <= meta[a].latest
        /\ meta[a].latest = 0 \/ meta[a].latest \in recorded
    BY DEF Inv, DiskOK, Ordered
  <2>2. meta[a].records \in SUBSET (Versions \X Contents)
    BY DEF Inv, TypeOK
  <2>3. \A v \in recorded : files[a][v] # None
    BY <2>2, NoneAssumption DEF Inv, DiskOK, RecordsHaveFiles
  <2>4. ASSUME {v \in Versions : files[a][v] # None} \subseteq recorded
        PROVE  IsLatest(a, meta[a].latest)
    BY <2>1, <2>3, <2>4 DEF IsLatest
  <2> QED
    BY <2>1, <2>4
<1> QED
  BY <1>1, InvHolds, PTL

(* Each interrupted append costs at most one acknowledged event.           *)
THEOREM NotesBounded == Spec => []NotesKept
<1>1. Inv => NotesKept
  BY DEF Inv, NotesOK, NotesKept
<1> QED
  BY <1>1, InvHolds, PTL

(* No version file is ever written over.                                   *)
THEOREM VersionsImmutable == Spec => NeverRewritten
<1>1. Inv /\ [Next]_vars =>
        [\A a \in Artifacts, v \in Versions :
           files[a][v] # None => files'[a][v] \in {files[a][v], None}]_vars
  <2> SUFFICES ASSUME Inv, Next, NEW a \in Artifacts, NEW v \in Versions, files[a][v] # None
               PROVE  files'[a][v] \in {files[a][v], None}
    OBVIOUS
  <2> USE DEF Inv, disk
  <2>1. CASE WriteVersion
    BY <2>1 DEF WriteVersion, DiskOK, PublishOK, OpOK, Publishing, TypeOK
  <2>2. ASSUME NEW w \in Versions, RemoveVersion(w) PROVE files'[a][v] \in {files[a][v], None}
    BY <2>2 DEF RemoveVersion, DiskOK, OpOK, TypeOK
  <2>3. CASE files' = files
    BY <2>3
  <2> QED
    BY <2>1, <2>2, <2>3 DEF Next, PublishAgain, PublishBegins, WriteSource, WriteRecord, Delete,
       DeleteSession, RemovalBegins, RemoveMeta, RemoveManifest, RemovalEnds, Interrupted, Note,
       NoteInterrupted
<1> QED
  BY <1>1, InvHolds, PTL DEF Spec, NeverRewritten
=============================================================================
