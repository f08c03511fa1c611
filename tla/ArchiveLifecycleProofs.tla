------------------------- MODULE ArchiveLifecycleProofs -------------------------
(***************************************************************************)
(* Safety of the archive worker for any chunks, owners, workers and          *)
(* failures: no chunk is dropped before the archives of all its owners were  *)
(* verified, and rows that left PostgreSQL stay in their object.             *)
(***************************************************************************)
EXTENDS ArchiveLifecycle, FiniteSetTheorems, TLAPS

USE ArchiveAssumption

\* What the verifier and the recorded statuses vouch for.
VerifiedInv ==
  /\ \A a \in Archives : status[a] \in {"VERIFIED", "HOT_DELETED"} => a \in verified
  /\ \A a \in verified : object[a] \in {"rows", "damaged"}

\* Owners of a chunk are listed together.
ListedTogether ==
  \A a, b \in Archives :
    ChunkOf[a] = ChunkOf[b] /\ status[a] # "absent" => status[b] # "absent"

\* What the position of a worker says about its manifest.
Position(w) ==
  /\ job[w] # None => status[job[w]] # "absent"
  /\ pc[w] = "record" => object[job[w]] \in {"rows", "damaged"}
  /\ pc[w] \in {"valid", "check", "drop"} => job[w] \in verified
  /\ pc[w] = "drop" => \A a \in Archives : ChunkOf[a] = ChunkOf[job[w]] => a \in verified

WorkerInv == \A w \in Workers : Position(w)

SafetyInv ==
  /\ VerifiedInv /\ ListedTogether /\ WorkerInv
  /\ DroppedMeansVerified /\ StoredMeansObject

\* The statuses a manifest can have at a position of the worker that holds its lease.
StatusAt(step) ==
  CASE step = "mark" -> {"HOT"}
    [] step \in {"export", "put", "record"} -> {"EXPORTING"}
    [] step \in {"verify", "valid", "invalid"} -> {"STORED"}
    [] step \in {"check", "drop"} -> {"VERIFIED"}
    [] OTHER -> {"HOT", "EXPORTING", "STORED", "VERIFIED", "HOT_DELETED", "CORRUPT"}

\* A worker whose lease did not end under it still holds it, and no other worker
\* has moved its manifest.
Current(w) ==
  job[w] # None /\ job[w] \notin exposed =>
    leased[job[w]] /\ status[job[w]] \in StatusAt(pc[w])

HolderInv == SoleHolder /\ \A w \in Workers : Current(w)

--------------------------------------------------------------------------------
\* A worker that is not idle has a manifest.
LEMMA HasJob ==
  ASSUME TypeOK, NEW w \in Workers, pc[w] # "idle" PROVE job[w] \in Archives
BY DEF TypeOK

LEMMA LeaveTyped ==
  ASSUME TypeOK, NEW w \in Workers, Leave(w)
  PROVE  /\ job' \in [Workers -> Archives \cup {None}] /\ read' \in [Workers -> {"none", "rows", "empty"}]
         /\ pc' \in [Workers -> {"idle", "mark", "export", "put", "record", "verify",
                                 "valid", "invalid", "check", "drop", "error"}]
         /\ \A v \in Workers : job'[v] = None <=> pc'[v] = "idle"
         /\ job'[w] = None /\ pc'[w] = "idle"
         /\ \A v \in Workers \ {w} : job'[v] = job[v] /\ pc'[v] = pc[v] /\ read'[v] = read[v]
BY DEF Leave, TypeOK

LEMMA GotoTyped ==
  ASSUME TypeOK, NEW w \in Workers, pc[w] # "idle",
         NEW step \in {"put", "record", "valid", "invalid", "drop", "error"}, Goto(w, step)
  PROVE  /\ job' \in [Workers -> Archives \cup {None}] /\ read' \in [Workers -> {"none", "rows", "empty"}]
         /\ pc' \in [Workers -> {"idle", "mark", "export", "put", "record", "verify",
                                 "valid", "invalid", "check", "drop", "error"}]
         /\ \A v \in Workers : job'[v] = None <=> pc'[v] = "idle"
         /\ pc'[w] = step /\ \A v \in Workers : job'[v] = job[v] /\ (v # w => pc'[v] = pc[v])
BY DEF Goto, TypeOK

LEMMA ReleaseTyped ==
  ASSUME TypeOK, NEW a \in Archives, Release(a) PROVE leased' \in [Archives -> BOOLEAN]
<1>1. leased' = [leased EXCEPT ![a] = FALSE] /\ leased \in [Archives -> BOOLEAN]
  BY DEF Release, TypeOK
<1> QED
  BY ONLY <1>1

LEMMA LeaseTyped ==
  ASSUME TypeOK, NEW a \in Archives, Lease(a)
  PROVE  leased' \in [Archives -> BOOLEAN]
<1>1. leased' = [leased EXCEPT ![a] = TRUE] /\ leased \in [Archives -> BOOLEAN]
  BY DEF Lease, TypeOK
<1> QED
  BY ONLY <1>1

\* The statuses a transition writes.
LEMMA StatusTyped ==
  ASSUME TypeOK, NEW w \in Workers, job[w] \in Archives,
         NEW s \in {"EXPORTING", "STORED", "VERIFIED", "CORRUPT", "HOT_DELETED"}, SetStatus(w, s)
  PROVE  /\ status' \in [Archives -> {"absent", "HOT", "EXPORTING", "STORED",
                                      "VERIFIED", "HOT_DELETED", "CORRUPT"}]
         /\ status'[job[w]] = s
         /\ \A a \in Archives : a # job[w] => status'[a] = status[a]
BY DEF SetStatus, TypeOK

LEMMA VerdictOf ==
  ASSUME NEW step \in {"valid", "invalid"}
  PROVE  Verdict(step) \in {"VERIFIED", "CORRUPT"} /\ (Verdict(step) = "VERIFIED" => step = "valid")
BY DEF Verdict

\* What an object is after an upload.
LEMMA PutTyped ==
  ASSUME TypeOK, NEW w \in Workers, pc[w] = "put",
         object' = [object EXCEPT ![job[w]] = PutIfAbsent(@, read[w])]
  PROVE  /\ object' \in [Archives -> {"none", "rows", "empty", "damaged"}]
         /\ \A a \in Archives : object[a] # "none" => object'[a] = object[a]
BY HasJob DEF TypeOK, PutIfAbsent
--------------------------------------------------------------------------------
LEMMA TypeInit == Init => TypeOK
BY DEF Init, TypeOK

LEMMA TypeStep == TypeOK /\ [Next]_vars => TypeOK'
<1> SUFFICES ASSUME TypeOK, [Next]_vars PROVE TypeOK'
  OBVIOUS
<1> USE DEF manifest, worker, bounds
<1>1. CASE UNCHANGED vars
  BY <1>1 DEF vars, TypeOK
<1>2. ASSUME NEW c \in Chunks, Age(c) PROVE TypeOK'
  BY <1>2 DEF Age, TypeOK
<1>3. ASSUME NEW a \in Archives, Lapse(a) PROVE TypeOK'
  <2>1. leased' \in [Archives -> BOOLEAN]
    BY <1>3, ReleaseTyped DEF Lapse, Release
  <2> QED
    BY <1>3, <2>1 DEF Lapse, TypeOK
<1>4. ASSUME NEW a \in Archives, Damage(a) PROVE TypeOK'
  BY <1>4 DEF Damage, Fault, TypeOK
<1>5. ASSUME NEW w \in Workers, CreateManifests(w) PROVE TypeOK'
  <2>1. Cardinality(aged) \in Nat
    BY FS_Subset, FS_CardinalityType DEF TypeOK
  <2> QED
    BY <1>5, <2>1 DEF CreateManifests, CreatedTogether, Unlisted, TypeOK
<1>6. ASSUME NEW w \in Workers, Take(w) PROVE TypeOK'
  <2>1. PICK a \in Archives :
           /\ Lease(a)
           /\ job' = [job EXCEPT ![w] = a] /\ pc' = [pc EXCEPT ![w] = Transition[status[a]]]
    BY <1>6 DEF Take
  <2>2. leased' \in [Archives -> BOOLEAN]
    BY <2>1, LeaseTyped
  <2>3. Transition[status[a]] \in {"mark", "export", "verify", "check"}
    BY <2>1 DEF Lease, Eligible, Transition
  <2> QED
    BY <1>6, <2>1, <2>2, <2>3 DEF Take, TypeOK
<1>7. ASSUME NEW w \in Workers, TakeFails(w) PROVE TypeOK'
  <2>1. leased' \in [Archives -> BOOLEAN]
    BY <1>7, LeaseTyped DEF TakeFails
  <2> QED
    BY <1>7, <2>1 DEF TakeFails, Fault, TypeOK
<1>8. ASSUME NEW w \in Workers, MarkExporting(w) \/ RecordStored(w) \/ RecordVerdict(w)
      PROVE TypeOK'
  BY <1>8, HasJob, StatusTyped, VerdictOf, LeaveTyped
  DEF MarkExporting, RecordStored, RecordVerdict, TypeOK
<1>9. ASSUME NEW w \in Workers, ReadRows(w) PROVE TypeOK'
  BY <1>9 DEF ReadRows, TypeOK
<1>10. ASSUME NEW w \in Workers, Put(w) \/ PutFails(w) PROVE TypeOK'
  BY <1>10, PutTyped, GotoTyped DEF Put, PutFails, AfterFailedPut, Fault, TypeOK
<1>11. ASSUME NEW w \in Workers, Verify(w) \/ VerifyFails(w) PROVE TypeOK'
  BY <1>11, HasJob, GotoTyped DEF Verify, VerifyFails, Fault, TypeOK
<1>12. ASSUME NEW w \in Workers, CheckChunk(w) \/ CheckFails(w) \/ ReleaseOnError(w)
       PROVE TypeOK'
  <2>1. job[w] \in Archives /\ (Release(job[w]) \/ leased' = leased)
    BY <1>12, HasJob DEF CheckChunk, CheckFails, ReleaseOnError
  <2>2. leased' \in [Archives -> BOOLEAN]
    BY <2>1, ReleaseTyped DEF TypeOK
  <2>3. Leave(w) \/ (pc[w] # "idle" /\ \E step \in {"drop", "error"} : Goto(w, step))
    BY <1>12 DEF CheckChunk, CheckFails, ReleaseOnError
  <2> QED
    BY <1>12, <2>1, <2>2, <2>3, LeaveTyped, GotoTyped
    DEF CheckChunk, CheckFails, ReleaseOnError, Fault, TypeOK
<1>13. ASSUME NEW w \in Workers, Drop(w) \/ DropFails(w) PROVE TypeOK'
  BY <1>13, HasJob, StatusTyped, LeaveTyped, GotoTyped
  DEF Drop, DropFails, DropOnce, Fault, TypeOK
<1>14. ASSUME NEW w \in Workers, WriteFails(w) PROVE TypeOK'
  BY <1>14, HasJob, StatusTyped, VerdictOf, GotoTyped DEF WriteFails, Fault, TypeOK
<1>15. ASSUME NEW w \in Workers, Abandon(w) PROVE TypeOK'
  <2>1. leased' \in [Archives -> BOOLEAN]
    BY <1>15, HasJob, ReleaseTyped DEF Abandon, TypeOK
  <2> QED
    BY <1>15, <2>1, PutTyped, LeaveTyped DEF Abandon, Fault, TypeOK
<1> QED
  BY <1>1, <1>2, <1>3, <1>4, <1>5, <1>6, <1>7, <1>8, <1>9, <1>10, <1>11, <1>12, <1>13,
     <1>14, <1>15 DEF Next, Work

\* The type invariant holds for any chunks, owners and workers.
THEOREM TypeCorrect == Spec => []TypeOK
BY TypeInit, TypeStep, PTL DEF Spec

--------------------------------------------------------------------------------
LEMMA SafetyInit == Init => SafetyInv
BY DEF Init, SafetyInv, VerifiedInv, ListedTogether, WorkerInv, Position,
       DroppedMeansVerified, StoredMeansObject

\* A step may let manifests be listed and verified and rows be stored, no more,
\* and keeps what the position of each worker says.
LEMMA SafetyStep == TypeOK /\ TypeOK' /\ SafetyInv /\ [Next]_vars => SafetyInv'
<1> SUFFICES ASSUME TypeOK, TypeOK', SafetyInv, [Next]_vars PROVE SafetyInv'
  OBVIOUS
<1> USE DEF manifest, worker, bounds, SafetyInv, VerifiedInv, ListedTogether, WorkerInv,
            Position, DroppedMeansVerified, StoredMeansObject
<1>1. CASE UNCHANGED vars
  BY <1>1 DEF vars, TypeOK
<1>2. ASSUME NEW c \in Chunks, Age(c) PROVE SafetyInv'
  BY <1>2 DEF Age, TypeOK
<1>3. ASSUME NEW a \in Archives, Lapse(a) PROVE SafetyInv'
  BY <1>3 DEF Lapse, TypeOK
<1>4. ASSUME NEW a \in Archives, Damage(a) PROVE SafetyInv'
  BY <1>4 DEF Damage, TypeOK
<1>5. ASSUME NEW w \in Workers, CreateManifests(w) PROVE SafetyInv'
  <2>1. \A a \in Archives : status'[a] = IF a \in Unlisted THEN "HOT" ELSE status[a]
    BY <1>5 DEF CreateManifests, CreatedTogether
  <2>2. ListedTogether'
    BY <2>1, <1>5 DEF Unlisted, CreateManifests
  <2> QED
    BY <1>5, <2>1, <2>2 DEF CreateManifests, TypeOK
<1>6. ASSUME NEW w \in Workers, Take(w) PROVE SafetyInv'
  <2>1. PICK a \in Archives :
           /\ Lease(a)
           /\ job' = [job EXCEPT ![w] = a] /\ pc' = [pc EXCEPT ![w] = Transition[status[a]]]
    BY <1>6 DEF Take
  <2>2. /\ status[a] # "absent"
        /\ Transition[status[a]] \in {"mark", "export", "verify", "check"}
        /\ Transition[status[a]] = "check" => status[a] = "VERIFIED"
    BY <2>1 DEF Lease, Eligible, Transition
  <2> QED
    BY <1>6, <2>1, <2>2 DEF Take, TypeOK
<1>7. ASSUME NEW w \in Workers, TakeFails(w) PROVE SafetyInv'
  BY <1>7 DEF TakeFails, TypeOK
<1>8. ASSUME NEW w \in Workers, MarkExporting(w) \/ RecordStored(w) \/ RecordVerdict(w)
      PROVE SafetyInv'
  BY <1>8, HasJob, StatusTyped, VerdictOf, LeaveTyped
  DEF MarkExporting, RecordStored, RecordVerdict, TypeOK
<1>9. ASSUME NEW w \in Workers, ReadRows(w) PROVE SafetyInv'
  BY <1>9 DEF ReadRows, TypeOK
<1>10. ASSUME NEW w \in Workers, Put(w) \/ PutFails(w) PROVE SafetyInv'
  BY <1>10, HasJob, PutTyped, GotoTyped DEF Put, PutFails, AfterFailedPut, TypeOK
<1>11. ASSUME NEW w \in Workers, Verify(w) \/ VerifyFails(w) PROVE SafetyInv'
  BY <1>11, HasJob, GotoTyped DEF Verify, VerifyFails, TypeOK
<1>12. ASSUME NEW w \in Workers, CheckChunk(w) PROVE SafetyInv'
  <2>1. CASE Leave(w)
    BY <1>12, <2>1, LeaveTyped DEF CheckChunk, TypeOK
  <2>2. CASE ~Pending(job[w]) /\ Goto(w, "drop")
    <3>1. job[w] \in Archives /\ job[w] \in verified /\ status[job[w]] # "absent"
      BY <1>12, HasJob DEF CheckChunk
    <3>2. \A a \in Archives : ChunkOf[a] = ChunkOf[job[w]] => a \in verified
      BY <2>2, <3>1 DEF Pending
    <3> QED
      BY <1>12, <2>2, <3>1, <3>2, GotoTyped DEF CheckChunk, TypeOK
  <2> QED
    BY <1>12, <2>1, <2>2 DEF CheckChunk
<1>13. ASSUME NEW w \in Workers, CheckFails(w) PROVE SafetyInv'
  BY <1>13, GotoTyped DEF CheckFails, TypeOK
<1>14. ASSUME NEW w \in Workers, Drop(w) \/ DropFails(w) PROVE SafetyInv'
  <2>1. job[w] \in Archives /\ job[w] \in verified
    BY <1>14, HasJob DEF Drop, DropFails
  <2>2. CASE DropOnce(w)
    BY <1>14, <2>1, <2>2, StatusTyped, LeaveTyped, GotoTyped DEF DropOnce, Drop, DropFails, TypeOK
  <2>3. CASE UNCHANGED <<hot, status>>
    BY <1>14, <2>3, LeaveTyped, GotoTyped DEF Drop, DropFails, TypeOK
  <2> QED
    BY <1>14, <2>2, <2>3 DEF Drop, DropFails
<1>15. ASSUME NEW w \in Workers, WriteFails(w) PROVE SafetyInv'
  BY <1>15, HasJob, StatusTyped, VerdictOf, GotoTyped DEF WriteFails, TypeOK
<1>16. ASSUME NEW w \in Workers, ReleaseOnError(w) PROVE SafetyInv'
  BY <1>16, LeaveTyped DEF ReleaseOnError, TypeOK
<1>17. ASSUME NEW w \in Workers, Abandon(w) PROVE SafetyInv'
  BY <1>17, HasJob, PutTyped, LeaveTyped DEF Abandon, TypeOK
<1> QED
  BY <1>1, <1>2, <1>3, <1>4, <1>5, <1>6, <1>7, <1>8, <1>9, <1>10, <1>11, <1>12, <1>13,
     <1>14, <1>15, <1>16, <1>17 DEF Next, Work

LEMMA RowsFromVerified == SafetyInv => RowsSurvive
BY DEF SafetyInv, VerifiedInv, DroppedMeansVerified, RowsSurvive

\* The inductive invariant: verified archives, manifests listed together, and what
\* the position of each worker says of its manifest and of the others of its chunk.
THEOREM ArchiveSafety == Spec => []SafetyInv
<1>1. TypeOK /\ SafetyInv /\ [Next]_vars => TypeOK' /\ SafetyInv'
  BY TypeStep, SafetyStep
<1> QED
  BY TypeInit, SafetyInit, <1>1, PTL DEF Spec

\* No chunk is dropped before the archives of all its owners were found valid.
THEOREM DropSafety == Spec => []DroppedMeansVerified
<1>1. SafetyInv => DroppedMeansVerified
  BY DEF SafetyInv
<1> QED
  BY <1>1, ArchiveSafety, PTL

\* Rows that left PostgreSQL stay in their object, whatever uploads come late.
THEOREM RowsSafety == Spec => []RowsSurvive
BY RowsFromVerified, ArchiveSafety, PTL

\* A manifest that rehydration may serve has an object with its rows.
THEOREM StoredSafety == Spec => []StoredMeansObject
<1>1. SafetyInv => StoredMeansObject
  BY DEF SafetyInv
<1> QED
  BY <1>1, ArchiveSafety, PTL

--------------------------------------------------------------------------------
\* A worker that moves its manifest and leaves, or takes it to another position,
\* disturbs no other: who else has the manifest is exposed.
LEMMA OthersCurrent ==
  ASSUME TypeOK, HolderInv, NEW w \in Workers, NEW v \in Workers \ {w},
         job[v] # None, job[v] \notin exposed
  PROVE  job[v] # job[w] /\ job[v] \in Archives /\ leased[job[v]]
         /\ status[job[v]] \in StatusAt(pc[v])
BY DEF HolderInv, SoleHolder, Current, TypeOK

LEMMA HolderInit == Init => HolderInv
BY DEF Init, HolderInv, SoleHolder, Current

LEMMA HolderStep == TypeOK /\ TypeOK' /\ SafetyInv /\ HolderInv /\ [Next]_vars => HolderInv'
<1> SUFFICES ASSUME TypeOK, TypeOK', SafetyInv, HolderInv, [Next]_vars PROVE HolderInv'
  OBVIOUS
<1> USE DEF manifest, worker, bounds, HolderInv, SoleHolder, Current
<1>1. CASE UNCHANGED vars
  BY <1>1 DEF vars, TypeOK
<1>2. ASSUME NEW c \in Chunks, Age(c) PROVE HolderInv'
  BY <1>2 DEF Age, TypeOK
<1>3. ASSUME NEW a \in Archives, Lapse(a) PROVE HolderInv'
  BY <1>3 DEF Lapse, Held, TypeOK
<1>4. ASSUME NEW a \in Archives, Damage(a) PROVE HolderInv'
  BY <1>4 DEF Damage, TypeOK
<1>5. ASSUME NEW w \in Workers, CreateManifests(w) PROVE HolderInv'
  <2>1. \A a \in Archives : status[a] # "absent" => status'[a] = status[a]
    BY <1>5 DEF CreateManifests, CreatedTogether, Unlisted
  <2>2. \A v \in Workers : job[v] # None => status[job[v]] # "absent" /\ job[v] \in Archives
    BY DEF SafetyInv, WorkerInv, Position, TypeOK
  <2> QED
    BY <1>5, <2>1, <2>2 DEF CreateManifests
<1>6. ASSUME NEW w \in Workers, Take(w) PROVE HolderInv'
  <2>1. PICK a \in Archives :
           /\ Lease(a)
           /\ job' = [job EXCEPT ![w] = a] /\ pc' = [pc EXCEPT ![w] = Transition[status[a]]]
    BY <1>6 DEF Take
  <2>2. ~leased[a] /\ status[a] \in StatusAt(Transition[status[a]])
    BY <2>1 DEF Lease, Eligible, Transition, StatusAt
  <2>3. \A v \in Workers : job[v] = a => a \in exposed
    BY <2>2 DEF TypeOK
  <2>4. \A b \in Archives : leased[b] => leased'[b]
    BY <2>1 DEF Lease, TypeOK
  <2>5. leased'[a]
    BY <2>1 DEF Lease, TypeOK
  <2> QED
    BY <1>6, <2>1, <2>2, <2>3, <2>4, <2>5 DEF Take, TypeOK
<1>7. ASSUME NEW w \in Workers, TakeFails(w) PROVE HolderInv'
  <2>1. \A b \in Archives : leased[b] => leased'[b]
    BY <1>7 DEF TakeFails, Lease, TypeOK
  <2> QED
    BY <1>7, <2>1 DEF TakeFails, TypeOK
<1>8. ASSUME NEW w \in Workers, MarkExporting(w) \/ RecordStored(w) \/ RecordVerdict(w)
      PROVE HolderInv'
  BY <1>8, HasJob, StatusTyped, VerdictOf, LeaveTyped, OthersCurrent
  DEF MarkExporting, RecordStored, RecordVerdict
<1>9. ASSUME NEW w \in Workers, ReadRows(w) PROVE HolderInv'
  BY <1>9 DEF ReadRows, StatusAt, TypeOK
<1>10. ASSUME NEW w \in Workers, Put(w) \/ PutFails(w) PROVE HolderInv'
  BY <1>10, GotoTyped DEF Put, PutFails, AfterFailedPut, StatusAt, TypeOK
<1>11. ASSUME NEW w \in Workers, Verify(w) \/ VerifyFails(w) PROVE HolderInv'
  BY <1>11, GotoTyped DEF Verify, VerifyFails, StatusAt, TypeOK
<1>12. ASSUME NEW w \in Workers, CheckChunk(w) PROVE HolderInv'
  <2>1. CASE Release(job[w]) /\ Leave(w)
    BY <1>12, <2>1, LeaveTyped, OthersCurrent DEF CheckChunk, Release, TypeOK
  <2>2. CASE Goto(w, "drop") /\ UNCHANGED leased
    BY <1>12, <2>2, GotoTyped DEF CheckChunk, StatusAt, TypeOK
  <2> QED
    BY <1>12, <2>1, <2>2 DEF CheckChunk
<1>13. ASSUME NEW w \in Workers, CheckFails(w) PROVE HolderInv'
  BY <1>13, HasJob, GotoTyped DEF CheckFails, Release, StatusAt, TypeOK
<1>14. ASSUME NEW w \in Workers, Drop(w) \/ DropFails(w) PROVE HolderInv'
  BY <1>14, HasJob, StatusTyped, LeaveTyped, GotoTyped, OthersCurrent
  DEF Drop, DropFails, DropOnce, StatusAt
<1>15. ASSUME NEW w \in Workers, WriteFails(w) PROVE HolderInv'
  BY <1>15, HasJob, StatusTyped, VerdictOf, GotoTyped, OthersCurrent DEF WriteFails, StatusAt
<1>16. ASSUME NEW w \in Workers, ReleaseOnError(w) PROVE HolderInv'
  BY <1>16, LeaveTyped, OthersCurrent DEF ReleaseOnError, Release, TypeOK
<1>17. ASSUME NEW w \in Workers, Abandon(w) PROVE HolderInv'
  BY <1>17, LeaveTyped, OthersCurrent DEF Abandon, Release, TypeOK
<1> QED
  BY <1>1, <1>2, <1>3, <1>4, <1>5, <1>6, <1>7, <1>8, <1>9, <1>10, <1>11, <1>12, <1>13,
     <1>14, <1>15, <1>16, <1>17 DEF Next, Work

\* A worker whose lease did not end under it is alone with its manifest, which has
\* the status the worker took it with.
THEOREM LeaseSafety == Spec => []HolderInv
<1>1. TypeOK /\ SafetyInv /\ HolderInv /\ [Next]_vars => TypeOK' /\ SafetyInv' /\ HolderInv'
  BY TypeStep, SafetyStep, HolderStep
<1> QED
  BY TypeInit, SafetyInit, HolderInit, <1>1, PTL DEF Spec

\* Two workers meet on one manifest only after its lease ended under one of them.
THEOREM HolderSafety == Spec => []SoleHolder
<1>1. HolderInv => SoleHolder
  BY DEF HolderInv
<1> QED
  BY <1>1, LeaseSafety, PTL

--------------------------------------------------------------------------------
\* A status a worker with a valid lease writes is never an earlier one.
LEMMA NoRegressStep ==
  ASSUME TypeOK, SafetyInv, HolderInv, Next, NEW a \in Archives, a \notin exposed
  PROVE  ~(Rank[status'[a]] < Rank[status[a]])
<1> USE DEF manifest, worker, bounds, Rank
<1>1. status'[a] = status[a] => ~(Rank[status'[a]] < Rank[status[a]])
  BY DEF TypeOK
<1>2. ASSUME NEW w \in Workers, NEW s \in {"EXPORTING", "STORED", "VERIFIED", "CORRUPT", "HOT_DELETED"},
             job[w] = a, SetStatus(w, s),
             \/ s = "EXPORTING" /\ pc[w] = "mark"
             \/ s = "STORED" /\ pc[w] = "record"
             \/ s \in {"VERIFIED", "CORRUPT"} /\ pc[w] \in {"valid", "invalid"}
             \/ s = "HOT_DELETED" /\ pc[w] = "drop"
      PROVE  ~(Rank[status'[a]] < Rank[status[a]])
  <2>1. status[a] \in StatusAt(pc[w]) /\ status'[a] = s
    BY <1>2, StatusTyped, a \in Archives DEF HolderInv, Current
  <2> QED
    BY <1>2, <2>1 DEF StatusAt
<1>3. ASSUME NEW w \in Workers, CreateManifests(w) PROVE ~(Rank[status'[a]] < Rank[status[a]])
  BY <1>1, <1>3 DEF CreateManifests, CreatedTogether, Unlisted
<1>4. ASSUME NEW w \in Workers,
             \/ MarkExporting(w) \/ RecordStored(w) \/ RecordVerdict(w)
             \/ Drop(w) \/ DropFails(w) \/ WriteFails(w)
      PROVE  ~(Rank[status'[a]] < Rank[status[a]])
  <2>1. \/ status' = status
        \/ \E s \in {"EXPORTING", "STORED", "VERIFIED", "CORRUPT", "HOT_DELETED"} :
             /\ SetStatus(w, s)
             /\ \/ s = "EXPORTING" /\ pc[w] = "mark"
                \/ s = "STORED" /\ pc[w] = "record"
                \/ s \in {"VERIFIED", "CORRUPT"} /\ pc[w] \in {"valid", "invalid"}
                \/ s = "HOT_DELETED" /\ pc[w] = "drop"
    BY <1>4, VerdictOf
    DEF MarkExporting, RecordStored, RecordVerdict, Drop, DropFails, DropOnce, WriteFails
  <2>2. job[w] \in Archives
    BY <1>4, HasJob DEF MarkExporting, RecordStored, RecordVerdict, Drop, DropFails, WriteFails
  <2> QED
    BY <1>1, <1>2, <2>1, <2>2, StatusTyped
<1>5. CASE status' = status
  BY <1>1, <1>5
<1> QED
  BY <1>3, <1>4, <1>5
  DEF Next, Work, Age, Lapse, Damage, Take, TakeFails, ReadRows, Put, PutFails, Verify,
      VerifyFails, CheckChunk, CheckFails, ReleaseOnError, Abandon

\* A manifest goes back only after its lease ended under a worker.
THEOREM NoRegress == Spec => NoRegressUnlessExposed
<1>1. TypeOK /\ SafetyInv /\ HolderInv /\ [Next]_vars
        => [\A a \in Archives : Rank[status'[a]] < Rank[status[a]] => a \in exposed]_vars
  BY NoRegressStep
<1>2. Spec => [](TypeOK /\ SafetyInv /\ HolderInv)
  BY TypeCorrect, ArchiveSafety, LeaseSafety, PTL
<1> QED
  BY <1>1, <1>2, PTL DEF Spec, NoRegressUnlessExposed

================================================================================
