---------------------------- MODULE ArchiveLifecycle ----------------------------
(***************************************************************************)
(* ArchiveWorker (archive/worker.py): one manifest per owner with rows in an *)
(* aged chunk of the logs hypertable goes HOT, EXPORTING, STORED, VERIFIED,  *)
(* HOT_DELETED (or CORRUPT), one transition per lease.  The last transition  *)
(* drops the chunk, with the rows of all its owners.  No update names the    *)
(* lease owner, and a transition that succeeds leaves its lease to expire.   *)
(***************************************************************************)
EXTENDS Integers, FiniteSets

CONSTANTS Archives,   \* owners of rows in a chunk: the manifests to be
          Chunks,     \* chunks of the hypertable
          ChunkOf,    \* the chunk of a manifest (source_chunk_ids)
          Oversized,  \* exports above max_export_rows or max_archive_bytes
          Workers,    \* instances of ArchiveWorker
          None,
          MaxStalls,  \* bound: manifests whose lease passes under a working holder
          MaxFaults   \* bound: errors, lost replies, damaged objects, stopped processes

ASSUME ArchiveAssumption ==
  /\ ChunkOf \in [Archives -> Chunks] /\ Oversized \subseteq Archives
  /\ None \notin Archives /\ IsFiniteSet(Chunks)
  /\ MaxStalls \in Nat /\ MaxFaults \in Nat

VARIABLES
  aged, hot,        \* chunks older than the retention period; chunks not dropped
  status, created,  \* of a manifest, "absent" before its row exists; created_at
  leased,           \* lease_owner is set and lease_expires_at not passed
  object,           \* content stored under object_key
  job, pc, read,    \* a worker's manifest, what it does next, and the rows it read
  verified,         \* history: manifests the verifier found valid
  exposed,          \* history: manifests whose lease ended under a worker
  stalls, faults

manifest == <<status, created, leased>>
worker   == <<job, pc, read>>
bounds   == <<stalls, faults>>
vars == <<aged, hot, manifest, object, worker, verified, exposed, bounds>>

Init ==
  /\ aged = {} /\ hot = Chunks
  /\ status = [a \in Archives |-> "absent"] /\ created = [a \in Archives |-> 0]
  /\ leased = [a \in Archives |-> FALSE]
  /\ object = [a \in Archives |-> "none"]
  /\ job = [w \in Workers |-> None] /\ pc = [w \in Workers |-> "idle"]
  /\ read = [w \in Workers |-> "none"]
  /\ verified = {} /\ exposed = {}
  /\ stalls = MaxStalls /\ faults = MaxFaults

Fault == faults > 0 /\ faults' = faults - 1 /\ UNCHANGED stalls

Held(a) == \E w \in Workers : job[w] = a

--------------------------------------------------------------------------------
\* Time, and the object store.

\* range_end of a chunk passes the retention period.
Age(c) ==
  /\ c \notin aged /\ aged' = aged \cup {c}
  /\ UNCHANGED <<hot, manifest, object, worker, verified, exposed, bounds>>

\* The fifteen minutes of a lease pass.
Lapse(a) ==
  /\ leased[a] /\ leased' = [leased EXCEPT ![a] = FALSE]
  /\ IF Held(a) /\ a \notin exposed
       THEN stalls > 0 /\ stalls' = stalls - 1 /\ exposed' = exposed \cup {a}
       ELSE UNCHANGED <<stalls, exposed>>
  /\ UNCHANGED <<aged, hot, status, created, object, worker, verified, faults>>

\* The store loses or damages an object.
Damage(a) ==
  /\ object[a] = "rows" /\ Fault
  /\ object' = [object EXCEPT ![a] = "damaged"]
  /\ UNCHANGED <<aged, hot, manifest, worker, verified, exposed>>

--------------------------------------------------------------------------------
\* _step_create_manifests: all owners of all aged chunks, in one transaction;
\* the number of aged chunks orders the transactions as created_at does.
Unlisted == {a \in Archives : ChunkOf[a] \in aged \cap hot /\ status[a] = "absent"}

CreatedOneByOne == {{a} : a \in Unlisted}
CreatedTogether == {Unlisted}

CreateManifests(w) ==
  /\ pc[w] = "idle" /\ Unlisted # {}
  /\ \E new \in CreatedTogether :
       /\ status' = [a \in Archives |-> IF a \in new THEN "HOT" ELSE status[a]]
       /\ created' = [a \in Archives |-> IF a \in new THEN Cardinality(aged) ELSE created[a]]
  /\ UNCHANGED <<aged, hot, leased, object, worker, verified, exposed, bounds>>

\* Where a worker begins with the status its lease returned.
Transition == [HOT |-> "mark", EXPORTING |-> "export", STORED |-> "verify", VERIFIED |-> "check"]

EligibleAlways(a) == status[a] \in DOMAIN Transition
Eligible(a) == status[a] \in DOMAIN Transition /\ ~leased[a]

\* SELECT ... ORDER BY created_at FOR UPDATE SKIP LOCKED, and the lease: the oldest
\* row, except that a late worker may have an older one locked for its update.
Lease(a) ==
  /\ Eligible(a)
  /\ \A b \in Archives : Eligible(b) => created[a] <= created[b] \/ Held(b)
  /\ leased' = [leased EXCEPT ![a] = TRUE]

Goto(w, step) == pc' = [pc EXCEPT ![w] = step] /\ UNCHANGED <<job, read>>

Leave(w) ==
  /\ job' = [job EXCEPT ![w] = None] /\ pc' = [pc EXCEPT ![w] = "idle"]
  /\ read' = [read EXCEPT ![w] = "none"]

Take(w) ==
  /\ pc[w] = "idle"
  /\ \E a \in Archives :
       /\ Lease(a)
       /\ job' = [job EXCEPT ![w] = a]
       /\ pc' = [pc EXCEPT ![w] = Transition[status[a]]]
  /\ UNCHANGED <<aged, hot, status, created, object, read, verified, exposed, bounds>>

\* The lease is committed, but its worker does not learn of it.
TakeFails(w) ==
  /\ pc[w] = "idle" /\ Fault
  /\ \E a \in Archives : Lease(a)
  /\ UNCHANGED <<aged, hot, status, created, object, worker, verified, exposed>>

SetStatus(w, s) == status' = [status EXCEPT ![job[w]] = s]

\* _transition_hot_to_exporting
MarkExporting(w) ==
  /\ pc[w] = "mark" /\ SetStatus(w, "EXPORTING") /\ Leave(w)
  /\ UNCHANGED <<aged, hot, created, leased, object, verified, exposed, bounds>>

--------------------------------------------------------------------------------
\* _transition_exporting_to_stored: read, upload, record.  A dropped chunk has no
\* rows; an export above the limits raises.
ReadRows(w) ==
  LET rows == IF ChunkOf[job[w]] \in hot THEN "rows" ELSE "empty" IN
  /\ pc[w] = "export"
  /\ read' = [read EXCEPT ![w] = rows]
  /\ pc' = [pc EXCEPT ![w] = IF rows = "rows" /\ job[w] \in Oversized THEN "error" ELSE "put"]
  /\ UNCHANGED <<aged, hot, manifest, object, job, verified, exposed, bounds>>

Overwrite(old, new) == new
PutIfAbsent(old, new) == IF old = "none" THEN new ELSE old

\* An object that differs raises, and so do the statistics of an empty export.
Put(w) ==
  /\ pc[w] = "put"
  /\ object' = [object EXCEPT ![job[w]] = PutIfAbsent(@, read[w])]
  /\ Goto(w, IF object'[job[w]] = read[w] /\ read[w] = "rows" THEN "record" ELSE "error")
  /\ UNCHANGED <<aged, hot, manifest, verified, exposed, bounds>>

AfterFailedPutRecorded == "record"
AfterFailedPut == "error"

\* The upload, or that of the sidecar, raises, stored or not.
PutFails(w) ==
  /\ pc[w] = "put" /\ Fault
  /\ object' \in {object, [object EXCEPT ![job[w]] = PutIfAbsent(@, read[w])]}
  /\ Goto(w, AfterFailedPut)
  /\ UNCHANGED <<aged, hot, manifest, verified, exposed>>

RecordStored(w) ==
  /\ pc[w] = "record" /\ SetStatus(w, "STORED") /\ Leave(w)
  /\ UNCHANGED <<aged, hot, created, leased, object, verified, exposed, bounds>>

--------------------------------------------------------------------------------
\* _transition_stored_to_verified: read the object back, then write the verdict.
Verify(w) ==
  /\ pc[w] = "verify"
  /\ IF object[job[w]] = "rows"
       THEN Goto(w, "valid") /\ verified' = verified \cup {job[w]}
       ELSE Goto(w, "invalid") /\ UNCHANGED verified
  /\ UNCHANGED <<aged, hot, manifest, object, exposed, bounds>>

\* Opening the object raises; an error while reading it counts as a mismatch.
VerifyFails(w) ==
  /\ pc[w] = "verify" /\ Fault
  /\ \E step \in {"error", "invalid"} : Goto(w, step)
  /\ UNCHANGED <<aged, hot, manifest, object, verified, exposed>>

Verdict(step) == IF step = "valid" THEN "VERIFIED" ELSE "CORRUPT"

RecordVerdict(w) ==
  /\ pc[w] \in {"valid", "invalid"} /\ SetStatus(w, Verdict(pc[w])) /\ Leave(w)
  /\ UNCHANGED <<aged, hot, created, leased, object, verified, exposed, bounds>>

--------------------------------------------------------------------------------
\* _transition_verified_to_hot_deleted: other manifests of the chunk must have
\* been verified; the first to find so drops it.
Pending(a) == \E b \in Archives \ {a} :
  ChunkOf[b] = ChunkOf[a] /\ status[b] \notin {"absent", "VERIFIED", "HOT_DELETED"}

Release(a) == leased' = [leased EXCEPT ![a] = FALSE]

CheckChunk(w) ==
  /\ pc[w] = "check"
  /\ IF Pending(job[w]) THEN Release(job[w]) /\ Leave(w)
                        ELSE Goto(w, "drop") /\ UNCHANGED leased
  /\ UNCHANGED <<aged, hot, status, created, object, verified, exposed, bounds>>

\* The release is committed, but its worker takes the path of an error.
CheckFails(w) ==
  /\ pc[w] = "check" /\ Fault
  /\ \/ Pending(job[w]) /\ Release(job[w]) /\ exposed' = exposed \cup {job[w]}
     \/ UNCHANGED <<leased, exposed>>
  /\ Goto(w, "error")
  /\ UNCHANGED <<aged, hot, status, created, object, verified>>

DropOnce(w) ==
  /\ ChunkOf[job[w]] \in hot
  /\ hot' = hot \ {ChunkOf[job[w]]}
  /\ SetStatus(w, "HOT_DELETED")

\* drop_chunks of a chunk that is gone raises: its name is no relation.
Drop(w) ==
  /\ pc[w] = "drop"
  /\ \/ DropOnce(w) /\ Leave(w)
     \/ ChunkOf[job[w]] \notin hot /\ Goto(w, "error") /\ UNCHANGED <<hot, status>>
  /\ UNCHANGED <<aged, created, leased, object, verified, exposed, bounds>>

DropFails(w) ==
  /\ pc[w] = "drop" /\ Fault
  /\ DropOnce(w) \/ UNCHANGED <<hot, status>>
  /\ Goto(w, "error")
  /\ UNCHANGED <<aged, created, leased, object, verified, exposed>>

--------------------------------------------------------------------------------
\* The status update of a transition raises, committed or not.
WriteFails(w) ==
  /\ Fault
  /\ \/ pc[w] = "mark" /\ SetStatus(w, "EXPORTING")
     \/ pc[w] = "record" /\ SetStatus(w, "STORED")
     \/ pc[w] \in {"valid", "invalid"} /\ SetStatus(w, Verdict(pc[w]))
     \/ pc[w] \in {"mark", "export", "record", "valid", "invalid"} /\ UNCHANGED status
  /\ Goto(w, "error")
  /\ UNCHANGED <<aged, hot, created, leased, object, verified, exposed>>

\* The error path ends the lease, whoever holds it now.
ReleaseOnError(w) ==
  /\ pc[w] = "error" /\ Release(job[w]) /\ Leave(w)
  /\ UNCHANGED <<aged, hot, status, created, object, verified, exposed, bounds>>

\* The release raises too; _loop catches it.  Or the process is stopped, while an
\* upload in its thread goes on.
Abandon(w) ==
  /\ pc[w] # "idle" /\ Fault
  /\ \/ pc[w] = "error" /\ Release(job[w])
     \/ UNCHANGED leased
  /\ \/ pc[w] = "put" /\ object' = [object EXCEPT ![job[w]] = PutIfAbsent(@, read[w])]
     \/ UNCHANGED object
  /\ Leave(w)
  /\ UNCHANGED <<aged, hot, status, created, verified, exposed>>

Work(w) ==
  \/ CreateManifests(w) \/ Take(w) \/ MarkExporting(w)
  \/ ReadRows(w) \/ Put(w) \/ RecordStored(w) \/ Verify(w) \/ RecordVerdict(w)
  \/ CheckChunk(w) \/ Drop(w) \/ ReleaseOnError(w)

Next ==
  \/ \E c \in Chunks : Age(c)
  \/ \E a \in Archives : Lapse(a) \/ Damage(a)
  \/ \E w \in Workers :
       \/ Work(w) \/ TakeFails(w) \/ PutFails(w) \/ VerifyFails(w)
       \/ CheckFails(w) \/ DropFails(w) \/ WriteFails(w) \/ Abandon(w)

Spec == Init /\ [][Next]_vars

--------------------------------------------------------------------------------
\* The shape of chunks, manifests, objects and workers.
TypeOK ==
  /\ aged \subseteq Chunks /\ hot \subseteq Chunks
  /\ status \in [Archives ->
       {"absent", "HOT", "EXPORTING", "STORED", "VERIFIED", "HOT_DELETED", "CORRUPT"}]
  /\ created \in [Archives -> Nat] /\ leased \in [Archives -> BOOLEAN]
  /\ object \in [Archives -> {"none", "rows", "empty", "damaged"}]
  /\ job \in [Workers -> Archives \cup {None}]
  /\ pc \in [Workers -> {"idle", "mark", "export", "put", "record", "verify",
                         "valid", "invalid", "check", "drop", "error"}]
  /\ read \in [Workers -> {"none", "rows", "empty"}]
  /\ \A w \in Workers : job[w] = None <=> pc[w] = "idle"
  /\ verified \subseteq Archives /\ exposed \subseteq Archives
  /\ stalls \in 0..MaxStalls /\ faults \in 0..MaxFaults

\* A chunk is dropped only after the archive of every owner with rows in it was
\* found valid, whoever lost a lease, a reply or its process on the way.
DroppedMeansVerified ==
  \A a \in Archives : ChunkOf[a] \notin hot => a \in verified

\* Rows that left PostgreSQL stay in the object written from them, unless the
\* store damages it: a late export, which finds no rows, replaces nothing.
RowsSurvive ==
  \A a \in Archives : ChunkOf[a] \notin hot => object[a] \in {"rows", "damaged"}

\* A manifest offered for rehydration has an object with its rows.
StoredMeansObject ==
  \A a \in Archives :
    status[a] \in {"STORED", "VERIFIED"} => object[a] \in {"rows", "damaged"}

\* Two workers work on one manifest only after its lease ended under one of them.
SoleHolder ==
  \A v, w \in Workers : v # w /\ job[v] = job[w] /\ job[v] # None => job[v] \in exposed

Rank == [absent |-> 0, HOT |-> 1, EXPORTING |-> 2, STORED |-> 3,
         VERIFIED |-> 4, CORRUPT |-> 5, HOT_DELETED |-> 5]

\* A manifest goes back only after its lease ended under a worker, whose late
\* update names no lease owner.
NoRegressUnlessExposed ==
  [][\A a \in Archives : Rank[status'[a]] < Rank[status[a]] => a \in exposed]_vars
================================================================================
