-------------------------- MODULE FeatureWindowsProofs --------------------------
(***************************************************************************)
(* Safety of the feature worker for any logs, timestamps, window shapes and  *)
(* failures: no window is consumed before its registration, no log counts    *)
(* twice in one, and completed work is persisted as it was registered.       *)
(***************************************************************************)
EXTENDS FeatureWindows, FiniteSetTheorems, WellFoundedInduction, TLAPS

USE FeatureAssumption

\* The shape of a memory; the first log is known as long as windows are aligned to it.
IsMemory(m) ==
  /\ m \in [count : Counts, ids : SUBSET Events, first : Events \cup {None}, cursor : Int]
  /\ \A e \in Events : e \in m.ids <=> m.count[e] > 0
  /\ m.cursor = Unset /\ m.ids # {} => m.first # None
  /\ m.cursor = Unset \/ m.cursor >= 0

ExtractorInv == TypeOK /\ IsMemory(memory) /\ peeked.next >= 0

\* Neither memory nor a peeked window holds a log twice.
CountedOnce ==
  /\ \A e \in Events : memory.count[e] <= 1
  /\ \A s \in Starts, e \in Events : peeked.windows[s][e] <= 1

\* A handler's work is leased, and what is persisted is completed.
HandlerInv ==
  /\ pc = "handle" => job \in Starts /\ status[job] = "processing"
  /\ \A s \in Starts :
       status[s] # "completed" => features[s] = Nothing /\ s \notin incidents

PersistInv == HandlerInv /\ CompletedMeansPersisted

--------------------------------------------------------------------------------
LEMMA HorizonIsInt == Horizon \in Int
<1>1. \E h \in {3 * Window, 4 * Stride, MinHorizon} :
        h >= 3 * Window /\ h >= 4 * Stride /\ h >= MinHorizon
  OBVIOUS
<1>2. Horizon \in {3 * Window, 4 * Stride, MinHorizon}
  BY <1>1 DEF Horizon
<1> QED
  BY <1>2

\* A set of logs has an earliest one.
LEMMA Earliest ==
  ASSUME NEW S \in SUBSET Events, S # {}
  PROVE  \E e \in S : \A f \in S : Time[e] <= Time[f]
<1> DEFINE T == {Time[e] : e \in S}
           R == OpToRel(<, Nat)
<1>1. T \subseteq Nat /\ T # {}
  OBVIOUS
<1>2. IsWellFoundedOn(R, Nat)
  BY NatLessThanWellFounded
<1>3. \A t, u \in Nat : <<u, t>> \notin R => t <= u
  BY DEF OpToRel
<1> HIDE DEF R, T
<1>4. PICK t \in T : \A u \in T : ~(<<u, t>> \in R)
  BY <1>1, <1>2, WFMin
<1>5. \A u \in T : t <= u
  BY <1>1, <1>3, <1>4
<1> QED
  BY <1>4, <1>5 DEF T

\* What the extractor's operations do to a memory.
LEMMA NoMemoryTyped == IsMemory(NoMemory) /\ \A e \in Events : NoMemory.count[e] <= 1
BY DEF IsMemory, NoMemory, Nothing, Counts

LEMMA AddLogsTyped ==
  ASSUME NEW m, IsMemory(m), NEW rows \in SUBSET Events
  PROVE  /\ IsMemory(AddLogs(m, rows))
         /\ (\A e \in Events : m.count[e] <= 1) =>
              \A e \in Events : AddLogs(m, rows).count[e] <= 1
<1> DEFINE new == New(m, rows)
           earliest == CHOOSE e \in new : \A f \in new : Time[e] <= Time[f]
           after == AddLogs(m, rows)
<1>1. new \in SUBSET Events /\ \A e \in new : e \notin m.ids
  BY DEF New
<1>2. new # {} => earliest \in Events
  BY <1>1, Earliest
<1>3. after = [count  |-> [e \in Events |-> m.count[e] + (IF e \in new THEN 1 ELSE 0)],
               ids    |-> m.ids \cup new,
               first  |-> IF m.first = None /\ new # {} THEN earliest ELSE m.first,
               cursor |-> m.cursor]
  BY DEF AddLogs
<1> HIDE DEF new, earliest, after
<1>4. \A e \in Events : m.count[e] \in Nat
  BY DEF IsMemory, Counts
<1>5. after.count \in Counts /\ \A e \in Events : e \in after.ids <=> after.count[e] > 0
  BY <1>1, <1>3, <1>4 DEF IsMemory, Counts
<1>6. after.ids \subseteq Events /\ after.first \in Events \cup {None} /\ after.cursor \in Int
  BY <1>1, <1>2, <1>3 DEF IsMemory
<1>7. /\ after.cursor = Unset /\ after.ids # {} => after.first # None
      /\ after.cursor = Unset \/ after.cursor >= 0
  BY <1>1, <1>2, <1>3 DEF IsMemory
<1>8. ASSUME \A e \in Events : m.count[e] <= 1, NEW e \in Events PROVE after.count[e] <= 1
  BY <1>1, <1>3, <1>4, <1>8 DEF IsMemory
<1>9. after \in [count : Counts, ids : SUBSET Events, first : Events \cup {None}, cursor : Int]
  BY <1>3, <1>5, <1>6
<1> QED
  BY <1>5, <1>7, <1>8, <1>9 DEF IsMemory, after

LEMMA CommitTyped ==
  ASSUME NEW m, IsMemory(m), NEW next \in Int, next >= 0
  PROVE  /\ IsMemory(Commit(m, next))
         /\ (\A e \in Events : m.count[e] <= 1) =>
              \A e \in Events : Commit(m, next).count[e] <= 1
BY DEF IsMemory, Commit, IdsKept, Counts

LEMMA PeekTyped ==
  ASSUME NEW m, IsMemory(m), m.ids # {}
  PROVE  /\ Peek(m) \in [windows : [Starts -> Counts], next : Int] /\ Peek(m).next >= 0
         /\ (\A e \in Events : m.count[e] <= 1) =>
              \A s \in Starts, e \in Events : Peek(m).windows[s][e] <= 1
<1>1. Start(m) \in Int /\ Start(m) >= 0
  <2>1. CASE m.cursor # Unset
    BY <2>1 DEF Start, IsMemory
  <2>2. CASE m.cursor = Unset
    <3>1. m.first \in Events
      BY <2>2 DEF IsMemory
    <3>2. Time[m.first] \in Nat
      BY <3>1
    <3>3. Time[m.first] \div Window \in Nat
      BY <3>2
    <3> QED
      BY <2>2, <3>3 DEF Start
  <2> QED
    BY <2>1, <2>2
<1>2. Cardinality(Closed(m)) \in Nat
  <2>1. IsFiniteSet(0..MaxTime) /\ Closed(m) \subseteq 0..MaxTime
    BY FS_Interval DEF Closed, Starts
  <2> QED
    BY <2>1, FS_Subset, FS_CardinalityType
<1>3. \A s \in Starts : LogsOf(m, s) \in Counts
  BY DEF LogsOf, IsMemory, Counts
<1>4. Nothing \in Counts
  BY DEF Nothing, Counts
<1>5. Peek(m).windows \in [Starts -> Counts]
  BY <1>3, <1>4 DEF Peek
<1>6. Peek(m).next \in Int /\ Peek(m).next >= 0
  <2> DEFINE n == Cardinality(Closed(m))
  <2>1. Peek(m).next = Start(m) + Stride * n
    BY DEF Peek
  <2>2. Stride * n \in Nat
    BY <1>2
  <2> QED
    BY <1>1, <2>1, <2>2
<1>7. ASSUME \A e \in Events : m.count[e] <= 1, NEW s \in Starts, NEW e \in Events
      PROVE  Peek(m).windows[s][e] <= 1
  BY <1>7 DEF Peek, LogsOf, Nothing
<1> QED
  BY <1>5, <1>6, <1>7 DEF Peek

LEMMA NoPeekTyped ==
  /\ NoPeek \in [windows : [Starts -> Counts], next : Int] /\ NoPeek.next >= 0
  /\ \A s \in Starts, e \in Events : NoPeek.windows[s][e] <= 1
BY DEF NoPeek, Nothing, Counts

\* A reconciled memory, and what the worker peeks of it.
LEMMA ExtractTyped ==
  ASSUME ExtractorInv, Extract
  PROVE  /\ IsMemory(memory') /\ peeked' \in [windows : [Starts -> Counts], next : Int]
         /\ peeked'.next >= 0 /\ pc' \in {"idle", "register"}
         /\ CountedOnce => CountedOnce'
<1> DEFINE m == AddLogs(memory, InHorizon)
<1>1. InHorizon \in SUBSET Events
  BY DEF InHorizon, ExtractorInv, TypeOK
<1>2. IsMemory(m) /\ (CountedOnce => \A e \in Events : m.count[e] <= 1)
  BY <1>1, AddLogsTyped DEF ExtractorInv, CountedOnce
<1> HIDE DEF m
<1>3. CASE m.ids = {} /\ memory' = m /\ UNCHANGED <<pc, peeked>>
  BY <1>2, <1>3 DEF Extract, ExtractorInv, TypeOK, CountedOnce
<1>4. CASE m.ids # {} /\ memory' = Commit(m, Peek(m).next) /\ UNCHANGED <<pc, peeked>>
  <2>1. Peek(m).next \in Int /\ Peek(m).next >= 0
    BY <1>2, <1>4, PeekTyped
  <2> QED
    BY <1>2, <1>4, <2>1, CommitTyped DEF Extract, ExtractorInv, TypeOK, CountedOnce
<1>5. CASE m.ids # {} /\ memory' = m /\ peeked' = Peek(m) /\ pc' = "register"
  BY <1>2, <1>5, PeekTyped DEF CountedOnce
<1> QED
  BY <1>3, <1>4, <1>5 DEF Extract, m
LEMMA FaultTyped ==
  TypeOK /\ Fault => faults' \in 0..MaxFaults /\ crashes' \in 0..MaxCrashes
BY DEF Fault, TypeOK

LEMMA RegisterTyped ==
  ASSUME TypeOK, RegisterWork
  PROVE  /\ status' \in [Starts -> {"none", "waiting", "processing", "completed", "failed"}]
         /\ logs' \in [Starts -> Counts]
         /\ \A s \in Starts : status[s] # "none" => status'[s] = status[s]
         /\ \A s \in Starts : status[s] = "none" => status'[s] \in {"none", "waiting"}
         /\ \A s \in Starts : status[s] \in {"processing", "completed", "failed"} => logs'[s] = logs[s]
         /\ \A s \in Starts : logs'[s] \in {logs[s], peeked.windows[s]}
         /\ \A s \in Starts : peeked.windows[s] # Nothing => status'[s] # "none"
<1> DEFINE new == {s \in Starts : peeked.windows[s] # Nothing}
<1>1. /\ status' = [s \in Starts |->
                     IF s \in new /\ status[s] = "none" THEN "waiting" ELSE status[s]]
      /\ logs' = [s \in Starts |->
                   IF s \in new /\ status[s] \in {"none", "waiting"}
                     THEN peeked.windows[s] ELSE logs[s]]
  BY DEF RegisterWork, Refreshable
<1>2. \A s \in Starts : peeked.windows[s] \in Counts /\ logs[s] \in Counts
  BY DEF TypeOK
<1>3. /\ status' \in [Starts -> {"none", "waiting", "processing", "completed", "failed"}]
      /\ \A s \in Starts : status[s] # "none" => status'[s] = status[s]
      /\ \A s \in Starts : status[s] = "none" => status'[s] \in {"none", "waiting"}
  BY <1>1 DEF TypeOK
<1>4. \A s \in Starts : s \in new => status'[s] # "none"
  BY <1>1 DEF TypeOK
<1>5. \A s \in Starts : logs'[s] = IF s \in new /\ status[s] \in {"none", "waiting"}
                                    THEN peeked.windows[s] ELSE logs[s]
  BY <1>1
<1>6. \A s \in Starts : peeked.windows[s] # Nothing => status'[s] # "none"
  BY <1>4
<1> HIDE DEF new
<1>7. logs' \in [Starts -> Counts]
  BY <1>1, <1>2
<1>8. /\ \A s \in Starts : status[s] \in {"processing", "completed", "failed"} => logs'[s] = logs[s]
      /\ \A s \in Starts : logs'[s] \in {logs[s], peeked.windows[s]}
  BY <1>5
<1> QED
  BY <1>3, <1>6, <1>7, <1>8

LEMMA ClaimTyped ==
  ASSUME TypeOK, NEW s \in Starts, ClaimRow(s)
  PROVE  /\ status' \in [Starts -> {"none", "waiting", "processing", "completed", "failed"}]
         /\ status[s] \in {"waiting", "processing"} /\ status'[s] = "processing"
         /\ \A t \in Starts \ {s} : status'[t] = status[t]
BY DEF ClaimRow, Claimable, TypeOK

--------------------------------------------------------------------------------
LEMMA ExtractorInit == Init => ExtractorInv
<1>1. Init => TypeOK /\ peeked.next >= 0
  BY NoMemoryTyped, NoPeekTyped DEF Init, TypeOK, Nothing, Counts, IsMemory
<1> QED
  BY <1>1, NoMemoryTyped DEF Init, ExtractorInv

LEMMA ExtractorStep == ExtractorInv /\ [Next]_vars => ExtractorInv'
<1> SUFFICES ASSUME ExtractorInv, [Next]_vars PROVE ExtractorInv'
  OBVIOUS
<1> USE DEF ExtractorInv, tables, process, bounds
<1>1. CASE UNCHANGED vars
  BY <1>1 DEF vars, TypeOK, IsMemory
<1>2. CASE Tick
  BY <1>2 DEF Tick, TypeOK, IsMemory
<1>3. CASE Extract
  <2>1. /\ IsMemory(memory') /\ peeked' \in [windows : [Starts -> Counts], next : Int]
        /\ peeked'.next >= 0 /\ pc' \in {"idle", "register"}
    BY <1>3, ExtractTyped
  <2> QED
    BY <1>3, <2>1 DEF Extract, Pruned, InHorizon, TypeOK, IsMemory
<1>4. CASE ExtractFails
  BY <1>4 DEF ExtractFails, Fault, Pruned, InHorizon, TypeOK, IsMemory
<1>5. CASE Register
  <2>1. IsMemory(memory')
    BY <1>5, CommitTyped DEF Register, ConsumePeeked, TypeOK
  <2>2. consumed' \subseteq Starts
    BY <1>5 DEF Register, ConsumePeeked, TypeOK
  <2> QED
    BY <1>5, <2>1, <2>2, RegisterTyped, NoPeekTyped DEF Register, TypeOK, IsMemory
<1>6. CASE RegisterFails
  <2>1. /\ status' \in [Starts -> {"none", "waiting", "processing", "completed", "failed"}]
        /\ logs' \in [Starts -> Counts]
    BY <1>6, RegisterTyped DEF RegisterFails, TypeOK
  <2> QED
    BY <1>6, <2>1, NoPeekTyped DEF RegisterFails, AfterFailedRegister, Fault, TypeOK, IsMemory
<1>7. CASE Handle
  <2>1. features' \in [Starts -> Counts] /\ incidents' \subseteq Starts \cup {job}
    BY <1>7 DEF Handle, TypeOK
  <2> QED
    BY <1>7, <2>1 DEF Handle, TypeOK, IsMemory
<1>8. CASE HandleFails
  <2>1. PICK s \in {"waiting", "failed"} : status' = [status EXCEPT ![job] = s]
    BY <1>8 DEF HandleFails
  <2>2. status' \in [Starts -> {"none", "waiting", "processing", "completed", "failed"}]
    BY <2>1 DEF TypeOK
  <2> QED
    BY <1>8, <2>2, FaultTyped DEF HandleFails, TypeOK, IsMemory
<1>9. CASE Crash
  BY <1>9, NoMemoryTyped, NoPeekTyped DEF Crash, TypeOK, IsMemory
<1>10. ASSUME NEW e \in Events, Accept(e) PROVE ExtractorInv'
  BY <1>10 DEF Accept, TypeOK, IsMemory
<1>11. ASSUME NEW e \in Events, Callback(e) PROVE ExtractorInv'
  <2>1. IsMemory(memory')
    BY <1>11, AddLogsTyped DEF Callback
  <2> QED
    BY <1>11, <2>1 DEF Callback, TypeOK, IsMemory
<1>12. ASSUME NEW e \in Events, Contribute(e) PROVE ExtractorInv'
  <2>1. IsMemory(memory')
    BY <1>12, AddLogsTyped DEF Contribute
  <2> QED
    BY <1>12, <2>1 DEF Contribute, TypeOK, IsMemory
<1>13. ASSUME NEW e \in Events, ContributeFails(e) PROVE ExtractorInv'
  <2>1. IsMemory(memory')
    BY <1>13, AddLogsTyped DEF ContributeFails
  <2> QED
    BY <1>13, <2>1, FaultTyped DEF ContributeFails, TypeOK, IsMemory
<1>14. ASSUME NEW s \in Starts, Claim(s) PROVE ExtractorInv'
  <2>1. s \in 0..MaxTime
    BY DEF Starts
  <2> QED
    BY <1>14, <2>1, ClaimTyped DEF Claim, TypeOK, IsMemory
<1>15. ASSUME NEW s \in Starts, ClaimFails(s) PROVE ExtractorInv'
  BY <1>15, ClaimTyped DEF ClaimFails, Fault, TypeOK, IsMemory
<1> QED
  BY <1>1, <1>2, <1>3, <1>4, <1>5, <1>6, <1>7, <1>8, <1>9, <1>10, <1>11, <1>12, <1>13,
     <1>14, <1>15 DEF Next

\* TypeOK holds in every reachable state.
THEOREM TypeCorrect == Spec => []TypeOK
<1>1. Spec => []ExtractorInv
  BY ExtractorInit, ExtractorStep, PTL DEF Spec
<1>2. ExtractorInv => TypeOK
  BY DEF ExtractorInv
<1> QED
  BY <1>1, <1>2, PTL

LEMMA ExtractorAlways == Spec => []ExtractorInv
BY ExtractorInit, ExtractorStep, PTL DEF Spec

--------------------------------------------------------------------------------
LEMMA ConsumedStep ==
  ASSUME ExtractorInv, RegisteredBeforeConsumed, [Next]_vars
  PROVE  RegisteredBeforeConsumed'
<1> USE DEF ExtractorInv, RegisteredBeforeConsumed, tables, process, bounds
<1>0. consumed \subseteq Starts
  BY DEF TypeOK
<1>1. CASE UNCHANGED vars \/ Tick \/ Extract \/ ExtractFails \/ Crash
  BY <1>1 DEF vars, Tick, Extract, ExtractFails, Crash
<1>2. CASE Register
  BY <1>0, <1>2, RegisterTyped DEF Register, ConsumePeeked
<1>3. CASE RegisterFails
  BY <1>0, <1>3, RegisterTyped DEF RegisterFails, AfterFailedRegister
<1>4. CASE Handle
  BY <1>4 DEF Handle, TypeOK
<1>5. CASE HandleFails
  BY <1>5 DEF HandleFails, TypeOK
<1>6. ASSUME NEW e \in Events, Accept(e) \/ Callback(e) \/ Contribute(e) \/ ContributeFails(e)
      PROVE  RegisteredBeforeConsumed'
  BY <1>6 DEF Accept, Callback, Contribute, ContributeFails
<1>7. ASSUME NEW s \in Starts, Claim(s) \/ ClaimFails(s) PROVE RegisteredBeforeConsumed'
  BY <1>0, <1>7, ClaimTyped DEF Claim, ClaimFails
<1> QED
  BY <1>1, <1>2, <1>3, <1>4, <1>5, <1>6, <1>7 DEF Next

\* RegisteredBeforeConsumed for every bound: whatever fails, the cursor passes no
\* window whose work is not registered.
THEOREM ConsumptionSafety == Spec => []RegisteredBeforeConsumed
<1>1. Init => RegisteredBeforeConsumed
  BY DEF Init, RegisteredBeforeConsumed
<1>2. ExtractorInv /\ RegisteredBeforeConsumed /\ [Next]_vars => RegisteredBeforeConsumed'
  BY ConsumedStep
<1> QED
  BY <1>1, <1>2, ExtractorAlways, PTL DEF Spec

--------------------------------------------------------------------------------
LEMMA OnceStep ==
  ASSUME ExtractorInv, CountedOnce, NoDoubleCount, [Next]_vars
  PROVE  CountedOnce' /\ NoDoubleCount'
<1> USE DEF ExtractorInv, tables, process, bounds
<1>1. CASE UNCHANGED vars \/ Tick \/ ExtractFails \/ Handle \/ HandleFails
  BY <1>1 DEF vars, Tick, ExtractFails, Handle, HandleFails, CountedOnce, NoDoubleCount
<1>2. CASE Extract
  <2>1. CountedOnce'
    BY <1>2, ExtractTyped
  <2> QED
    BY <1>2, <2>1 DEF Extract, NoDoubleCount
<1>3. CASE Register
  <2>1. \A e \in Events : memory'.count[e] <= 1
    BY <1>3, CommitTyped DEF Register, ConsumePeeked, TypeOK, CountedOnce
  <2>2. NoDoubleCount'
    BY <1>3, RegisterTyped DEF Register, CountedOnce, NoDoubleCount
  <2> QED
    BY <1>3, <2>1, <2>2, NoPeekTyped DEF Register, CountedOnce
<1>4. CASE RegisterFails
  <2>1. NoDoubleCount'
    BY <1>4, RegisterTyped DEF RegisterFails, CountedOnce, NoDoubleCount
  <2> QED
    BY <1>4, <2>1, NoPeekTyped DEF RegisterFails, AfterFailedRegister, CountedOnce
<1>5. CASE Crash
  BY <1>5, NoMemoryTyped, NoPeekTyped DEF Crash, CountedOnce, NoDoubleCount
<1>6. ASSUME NEW e \in Events, Accept(e) PROVE CountedOnce' /\ NoDoubleCount'
  BY <1>6 DEF Accept, CountedOnce, NoDoubleCount
<1>7. ASSUME NEW e \in Events, Callback(e) \/ Contribute(e) \/ ContributeFails(e)
      PROVE  CountedOnce' /\ NoDoubleCount'
  <2>1. memory' = AddLogs(memory, {e}) /\ UNCHANGED <<peeked, logs>>
    BY <1>7 DEF Callback, Contribute, ContributeFails
  <2> QED
    BY <2>1, AddLogsTyped DEF CountedOnce, NoDoubleCount
<1>8. ASSUME NEW s \in Starts, Claim(s) \/ ClaimFails(s) PROVE CountedOnce' /\ NoDoubleCount'
  BY <1>8 DEF Claim, ClaimFails, CountedOnce, NoDoubleCount
<1> QED
  BY <1>1, <1>2, <1>3, <1>4, <1>5, <1>6, <1>7, <1>8 DEF Next

\* NoDoubleCount for every bound: callback, contribution and reconciliation together
\* put a log into a window at most once.
THEOREM CountSafety == Spec => []NoDoubleCount
<1>1. Init => CountedOnce /\ NoDoubleCount
  BY NoMemoryTyped, NoPeekTyped DEF Init, CountedOnce, NoDoubleCount, Nothing
<1>2. ExtractorInv /\ (CountedOnce /\ NoDoubleCount) /\ [Next]_vars => (CountedOnce /\ NoDoubleCount)'
  BY OnceStep
<1> QED
  BY <1>1, <1>2, ExtractorAlways, PTL DEF Spec

--------------------------------------------------------------------------------
LEMMA PersistInit == Init => PersistInv
BY DEF Init, PersistInv, HandlerInv, CompletedMeansPersisted

LEMMA PersistStep ==
  ASSUME ExtractorInv, PersistInv, [Next]_vars
  PROVE  PersistInv'
<1> USE DEF ExtractorInv, PersistInv, HandlerInv, CompletedMeansPersisted, Anomalous,
            tables, process, bounds
<1>1. CASE UNCHANGED vars \/ Tick \/ ExtractFails \/ Crash
  BY <1>1 DEF vars, Tick, ExtractFails, Crash
<1>2. CASE Extract
  BY <1>2, ExtractTyped DEF Extract
<1>3. CASE Register \/ RegisterFails
  <2>1. /\ \A s \in Starts : status'[s] = "completed" => status[s] = "completed" /\ logs'[s] = logs[s]
        /\ \A s \in Starts : status[s] = "completed" => status'[s] = "completed"
    BY <1>3, RegisterTyped DEF Register, RegisterFails
  <2>2. pc' = "idle" /\ UNCHANGED <<features, incidents>>
    BY <1>3 DEF Register, RegisterFails
  <2> QED
    BY <2>1, <2>2
<1>4. CASE Handle
  <2>1. /\ job \in Starts /\ status[job] = "processing"
        /\ features[job] = Nothing /\ job \notin incidents
    BY <1>4 DEF Handle
  <2>2. status'[job] = "completed" /\ features'[job] = logs[job]
    BY <1>4, <2>1 DEF Handle, TypeOK
  <2>3. job \in incidents' <=> Anomalous(logs[job])
    BY <1>4, <2>1 DEF Handle
  <2>4. \A s \in Starts \ {job} :
          /\ status'[s] = status[s] /\ features'[s] = features[s]
          /\ s \in incidents' <=> s \in incidents
    BY <1>4 DEF Handle, TypeOK
  <2> QED
    BY <1>4, <2>2, <2>3, <2>4 DEF Handle
<1>5. CASE HandleFails
  <2>1. PICK new \in {"waiting", "failed"} : status' = [status EXCEPT ![job] = new]
    BY <1>5 DEF HandleFails
  <2>2. job \in Starts /\ status[job] = "processing" /\ status'[job] = new
    BY <1>5, <2>1 DEF HandleFails, TypeOK
  <2>3. \A s \in Starts \ {job} : status'[s] = status[s]
    BY <2>1 DEF TypeOK
  <2> QED
    BY <1>5, <2>2, <2>3 DEF HandleFails
<1>6. ASSUME NEW e \in Events, Accept(e) \/ Callback(e) \/ Contribute(e) \/ ContributeFails(e)
      PROVE  PersistInv'
  BY <1>6 DEF Accept, Callback, Contribute, ContributeFails
<1>7. ASSUME NEW s \in Starts, Claim(s) \/ ClaimFails(s) PROVE PersistInv'
  BY <1>7, ClaimTyped DEF Claim, ClaimFails, ClaimRow
<1> QED
  BY <1>1, <1>2, <1>3, <1>4, <1>5, <1>6, <1>7 DEF Next

\* CompletedMeansPersisted for every bound: completed work is in the feature table
\* as it was registered, with an incident exactly if it is anomalous.
THEOREM PersistenceSafety == Spec => []CompletedMeansPersisted
<1>1. ExtractorInv /\ PersistInv /\ [Next]_vars => PersistInv'
  BY PersistStep
<1>2. PersistInv => CompletedMeansPersisted
  BY DEF PersistInv
<1> QED
  BY <1>1, <1>2, PersistInit, ExtractorAlways, PTL DEF Spec

--------------------------------------------------------------------------------
LEMMA RecoverableStep ==
  ASSUME ExtractorInv, InputsRecoverable, [Next]_vars
  PROVE  InputsRecoverable'
<1> USE DEF ExtractorInv, InputsRecoverable, tables, process, bounds
<1>1. CASE Tick
  <2>1. now \in Int /\ now' = now + 1
    BY <1>1 DEF Tick, TypeOK
  <2>2. \A e \in Events : Time[e] < now - Horizon => Time[e] < now' - Horizon
    BY <2>1, HorizonIsInt
  <2> QED
    BY <1>1, <2>2 DEF Tick
<1>2. CASE Extract \/ ExtractFails
  <2>1. inputs' = {e \in inputs : Time[e] >= now - Horizon}
    BY <1>2 DEF Extract, ExtractFails, Pruned, InHorizon
  <2>2. now \in Int /\ \A e \in Events : Time[e] \in Int
    BY DEF TypeOK
  <2> QED
    BY <1>2, <2>1, <2>2, HorizonIsInt DEF Extract, ExtractFails
<1>3. CASE UNCHANGED vars \/ Register \/ RegisterFails \/ Handle \/ HandleFails \/ Crash
  BY <1>3 DEF vars, Register, RegisterFails, Handle, HandleFails, Crash
<1>4. ASSUME NEW e \in Events, Accept(e) \/ Callback(e) \/ Contribute(e) \/ ContributeFails(e)
      PROVE  InputsRecoverable'
  BY <1>4 DEF Accept, Callback, Contribute, ContributeFails, TypeOK
<1>5. ASSUME NEW s \in Starts, Claim(s) \/ ClaimFails(s) PROVE InputsRecoverable'
  BY <1>5 DEF Claim, ClaimFails
<1> QED
  BY <1>1, <1>2, <1>3, <1>4, <1>5 DEF Next

\* InputsRecoverable for every bound: pruning takes no input that reconciliation
\* would still read.
THEOREM RecoverySafety == Spec => []InputsRecoverable
<1>1. Init => InputsRecoverable
  BY DEF Init, InputsRecoverable
<1>2. ExtractorInv /\ InputsRecoverable /\ [Next]_vars => InputsRecoverable'
  BY RecoverableStep
<1> QED
  BY <1>1, <1>2, ExtractorAlways, PTL DEF Spec

================================================================================
