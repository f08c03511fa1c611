---------------------------- MODULE RehydrationProofs ----------------------------
(***************************************************************************)
(* Safety of rehydration for any requests, keys, cleaners and failures: a    *)
(* READY session has its table, no table outlives its session, and clean-up  *)
(* is never undone, for every session that does not expire under its request. *)
(***************************************************************************)
EXTENDS Rehydration, TLAPS

USE RehydrationAssumption

\* What the position of a request says about its session and its table.
Position(r) ==
  /\ status[r] = "none" => r \notin tables /\ loaded[r] = 0 /\ pc[r] \in {"idle", "done"}
  /\ pc[r] = "idle" => status[r] = "none"
  /\ pc[r] \in Working => status[r] \in Active /\ live[r]
  /\ pc[r] \in {"authorize", "create"} => r \notin tables
  /\ pc[r] \in {"download", "fetch", "insert", "ready"} => r \in tables
  /\ pc[r] \in Working \ {"ready"} => loaded[r] < want[r]
  /\ pc[r] = "ready" => loaded[r] = want[r]
  /\ pc[r] \in {"drop", "delete"} => status[r] \in Finished
  /\ pc[r] = "delete" => r \notin tables
  /\ status[r] = "DELETED" => r \notin tables
  /\ status[r] = "READY" => r \in tables /\ loaded[r] = want[r] /\ reported[r] = want[r]

\* A selected session has left its request, or its request is cleaning up too.
Abandoned(r) == status[r] # "none" /\ pc[r] \in Failing \cup {"done"}

\* What the position of a cleaner says about the sessions it selected.
Selected(c) ==
  /\ step[c] \in {"drop", "delete"} => cur[c] \in Requests
  /\ \A r \in todo[c] \ overtaken : Abandoned(r)
  /\ \A r \in Requests \ overtaken : step[c] \in {"drop", "delete"} /\ cur[c] = r =>
       /\ Abandoned(r) /\ status[r] \in Finished
       /\ step[c] = "delete" => r \notin tables

\* No step takes a finished session back.
FinishedStays ==
  \A r \in Requests \ overtaken :
    status[r] \in Finished => status'[r] \in Finished \/ r \in overtaken'

SessionInv == \A r \in Requests \ overtaken : Position(r)
CleanerInv == \A c \in Cleaners : Selected(c)

IInv == TypeOK /\ SessionInv /\ CleanerInv

--------------------------------------------------------------------------------
\* Type correctness: the shape of sessions, tables and positions.
LEMMA InitType == Init => TypeOK
BY DEF Init, TypeOK, Active, Finished, Working, Failing

LEMMA FaultType ==
  ASSUME TypeOK, Fault \/ UNCHANGED bounds PROVE stalls' \in Nat /\ faults' \in Nat
BY DEF TypeOK, Fault, bounds

LEMMA MarkType ==
  ASSUME TypeOK, NEW r, NEW s \in {"READY"} \cup Active \cup Finished, Mark(r, s)
  PROVE  status' \in [Requests -> {"none", "READY"} \cup Active \cup Finished]
BY DEF TypeOK, Mark

LEMMA GotoType ==
  ASSUME TypeOK, NEW r, NEW next \in {"done"} \cup Working \cup Failing, Goto(r, next)
  PROVE  pc' \in [Requests -> {"idle", "done"} \cup Working \cup Failing]
BY DEF TypeOK, Goto

LEMMA StepType == TypeOK /\ [Next]_vars => TypeOK'
<1> SUFFICES ASSUME TypeOK, [Next]_vars PROVE TypeOK'
  OBVIOUS
<1> USE DEF session, staging, request, cleaner, bounds
<1>1. ASSUME NEW r \in Requests, RequestStep(r) PROVE TypeOK'
  <2> USE DEF Does, MarkOnly, Mark, DropTable, Goto, Fault, TypeOK, Active, Finished, Working, Failing
  <2>1. CASE Join(r)       BY <2>1 DEF Join
  <2>2. CASE Refuse(r)     BY <2>2 DEF Refuse
  <2>3. CASE Admit(r)      BY <2>3 DEF Admit
  <2>4. CASE Authorize(r)  BY <2>4 DEF Authorize
  <2>5. CASE CreateTable(r) BY <2>5 DEF CreateTable
  <2>6. CASE Download(r)   BY <2>6 DEF Download
  <2>7. CASE Fetch(r)      BY <2>7 DEF Fetch
  <2>8. CASE Insert(r)     BY <2>8 DEF Insert
  <2>9. CASE Ready(r)
    <3>1. /\ status' \in [Requests -> {"none", "READY"} \cup Active \cup Finished]
          /\ UNCHANGED <<staging, want, cleaner, overtaken>>
      BY <2>9 DEF Ready
    <3>3. live' \in [Requests -> BOOLEAN]
      BY <2>9 DEF Ready
    <3>4. reported' \in [Requests -> Nat]
      BY <2>9 DEF Ready
    <3>2. /\ pc' \in [Requests -> {"idle", "done"} \cup Working \cup Failing]
          /\ stalls' \in Nat /\ faults' \in Nat
      BY <2>9 DEF Ready
    <3> QED BY <3>1, <3>2, <3>3, <3>4
  <2>10. CASE FailMark(r)  BY <2>10 DEF FailMark
  <2>11. CASE FailDrop(r)  BY <2>11 DEF FailDrop
  <2>12. CASE FailDelete(r) BY <2>12 DEF FailDelete
  <2> QED BY <1>1, <2>1, <2>2, <2>3, <2>4, <2>5, <2>6, <2>7, <2>8, <2>9, <2>10, <2>11, <2>12
          DEF RequestStep
<1>2. ASSUME NEW r \in Requests, Die(r) PROVE TypeOK'
  BY <1>2 DEF Die, Goto, Fault, TypeOK
<1>3. ASSUME NEW r \in Requests, Expire(r) PROVE TypeOK'
  BY <1>3 DEF Expire, TypeOK
<1>4. ASSUME NEW c \in Cleaners, CleanerStep(c) PROVE TypeOK'
  <2> USE DEF Cleans, NextTable, MarkOnly, Mark, DropTable, Fault, TypeOK, Active, Finished
  <2>1. CASE Select(c)      BY <2>1 DEF Select
  <2>2. CASE CleanExpire(c) BY <2>2 DEF CleanExpire
  <2>3. CASE CleanDrop(c)   BY <2>3 DEF CleanDrop
  <2>4. CASE CleanDelete(c) BY <2>4 DEF CleanDelete
  <2> QED BY <1>4, <2>1, <2>2, <2>3, <2>4 DEF CleanerStep
<1>5. ASSUME NEW c \in Cleaners, CleanerDies(c) PROVE TypeOK'
  BY <1>5 DEF CleanerDies, Fault, TypeOK
<1>6. CASE UNCHANGED vars
  BY <1>6 DEF vars, TypeOK
<1> QED BY <1>1, <1>2, <1>3, <1>4, <1>5, <1>6 DEF Next

THEOREM TypeCorrect == Spec => []TypeOK
BY InitType, StepType, PTL DEF Spec

--------------------------------------------------------------------------------
\* A step of one request leaves the sessions, tables and positions of the others.
Others(r) ==
  /\ \A s \in Requests \ {r} :
       /\ status'[s] = status[s] /\ live'[s] = live[s] /\ reported'[s] = reported[s]
       /\ (s \in tables' <=> s \in tables) /\ loaded'[s] = loaded[s]
       /\ want'[s] = want[s] /\ pc'[s] = pc[s]
  /\ overtaken \subseteq overtaken'

LEMMA RequestFrame ==
  ASSUME TypeOK, NEW r \in Requests, RequestStep(r) \/ Die(r)
  PROVE  Others(r) /\ UNCHANGED <<cleaner, overtaken>>
<1> USE DEF Does, MarkOnly, Mark, DropTable, Goto, Fault, TypeOK, Others,
            session, staging, request, cleaner, bounds
<1>1. CASE Join(r)        BY <1>1 DEF Join
<1>2. CASE Refuse(r)      BY <1>2 DEF Refuse
<1>3. CASE Admit(r)       BY <1>3 DEF Admit
<1>4. CASE Authorize(r)   BY <1>4 DEF Authorize
<1>5. CASE CreateTable(r) BY <1>5 DEF CreateTable
<1>6. CASE Download(r)    BY <1>6 DEF Download
<1>7. CASE Fetch(r)       BY <1>7 DEF Fetch
<1>8. CASE Insert(r)      BY <1>8 DEF Insert
<1>9. CASE Ready(r)       BY <1>9 DEF Ready
<1>10. CASE FailMark(r)   BY <1>10 DEF FailMark
<1>11. CASE FailDrop(r)   BY <1>11 DEF FailDrop
<1>12. CASE FailDelete(r) BY <1>12 DEF FailDelete
<1>13. CASE Die(r)        BY <1>13 DEF Die
<1> QED BY <1>1, <1>2, <1>3, <1>4, <1>5, <1>6, <1>7, <1>8, <1>9, <1>10, <1>11, <1>12, <1>13
        DEF RequestStep

LEMMA RequestPosition ==
  ASSUME TypeOK, NEW r \in Requests, Position(r), RequestStep(r) \/ Die(r)
  PROVE  Position(r)'
<1> USE DEF Does, MarkOnly, Mark, DropTable, Goto, Fault, TypeOK, Position,
            Active, Finished, Working, Failing,
            session, staging, request, cleaner, bounds
<1>1. CASE Join(r)        BY <1>1 DEF Join
<1>2. CASE Refuse(r)      BY <1>2 DEF Refuse
<1>3. CASE Admit(r)       BY <1>3 DEF Admit, Refused
<1>4. CASE Authorize(r)   BY <1>4 DEF Authorize
<1>5. CASE CreateTable(r) BY <1>5 DEF CreateTable
<1>6. CASE Download(r)    BY <1>6 DEF Download
<1>7. CASE Fetch(r)       BY <1>7 DEF Fetch
<1>8. CASE Insert(r)      BY <1>8 DEF Insert
<1>9. CASE Ready(r)       BY <1>9 DEF Ready
<1>10. CASE FailMark(r)   BY <1>10 DEF FailMark
<1>11. CASE FailDrop(r)   BY <1>11 DEF FailDrop
<1>12. CASE FailDelete(r) BY <1>12 DEF FailDelete
<1>13. CASE Die(r)        BY <1>13 DEF Die
<1> QED BY <1>1, <1>2, <1>3, <1>4, <1>5, <1>6, <1>7, <1>8, <1>9, <1>10, <1>11, <1>12, <1>13
        DEF RequestStep

\* No step of a request takes it back to work, or an abandoned session from a cleaner.
LEMMA RequestKeepsAbandoned ==
  ASSUME TypeOK, NEW r \in Requests, Position(r), RequestStep(r) \/ Die(r)
  PROVE  /\ Abandoned(r) => Abandoned(r)' /\ (r \in tables' => r \in tables)
         /\ status[r] \in Finished => status'[r] \in Finished
<1> USE DEF Does, MarkOnly, Mark, DropTable, Goto, Fault, TypeOK, Position, Abandoned,
            Active, Finished, Working, Failing,
            session, staging, request, cleaner, bounds
<1>1. CASE Join(r)        BY <1>1 DEF Join
<1>2. CASE Refuse(r)      BY <1>2 DEF Refuse
<1>3. CASE Admit(r)       BY <1>3 DEF Admit
<1>4. CASE Authorize(r)   BY <1>4 DEF Authorize
<1>5. CASE CreateTable(r) BY <1>5 DEF CreateTable
<1>6. CASE Download(r)    BY <1>6 DEF Download
<1>7. CASE Fetch(r)       BY <1>7 DEF Fetch
<1>8. CASE Insert(r)      BY <1>8 DEF Insert
<1>9. CASE Ready(r)       BY <1>9 DEF Ready
<1>10. CASE FailMark(r)   BY <1>10 DEF FailMark
<1>11. CASE FailDrop(r)   BY <1>11 DEF FailDrop
<1>12. CASE FailDelete(r) BY <1>12 DEF FailDelete
<1>13. CASE Die(r)        BY <1>13 DEF Die
<1> QED BY <1>1, <1>2, <1>3, <1>4, <1>5, <1>6, <1>7, <1>8, <1>9, <1>10, <1>11, <1>12, <1>13
        DEF RequestStep

--------------------------------------------------------------------------------
\* What a request step means for the invariant.
LEMMA RequestKeepsInv ==
  ASSUME IInv, TypeOK', NEW r \in Requests, RequestStep(r) \/ Die(r) PROVE IInv' /\ FinishedStays
<1>1. Others(r) /\ UNCHANGED <<cleaner, overtaken>>
  BY RequestFrame DEF IInv
<1>2. ASSUME NEW s \in Requests \ overtaken' PROVE Position(s)'
  <2>1. CASE s = r   BY <1>1, <1>2, <2>1, RequestPosition DEF IInv, SessionInv
  <2>2. CASE s # r   BY <1>1, <1>2, <2>2 DEF Others, Position, IInv, SessionInv
  <2> QED BY <2>1, <2>2
<1>3. ASSUME NEW s \in Requests \ overtaken
      PROVE  /\ Abandoned(s) => Abandoned(s)' /\ (s \in tables' => s \in tables)
             /\ status[s] \in Finished => status'[s] \in Finished
  <2>1. CASE s = r   BY <1>3, <2>1, RequestKeepsAbandoned DEF IInv, SessionInv
  <2>2. CASE s # r   BY <1>1, <1>3, <2>2 DEF Others, Abandoned
  <2> QED BY <2>1, <2>2
<1>4. ASSUME NEW c \in Cleaners PROVE Selected(c)'
  <2>1. Selected(c) /\ UNCHANGED <<todo, cur, step, overtaken>> /\ todo[c] \subseteq Requests
    BY <1>1, <1>4 DEF IInv, CleanerInv, cleaner, TypeOK
  <2>2. \A s \in todo'[c] \ overtaken' : Abandoned(s)'
    BY <1>3, <2>1 DEF Selected
  <2>3. ASSUME NEW s \in Requests \ overtaken', step'[c] \in {"drop", "delete"} /\ cur'[c] = s
        PROVE  Abandoned(s)' /\ status'[s] \in Finished /\ (step'[c] = "delete" => s \notin tables')
    BY <1>3, <2>1, <2>3 DEF Selected
  <2> QED BY <2>1, <2>2, <2>3 DEF Selected
<1> QED BY <1>2, <1>3, <1>4 DEF IInv, SessionInv, CleanerInv, FinishedStays

\* Time: an expiry under a running request only adds to the overtaken sessions.
LEMMA ExpireKeepsInv ==
  ASSUME IInv, TypeOK', NEW r \in Requests, Expire(r) PROVE IInv' /\ FinishedStays
<1> USE DEF session, staging, request, cleaner, bounds
<1>1. /\ UNCHANGED <<status, reported, staging, request, cleaner>>
      /\ overtaken \subseteq overtaken' /\ (pc[r] \in Working => r \in overtaken')
      /\ \A s \in Requests \ {r} : live'[s] = live[s]
  BY DEF Expire, IInv, TypeOK
<1>2. ASSUME NEW s \in Requests \ overtaken' PROVE Position(s)'
  BY <1>1, <1>2 DEF Position, IInv, SessionInv
<1>3. ASSUME NEW c \in Cleaners PROVE Selected(c)'
  BY <1>1, <1>3 DEF Selected, Abandoned, IInv, CleanerInv
<1> QED BY <1>1, <1>2, <1>3 DEF IInv, SessionInv, CleanerInv, FinishedStays

\* The selection takes sessions that no request works on.
LEMMA SelectKeepsInv ==
  ASSUME IInv, TypeOK', NEW c \in Cleaners, Select(c) PROVE IInv' /\ FinishedStays
<1> USE DEF session, staging, request, cleaner, bounds
<1>1. /\ UNCHANGED <<session, staging, request, cur, overtaken>>
      /\ \A d \in Cleaners \ {c} : todo'[d] = todo[d] /\ step'[d] = step[d]
      /\ step'[c] = "expire" /\ \A r \in todo'[c] : status[r] # "none" /\ ~live[r]
      /\ todo'[c] \subseteq Requests
  BY DEF Select, IInv, TypeOK
<1>2. ASSUME NEW s \in Requests \ overtaken' PROVE Position(s)'
  BY <1>1, <1>2 DEF Position, IInv, SessionInv
<1>3. ASSUME NEW r \in todo'[c] \ overtaken PROVE Abandoned(r)'
  <2>1. Position(r) /\ status[r] # "none" /\ ~live[r] /\ pc[r] \in {"idle", "done"} \cup Working \cup Failing
    BY <1>1, <1>3 DEF IInv, SessionInv, TypeOK
  <2> QED BY <2>1, <1>1 DEF Position, Abandoned
<1>4. ASSUME NEW d \in Cleaners PROVE Selected(d)'
  <2>1. CASE d = c   BY <1>1, <1>3, <2>1 DEF Selected
  <2>2. CASE d # c   BY <1>1, <1>4, <2>2 DEF Selected, Abandoned, IInv, CleanerInv
  <2> QED BY <2>1, <2>2
<1> QED BY <1>1, <1>2, <1>4 DEF IInv, SessionInv, CleanerInv, FinishedStays

\* A step of a cleaner on an abandoned session r: it is marked finished, or its table
\* goes once it is finished; every other session stays as it is.
Cleaned(r) ==
  /\ UNCHANGED <<live, reported, request, overtaken>>
  /\ \A s \in Requests \ {r} : status'[s] = status[s] /\ loaded'[s] = loaded[s]
                                /\ (s \in tables' <=> s \in tables)
  /\ r \in Requests \ overtaken =>
       /\ status'[r] \in Finished \cup {status[r]}
       /\ status[r] \in Finished => status'[r] \in Finished
       /\ status'[r] = "DELETED" => r \notin tables'
       /\ \/ (r \in tables' <=> r \in tables) /\ loaded'[r] = loaded[r]
          \/ r \notin tables' /\ loaded'[r] = 0 /\ status'[r] \in Finished

LEMMA CleanedKeepsSessions ==
  ASSUME IInv, NEW r \in Requests, Cleaned(r), r \notin overtaken => Abandoned(r)
  PROVE  /\ SessionInv'
         /\ \A s \in Requests \ overtaken :
              /\ Abandoned(s) => Abandoned(s)'
              /\ s \in tables' => s \in tables
              /\ status[s] \in Finished => status'[s] \in Finished
<1> USE DEF request
<1>1. ASSUME NEW s \in Requests \ overtaken PROVE Position(s)'
  <2>1. CASE s # r
    BY <1>1, <2>1 DEF Cleaned, Position, IInv, SessionInv
  <2>2. CASE s = r
    <3>1. Position(r) /\ Abandoned(r)
      BY <1>1, <2>2 DEF IInv, SessionInv
    <3> QED BY <1>1, <2>2, <3>1 DEF Cleaned, Position, Abandoned, Finished, Active, Working, Failing
  <2> QED BY <2>1, <2>2
<1>2. ASSUME NEW s \in Requests \ overtaken
      PROVE  /\ Abandoned(s) => Abandoned(s)'
             /\ s \in tables' => s \in tables
             /\ status[s] \in Finished => status'[s] \in Finished
  BY <1>2 DEF Cleaned, Abandoned, Finished
<1>3. overtaken' = overtaken
  BY DEF Cleaned
<1> QED BY <1>1, <1>2, <1>3 DEF SessionInv

\* What a cleaner leaves for its own next step, and for the other cleaners.
Moves(c, r) ==
  /\ Cleaned(r)
  /\ \A d \in Cleaners \ {c} : todo'[d] = todo[d] /\ cur'[d] = cur[d] /\ step'[d] = step[d]
  /\ todo'[c] \subseteq todo[c]
  /\ step'[c] \in {"drop", "delete"} =>
       cur'[c] = r /\ (r \notin overtaken => status'[r] \in Finished
                        /\ (step'[c] = "delete" => r \notin tables'))

LEMMA MovesKeepInv ==
  ASSUME IInv, TypeOK', NEW c \in Cleaners, NEW r \in Requests,
         r \notin overtaken => Abandoned(r), Moves(c, r)
  PROVE  IInv' /\ FinishedStays
<1>1. Cleaned(r) /\ overtaken' = overtaken
  BY DEF Moves, Cleaned
<1>2. /\ SessionInv'
      /\ \A s \in Requests \ overtaken :
           /\ Abandoned(s) => Abandoned(s)'
           /\ s \in tables' => s \in tables
           /\ status[s] \in Finished => status'[s] \in Finished
  BY <1>1, CleanedKeepsSessions
<1>3. ASSUME NEW d \in Cleaners \ {c} PROVE Selected(d)'
  <2>1. Selected(d) /\ todo'[d] = todo[d] /\ cur'[d] = cur[d] /\ step'[d] = step[d]
        /\ todo[d] \subseteq Requests
    BY <1>3 DEF IInv, CleanerInv, Moves, TypeOK
  <2>2. \A s \in todo'[d] \ overtaken' : Abandoned(s)'
    BY <1>1, <1>2, <2>1 DEF Selected
  <2>3. ASSUME NEW s \in Requests \ overtaken', step'[d] \in {"drop", "delete"} /\ cur'[d] = s
        PROVE  Abandoned(s)' /\ status'[s] \in Finished /\ (step'[d] = "delete" => s \notin tables')
    BY <1>1, <1>2, <2>1, <2>3 DEF Selected
  <2> QED BY <2>1, <2>2, <2>3 DEF Selected
<1>4. Selected(c)'
  <2>1. Selected(c) /\ todo'[c] \subseteq todo[c] /\ todo[c] \subseteq Requests
    BY DEF IInv, CleanerInv, Moves, TypeOK
  <2>2. \A s \in todo'[c] \ overtaken' : Abandoned(s)'
    BY <1>1, <1>2, <2>1 DEF Selected
  <2>3. ASSUME NEW s \in Requests \ overtaken', step'[c] \in {"drop", "delete"} /\ cur'[c] = s
        PROVE  Abandoned(s)' /\ status'[s] \in Finished /\ (step'[c] = "delete" => s \notin tables')
    <3>1. s = r
      BY <2>3 DEF Moves
    <3> QED BY <1>1, <1>2, <2>3, <3>1 DEF Moves
  <2>4. step'[c] \in {"drop", "delete"} => cur'[c] \in Requests
    BY DEF Moves
  <2> QED BY <2>2, <2>3, <2>4 DEF Selected
<1> QED BY <1>2, <1>3, <1>4 DEF IInv, CleanerInv, FinishedStays

LEMMA CleanerStepKeepsInv ==
  ASSUME IInv, TypeOK', NEW c \in Cleaners,
         CleanExpire(c) \/ CleanDrop(c) \/ CleanDelete(c)
  PROVE  IInv' /\ FinishedStays
<1> USE DEF session, staging, request, cleaner, bounds
<1>1. CASE CleanExpire(c)
  <2>1. PICK r \in todo[c] : Cleans(c, r, MarkOnly(r, "CLEANUP_PENDING"), "drop")
    BY <1>1 DEF CleanExpire
  <2>2. /\ r \in Requests /\ (r \notin overtaken => Abandoned(r))
        /\ r \notin overtaken => Position(r)
    BY <2>1 DEF IInv, CleanerInv, SessionInv, Selected, TypeOK
  <2>3. Cleaned(r)
    BY <2>1, <2>2 DEF Cleans, MarkOnly, Mark, Cleaned, Finished, IInv, TypeOK, Abandoned, Position
  <2>4. Moves(c, r)
    <3>1. CASE MarkOnly(r, "CLEANUP_PENDING") /\ cur' = [cur EXCEPT ![c] = r]
               /\ step' = [step EXCEPT ![c] = "drop"] /\ UNCHANGED todo
      BY <2>2, <2>3, <3>1 DEF Moves, MarkOnly, Mark, Finished, Abandoned, IInv, TypeOK
    <3>2. CASE NextTable(c, r)
      BY <2>2, <2>3, <3>2 DEF Moves, NextTable, IInv, TypeOK
    <3> QED BY <2>1, <3>1, <3>2 DEF Cleans
  <2> QED BY <2>2, <2>4, MovesKeepInv
<1>2. CASE CleanDrop(c)
  <2> DEFINE r == cur[c]
  <2>1. step[c] = "drop" /\ Cleans(c, r, DropTable(r), "delete")
    BY <1>2 DEF CleanDrop
  <2>2. /\ r \in Requests
        /\ r \notin overtaken => Abandoned(r) /\ Position(r) /\ status[r] \in Finished
    BY <2>1 DEF IInv, CleanerInv, SessionInv, Selected
  <2> HIDE DEF r
  <2>3. Cleaned(r)
    BY <2>1, <2>2 DEF Cleans, DropTable, Cleaned, Finished, IInv, TypeOK, Position
  <2>4. Moves(c, r)
    <3>1. CASE DropTable(r) /\ cur' = [cur EXCEPT ![c] = r]
               /\ step' = [step EXCEPT ![c] = "delete"] /\ UNCHANGED todo
      BY <2>2, <2>3, <3>1 DEF Moves, DropTable, IInv, TypeOK
    <3>2. CASE NextTable(c, r)
      BY <2>2, <2>3, <3>2 DEF Moves, NextTable, IInv, TypeOK
    <3> QED BY <2>1, <3>1, <3>2 DEF Cleans
  <2> QED BY <2>2, <2>4, MovesKeepInv
<1>3. CASE CleanDelete(c)
  <2> DEFINE r == cur[c]
  <2>1. step[c] = "delete" /\ Cleans(c, r, MarkOnly(r, "DELETED"), "idle")
    BY <1>3 DEF CleanDelete
  <2>2. /\ r \in Requests
        /\ r \notin overtaken => /\ Abandoned(r) /\ Position(r) /\ status[r] \in Finished
                                 /\ r \notin tables
    BY <2>1 DEF IInv, CleanerInv, SessionInv, Selected
  <2> HIDE DEF r
  <2>3. Cleaned(r)
    BY <2>1, <2>2 DEF Cleans, MarkOnly, Mark, Cleaned, Finished, IInv, TypeOK, Position
  <2>4. Moves(c, r)
    BY <2>1, <2>2, <2>3 DEF Moves, Cleans, NextTable, IInv, TypeOK
  <2> QED BY <2>2, <2>4, MovesKeepInv
<1> QED BY <1>1, <1>2, <1>3

LEMMA CleanerDiesKeepsInv ==
  ASSUME IInv, TypeOK', NEW c \in Cleaners, CleanerDies(c) PROVE IInv' /\ FinishedStays
<1> USE DEF session, staging, request, cleaner, bounds
<1>1. /\ UNCHANGED <<session, staging, request, overtaken>>
      /\ \A d \in Cleaners \ {c} : todo'[d] = todo[d] /\ cur'[d] = cur[d] /\ step'[d] = step[d]
      /\ step'[c] = "idle" /\ todo'[c] = {}
  BY DEF CleanerDies, IInv, TypeOK
<1>2. SessionInv'
  BY <1>1 DEF Position, IInv, SessionInv
<1>3. ASSUME NEW d \in Cleaners PROVE Selected(d)'
  <2>1. CASE d = c   BY <1>1, <2>1 DEF Selected
  <2>2. CASE d # c   BY <1>1, <1>3, <2>2 DEF Selected, Abandoned, IInv, CleanerInv
  <2> QED BY <2>1, <2>2
<1> QED BY <1>1, <1>2, <1>3 DEF IInv, CleanerInv, FinishedStays

--------------------------------------------------------------------------------
LEMMA InitInv == Init => IInv
<1> SUFFICES ASSUME Init PROVE IInv
  OBVIOUS
<1>1. SessionInv
  BY DEF Init, SessionInv, Position, Working
<1>2. CleanerInv
  BY DEF Init, CleanerInv, Selected
<1> QED BY <1>1, <1>2, InitType DEF IInv

LEMMA StepInv == IInv /\ [Next]_vars => IInv' /\ FinishedStays
<1> SUFFICES ASSUME IInv, [Next]_vars PROVE IInv' /\ FinishedStays
  OBVIOUS
<1>1. TypeOK'
  BY StepType DEF IInv
<1>2. CASE Next
  BY <1>1, <1>2, RequestKeepsInv, ExpireKeepsInv, SelectKeepsInv, CleanerStepKeepsInv,
     CleanerDiesKeepsInv DEF Next, CleanerStep
<1>3. CASE UNCHANGED vars
  <2> USE DEF session, staging, request, cleaner, bounds
  <2>1. SessionInv'
    BY <1>3 DEF vars, IInv, SessionInv, Position
  <2>2. CleanerInv'
    BY <1>3 DEF vars, IInv, CleanerInv, Selected, Abandoned
  <2> QED BY <1>1, <1>3, <2>1, <2>2 DEF IInv, FinishedStays, vars
<1> QED BY <1>2, <1>3

\* The sessions, tables, requests and cleaners always agree in this sense.
THEOREM SessionSafety == Spec => []IInv
BY InitInv, StepInv, PTL DEF Spec

\* A READY session has its table with every row it reports.
THEOREM ReadySafety == Spec => []ReadyMeansStaged
<1>1. IInv => ReadyMeansStaged
  BY DEF IInv, SessionInv, Position, ReadyMeansStaged
<1> QED BY <1>1, SessionSafety, PTL

\* No staging table outlives the session that knows of it.
THEOREM OrphanSafety == Spec => []NoOrphanTable
<1>1. IInv => NoOrphanTable
  BY DEF IInv, SessionInv, Position, NoOrphanTable
<1> QED BY <1>1, SessionSafety, PTL

\* Clean-up is not undone, unless the session expired under its request.
THEOREM CleanupIsFinal == Spec => NoResurrection
<1>1. IInv /\ [Next]_vars =>
        [\A r \in Requests \ overtaken :
           status[r] \in Finished => status'[r] \in Finished \/ r \in overtaken']_vars
  BY StepInv DEF FinishedStays
<1> QED BY <1>1, SessionSafety, PTL DEF Spec, NoResurrection
================================================================================
