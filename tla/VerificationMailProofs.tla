------------------------- MODULE VerificationMailProofs -------------------------
(***************************************************************************)
(* Safety for any requests, accounts, codes, workers, limits and failures:   *)
(* of Registration (a mailed code has its account, no code is tried too often,*)
(* the password of a verified account is settled), of EmailOutbox, and of the *)
(* two together, which implement both.                                       *)
(***************************************************************************)
EXTENDS VerificationMail, TLAPS

USE RegistrationAssumption, EmailAssumption, CodesAreMailed

Known == {"pending", "active", "deleted"}

\* What the position of a call says about its account.
Placed(c) ==
  /\ pc[c] \in {"idle", "create"} => at[c] = None
  /\ pc[c] \notin {"idle", "create"} => at[c] \in Users
  /\ pc[c] \in {"rehash", "reserve", "restore", "activate", "write", "delete"} =>
       status[at[c]] \in Known
  /\ pc[c] \in {"store", "record", "mail", "undo"} => status[at[c]] \in Known \cup {"inserted"}
  /\ pc[c] = "free" => status[at[c]] \in Known \cup {"void"}
  /\ pc[c] = "rehash" => lock = c /\ status[at[c]] = "pending"
  /\ lock = c => pc[c] = "rehash"

\* An account that is not committed yet is the business of one call.
Alone ==
  \A c, d \in Calls :
    at[c] = at[d] /\ at[c] \in Users /\ status[at[c]] = "inserted" => c = d

\* The code of a call was generated for its account.
Generated(c) == pc[c] \in {"record", "mail"} => mine[c] \in Codes /\ codeOf[mine[c]] = at[c]

PlaceInv == (\A c \in Calls : Placed(c)) /\ Alone

\* A code is stored for one account only, and its submissions are counted.
CodeInv ==
  /\ \A c \in Calls : Generated(c)
  /\ code # Absent => /\ code.is \in Codes /\ code.of \in Users /\ codeOf[code.is] = code.of
                      /\ refused[code.is] = code.tries
  /\ \A k \in Codes : codeOf[k] = None => refused[k] = 0
  /\ \A k \in mailed : codeOf[k] \in Users

RegistrationInv == TypeOK /\ PlaceInv /\ CodeInv /\ MailedMeansAccount /\ AttemptsBounded

CallStep(c) ==
  Registering(c) \/ Resending(c) \/ Verifying(c) \/ Deleting(c) \/ Abort(c)

--------------------------------------------------------------------------------
\* The shape of accounts, keys and positions.
Entries == [is : Codes \cup {None}, tries : Nat, of : Users \cup {None}]

LEMMA AbsentType == Absent \in Entries
BY DEF Absent, Entries

LEMMA InitType == Init => TypeOK
<1> SUFFICES ASSUME Init PROVE TypeOK
  OBVIOUS
<1>1. code \in Entries
  BY AbsentType DEF Init
<1> QED
  BY <1>1 DEF Init, TypeOK, Entries

LEMMA CallType ==
  ASSUME TypeOK, NEW c \in Calls, Generated(c), CallStep(c)
  PROVE  TypeOK'
<1> USE DEF TypeOK, Free, Fault, Goes, Starts, Ends, rows, cache, call, history,
            Committed, Pending, Inserted, Absent
<1>1. CASE Renew(c)        BY <1>1 DEF Renew
<1>2. CASE Rehash(c)       BY <1>2 DEF Rehash
<1>3. CASE Register(c)     BY <1>3 DEF Register
<1>4. CASE Create(c)       BY <1>4 DEF Create
<1>5. CASE Conflict(c)     BY <1>5 DEF Conflict
<1>6. CASE Store(c)
  <2>1. Stores(c) =>
          code' \in Entries /\ codeOf' \in [Codes -> Users \cup {None}] /\ mine' \in [Calls -> Codes \cup {None}]
    BY DEF Stores, Entries
  <2>2. UNCHANGED <<code, codeOf, mine>> =>
          code' \in Entries /\ codeOf' \in [Codes -> Users \cup {None}] /\ mine' \in [Calls -> Codes \cup {None}]
    BY DEF Entries
  <2>3. code' \in Entries /\ codeOf' \in [Codes -> Users \cup {None}] /\ mine' \in [Calls -> Codes \cup {None}]
    BY <1>6, <2>1, <2>2 DEF Store
  <2>4. faults' \in Nat
    BY <1>6 DEF Store
  <2> QED
    BY <1>6, <2>3, <2>4 DEF Store, Entries
<1>7. CASE Record(c)
  <2>1. faults' \in Nat /\ sends' \in Nat
    BY <1>7 DEF Record
  <2> QED
    BY <1>7, <2>1 DEF Record
<1>8. CASE Undo(c)         BY <1>8 DEF Undo
<1>9. CASE FreeCooldown(c)
  <2>1. cooldown' \in BOOLEAN
    BY <1>9 DEF FreeCooldown
  <2>2. faults' \in Nat
    <3>1. faults' = faults \/ (faults > 0 /\ faults' = faults - 1)
      BY <1>9 DEF FreeCooldown
    <3> QED
      BY <3>1
  <2> QED
    BY <1>9, <2>1, <2>2 DEF FreeCooldown
<1>10. CASE Mail(c)
  <2>1. mine[c] \in Codes /\ mailed' \in {mailed, mailed \cup {mine[c]}}
    BY <1>10 DEF Mail, Generated
  <2>2. mailed' \subseteq Codes
    BY <2>1
  <2>3. status' \in [Users -> {"unborn", "inserted", "pending", "active", "deleted", "void"}]
    BY <1>10 DEF Mail
  <2> QED
    BY <1>10, <2>2, <2>3 DEF Mail
<1>11. CASE Resend(c)      BY <1>11 DEF Resend
<1>12. CASE Reserve(c)     BY <1>12 DEF Reserve
<1>13. CASE Accept(c)      BY <1>13 DEF Accept
<1>14. CASE Reject(c)      BY <1>14 DEF Reject
<1>15. CASE Activate(c)    BY <1>15 DEF Activate
<1>16. CASE Write(c)       BY <1>16 DEF Write
<1>17. CASE Collect(c)     BY <1>17 DEF Collect
<1>18. CASE Delete(c)      BY <1>18 DEF Delete
<1>19. CASE Abort(c)       BY <1>19 DEF Abort
<1> QED
  BY <1>1, <1>2, <1>3, <1>4, <1>5, <1>6, <1>7, <1>8, <1>9, <1>10, <1>11, <1>12, <1>13,
     <1>14, <1>15, <1>16, <1>17, <1>18, <1>19
     DEF CallStep, Registering, Resending, Verifying, Deleting

LEMMA StepType ==
  ASSUME TypeOK, CodeInv, [Next]_vars
  PROVE  TypeOK'
<1> USE DEF TypeOK, rows, cache, call, history, Pending
<1>1. ASSUME NEW u \in Users, Age(u) PROVE TypeOK'
  BY <1>1 DEF Age
<1>2. CASE SignUp \/ ExpireCode \/ ExpireCooldown \/ Slide
  <2>1. CASE SignUp     BY <2>1 DEF SignUp
  <2>2. CASE ExpireCode BY <2>2, AbsentType DEF ExpireCode, Entries
  <2>3. CASE ExpireCooldown
    BY <2>3 DEF ExpireCooldown
  <2>4. CASE Slide
    <3>1. sends' \in Nat
      BY <2>4 DEF Slide
    <3> QED
      BY <2>4, <3>1 DEF Slide
  <2> QED
    BY <1>2, <2>1, <2>2, <2>3, <2>4
<1>3. CASE UNCHANGED vars
  BY <1>3 DEF vars
<1> QED
  BY <1>1, <1>2, <1>3, CallType DEF Next, CallStep, CodeInv

--------------------------------------------------------------------------------
\* A call moves alone, and the row lock of another stays.
LEMMA CallFrame ==
  ASSUME TypeOK, NEW c \in Calls, CallStep(c), NEW d \in Calls, d # c
  PROVE  /\ pc'[d] = pc[d] /\ at'[d] = at[d] /\ mine'[d] = mine[d]
         /\ lock' = d <=> lock = d
<1> USE DEF TypeOK, Free, Goes, Starts, Ends, rows, call
<1>1. CASE Renew(c) \/ Rehash(c)
  BY <1>1 DEF Renew, Rehash
<1>2. CASE Register(c) \/ Create(c) \/ Conflict(c)
  BY <1>2 DEF Register, Create, Conflict
<1>3. CASE Store(c)
  <2>1. Stores(c) => mine'[d] = mine[d]
    BY DEF Stores
  <2> QED
    BY <1>3, <2>1 DEF Store
<1>4. CASE Record(c) \/ Undo(c) \/ FreeCooldown(c) \/ Mail(c)
  BY <1>4 DEF Record, Undo, FreeCooldown, Mail
<1>5. CASE Resend(c) \/ Reserve(c) \/ Collect(c) \/ Delete(c)
  BY <1>5 DEF Resend, Reserve, Collect, Delete
<1>6. CASE Accept(c) \/ Reject(c) \/ Activate(c) \/ Write(c)
  BY <1>6 DEF Accept, Reject, Activate, Write
<1>7. CASE Abort(c)
  BY <1>7 DEF Abort
<1> QED
  BY <1>1, <1>2, <1>3, <1>4, <1>5, <1>6, <1>7
     DEF CallStep, Registering, Resending, Verifying, Deleting

\* What becomes of an account: a known one stays known, one that is not committed
\* yet is lost only by the call that inserted it, and a locked one stays pending.
StatusFrame(c) ==
  \A u \in Users :
    /\ status[u] \in Known => status'[u] \in Known
    /\ status[u] = "inserted" =>
         status'[u] \in Known \cup {"inserted"} \/ (at[c] = u /\ status'[u] = "void")
    /\ status[u] = "void" => status'[u] = "void"
    /\ status[u] = "pending" /\ lock \notin {None, c} => status'[u] = "pending"
    /\ status'[u] = "inserted" => status[u] \in {"unborn", "inserted"}
    /\ status'[u] = "inserted" /\ status[u] = "unborn" =>
         at'[c] = u /\ pc'[c] = "store"

LEMMA CallStatus ==
  ASSUME TypeOK, NEW c \in Calls, Placed(c), CallStep(c)
  PROVE  StatusFrame(c)
<1> USE DEF TypeOK, StatusFrame, Known, Free, Goes, Starts, Ends, rows
<1>0. ASSUME UNCHANGED status PROVE StatusFrame(c)
  BY <1>0
<1>1. CASE Renew(c) \/ Rehash(c) \/ Register(c) \/ Conflict(c)
  BY <1>0, <1>1 DEF Renew, Rehash, Register, Conflict
<1>2. CASE Create(c)
  BY <1>2 DEF Create
<1>3. CASE Store(c) \/ Record(c) \/ FreeCooldown(c)
  BY <1>0, <1>3 DEF Store, Record, FreeCooldown
<1>4. CASE Undo(c)
  BY <1>4 DEF Undo
<1>5. CASE Mail(c)
  BY <1>5 DEF Mail
<1>6. CASE Resend(c) \/ Reserve(c) \/ Collect(c)
  BY <1>0, <1>6 DEF Resend, Reserve, Collect
<1>7. CASE Accept(c) \/ Reject(c) \/ Activate(c)
  BY <1>0, <1>7 DEF Accept, Reject, Activate
<1>8. CASE Write(c)
  <2>1. status[at[c]] \in Known
    BY <1>8 DEF Write, Placed
  <2> QED
    BY <1>8, <2>1 DEF Write
<1>9. CASE Delete(c)
  <2>1. status[at[c]] \in Known
    BY <1>9 DEF Delete, Placed
  <2> QED
    BY <1>9, <2>1 DEF Delete
<1>10. CASE Abort(c)
  BY <1>10 DEF Abort
<1> QED
  BY <1>1, <1>2, <1>3, <1>4, <1>5, <1>6, <1>7, <1>8, <1>9, <1>10
     DEF CallStep, Registering, Resending, Verifying, Deleting

\* The account of a call has been inserted.
LEMMA PlacedBorn ==
  ASSUME TypeOK, NEW c \in Calls, Placed(c), at[c] \in Users
  PROVE  status[at[c]] \in Known \cup {"inserted", "void"}
BY DEF TypeOK, Placed, Known

\* Another call keeps its place, since an account is inserted by one call only.
LEMMA OthersPlaced ==
  ASSUME TypeOK, PlaceInv, NEW c \in Calls, CallStep(c), StatusFrame(c), NEW d \in Calls, d # c
  PROVE  Placed(d)'
<1>1. /\ pc'[d] = pc[d] /\ at'[d] = at[d] /\ (lock' = d <=> lock = d)
  BY CallFrame
<1>2. Placed(d)
  BY DEF PlaceInv
<1>3. at[d] \in Users /\ status[at[d]] = "inserted" => at[c] # at[d]
  BY DEF PlaceInv, Alone
<1>4. lock = d => lock \notin {None, c}
  OBVIOUS
<1> QED
  BY <1>1, <1>2, <1>3, <1>4 DEF Placed, StatusFrame, Known

\* Each step of a call leads to a place that says the truth about its account.
LEMMA CallPlaced ==
  ASSUME TypeOK, TypeOK', PlaceInv, CodeInv, MailedMeansAccount,
         NEW c \in Calls, CallStep(c), StatusFrame(c)
  PROVE  Placed(c)'
<1> USE DEF TypeOK, Free, Goes, Starts, Ends, rows, call, Known
<1>0. Placed(c)
  BY DEF PlaceInv
<1>e. ASSUME Ends(c), lock' # c PROVE Placed(c)'
  BY <1>e DEF Placed
<1>1. CASE Renew(c)
  <2>1. PICK u \in Pending : Starts(c, "rehash", u)
    BY <1>1 DEF Renew
  <2>2. /\ pc'[c] = "rehash" /\ at'[c] = u /\ u \in Users /\ status'[u] = "pending" /\ lock' = c
    BY <1>1, <2>1 DEF Renew, Pending
  <2> QED
    BY <2>2 DEF Placed
<1>2. CASE Rehash(c)
  <2>1. /\ pc'[c] = "store" /\ at'[c] = at[c] /\ lock' = None /\ status' = status
        /\ at[c] \in Users /\ status[at[c]] = "pending"
    BY <1>0, <1>2 DEF Rehash, Placed
  <2> QED
    BY <2>1 DEF Placed
<1>3. CASE Register(c)
  BY <1>0, <1>3 DEF Register, Placed
<1>4. CASE Create(c)
  <2>1. PICK u \in Users :
          /\ status' = [status EXCEPT ![u] = "inserted"] /\ at' = [at EXCEPT ![c] = u]
          /\ pc' = [pc EXCEPT ![c] = "store"] /\ lock' = lock /\ pc[c] = "create"
    BY <1>4 DEF Create
  <2> QED
    BY <1>0, <2>1 DEF Placed
<1>5. CASE Conflict(c)
  BY <1>0, <1>5, <1>e DEF Conflict, Placed
<1>6. CASE Store(c)
  <2>1. pc[c] \in {"store", "restore"} /\ UNCHANGED <<status, at, lock>>
    BY <1>6 DEF Store
  <2>2. \/ pc' = [pc EXCEPT ![c] = IF pc[c] = "store" THEN "record" ELSE "mail"]
        \/ pc' = [pc EXCEPT ![c] = IF pc[c] = "store" THEN "undo" ELSE "free"]
    BY <1>6 DEF Store
  <2> QED
    BY <1>0, <2>1, <2>2 DEF Placed
<1>7. CASE Record(c)
  <2>1. pc[c] = "record" /\ pc'[c] \in {"mail", "undo"} /\ UNCHANGED <<status, at, lock>>
    BY <1>7 DEF Record
  <2> QED
    BY <1>0, <2>1 DEF Placed
<1>8. CASE Undo(c)
  BY <1>0, <1>8 DEF Undo, Placed
<1>9. CASE FreeCooldown(c)
  BY <1>0, <1>9, <1>e DEF FreeCooldown, Placed
<1>10. CASE Mail(c)
  BY <1>0, <1>10, <1>e DEF Mail, Placed
<1>11. CASE Resend(c)
  <2>1. PICK u \in Pending : Starts(c, "reserve", u)
    BY <1>11 DEF Resend
  <2> QED
    BY <1>0, <1>11, <2>1 DEF Resend, Pending, Placed
<1>12. CASE Reserve(c)
  <2>1. pc[c] = "reserve" /\ pc'[c] \in {"restore", "free"} /\ UNCHANGED <<status, at, lock>>
    BY <1>12 DEF Reserve
  <2> QED
    BY <1>0, <2>1 DEF Placed
<1>13. CASE Accept(c)
  <2>1. code.of \in Users /\ status[code.of] \in Known
    BY <1>13 DEF Accept, Absent, CodeInv, MailedMeansAccount
  <2>2. /\ pc[c] = "idle" /\ pc'[c] = "activate" /\ at'[c] = code.of /\ UNCHANGED <<status, lock>>
    BY <1>13 DEF Accept
  <2> QED
    BY <1>0, <2>1, <2>2 DEF Placed
<1>14. CASE Reject(c)
  BY <1>0, <1>14 DEF Reject, Placed
<1>15. CASE Activate(c)
  BY <1>0, <1>15 DEF Activate, Placed
<1>16. CASE Write(c)
  BY <1>0, <1>16, <1>e DEF Write, Placed
<1>17. CASE Collect(c)
  <2>1. PICK u \in Pending : Starts(c, "delete", u)
    BY <1>17 DEF Collect
  <2> QED
    BY <1>0, <1>17, <2>1 DEF Collect, Pending, Placed
<1>18. CASE Delete(c)
  BY <1>0, <1>18, <1>e DEF Delete, Placed
<1>19. CASE Abort(c)
  BY <1>19, <1>e DEF Abort
<1> QED
  BY <1>1, <1>2, <1>3, <1>4, <1>5, <1>6, <1>7, <1>8, <1>9, <1>10, <1>11, <1>12, <1>13,
     <1>14, <1>15, <1>16, <1>17, <1>18, <1>19
     DEF CallStep, Registering, Resending, Verifying, Deleting

\* A call takes up an account that was read as committed, or the one it inserts.
LEMMA TakesUp ==
  ASSUME TypeOK, CodeInv, MailedMeansAccount, NEW c \in Calls, CallStep(c), at'[c] \in Users
  PROVE  \/ at'[c] = at[c]
         \/ status[at'[c]] \in Known
         \/ status[at'[c]] = "unborn"
<1> USE DEF TypeOK, Goes, Starts, Ends, call, Known
<1>1. CASE Renew(c) \/ Resend(c) \/ Collect(c)
  BY <1>1 DEF Renew, Resend, Collect, Pending
<1>2. CASE Rehash(c) \/ Register(c) \/ Conflict(c) \/ Create(c)
  BY <1>2 DEF Rehash, Register, Conflict, Create
<1>3. CASE Store(c) \/ Record(c) \/ Undo(c) \/ FreeCooldown(c) \/ Mail(c) \/ Reserve(c)
  BY <1>3 DEF Store, Record, Undo, FreeCooldown, Mail, Reserve
<1>4. CASE Accept(c)
  BY <1>4 DEF Accept, Absent, CodeInv, MailedMeansAccount
<1>5. CASE Reject(c) \/ Activate(c) \/ Write(c) \/ Delete(c) \/ Abort(c)
  BY <1>5 DEF Reject, Activate, Write, Delete, Abort
<1> QED
  BY <1>1, <1>2, <1>3, <1>4, <1>5
     DEF CallStep, Registering, Resending, Verifying, Deleting

LEMMA CallAlone ==
  ASSUME TypeOK, TypeOK', PlaceInv, CodeInv, MailedMeansAccount,
         NEW c \in Calls, CallStep(c), StatusFrame(c)
  PROVE  Alone'
<1> SUFFICES ASSUME NEW d \in Calls, NEW e \in Calls, d # e,
                    at'[d] = at'[e], at'[d] \in Users, status'[at'[d]] = "inserted"
             PROVE  FALSE
  BY DEF Alone
<1> DEFINE u == at'[d]
<1>1. status[u] \in {"unborn", "inserted"}
  BY DEF StatusFrame
<1>2. ASSUME NEW f \in Calls, f # c, at'[f] = u PROVE at[f] = u /\ status[u] = "inserted"
  <2>1. at[f] = u
    BY <1>2, CallFrame
  <2> QED
    BY <1>1, <2>1, PlacedBorn DEF PlaceInv, Known
<1>3. status[u] = "inserted"
  BY <1>2
<1>4. at'[c] = u => at[c] = u
  BY <1>3, TakesUp DEF Known
<1>5. at[d] = u /\ at[e] = u
  BY <1>2, <1>4
<1> QED
  BY <1>3, <1>5 DEF PlaceInv, Alone

\* Steps outside the calls: accounts age or come from a provider, keys expire.
LEMMA OtherPlaces ==
  ASSUME TypeOK, PlaceInv,
         SignUp \/ ExpireCode \/ ExpireCooldown \/ Slide \/ UNCHANGED vars
           \/ \E u \in Users : Age(u)
  PROVE  PlaceInv'
<1> USE DEF TypeOK, Known
<1>1. CASE SignUp
  <2>1. PICK u \in Users : status[u] = "unborn" /\ status' = [status EXCEPT ![u] = "active"]
    BY <1>1 DEF SignUp
  <2>2. UNCHANGED <<pc, at, lock>>
    BY <1>1 DEF SignUp, call
  <2>3. ASSUME NEW c \in Calls PROVE Placed(c)' /\ (at[c] \in Users => status'[at[c]] = status[at[c]])
    <3>1. Placed(c) /\ (at[c] \in Users => status[at[c]] # "unborn")
      BY PlacedBorn DEF PlaceInv
    <3> QED
      BY <2>1, <2>2, <3>1 DEF Placed
  <2> QED
    BY <2>2, <2>3 DEF PlaceInv, Alone
<1>2. CASE UNCHANGED <<status, lock, pc, at>>
  BY <1>2 DEF PlaceInv, Placed, Alone
<1> QED
  BY <1>1, <1>2 DEF ExpireCode, ExpireCooldown, Slide, Age, vars, rows, call

LEMMA PlaceStep ==
  ASSUME TypeOK, TypeOK', PlaceInv, CodeInv, MailedMeansAccount, [Next]_vars
  PROVE  PlaceInv'
<1>1. ASSUME NEW c \in Calls, CallStep(c) PROVE PlaceInv'
  <2>1. StatusFrame(c)
    BY <1>1, CallStatus DEF PlaceInv
  <2> QED
    BY <1>1, <2>1, CallPlaced, OthersPlaced, CallAlone DEF PlaceInv
<1> QED
  BY <1>1, OtherPlaces DEF Next, CallStep

--------------------------------------------------------------------------------
\* A code that has been generated keeps its account and is generated no more.
LEMMA CodesSettled ==
  ASSUME TypeOK, NEW k \in Codes, codeOf[k] # None, [Next]_vars
  PROVE  codeOf'[k] = codeOf[k]
<1>1. ASSUME NEW c \in Calls, CallStep(c) PROVE codeOf'[k] = codeOf[k]
  <2> USE DEF history
  <2>1. CASE Store(c)
    BY <2>1 DEF Store, Stores, TypeOK
  <2>2. CASE Renew(c) \/ Rehash(c) \/ Register(c) \/ Create(c) \/ Conflict(c)
    BY <2>2 DEF Renew, Rehash, Register, Create, Conflict
  <2>3. CASE Record(c) \/ Undo(c) \/ FreeCooldown(c) \/ Mail(c) \/ Resend(c) \/ Reserve(c)
    BY <2>3 DEF Record, Undo, FreeCooldown, Mail, Resend, Reserve
  <2>4. CASE Accept(c) \/ Reject(c) \/ Activate(c) \/ Write(c)
    BY <2>4 DEF Accept, Reject, Activate, Write
  <2>5. CASE Collect(c) \/ Delete(c) \/ Abort(c)
    BY <2>5 DEF Collect, Delete, Abort
  <2> QED
    BY <1>1, <2>1, <2>2, <2>3, <2>4, <2>5
       DEF CallStep, Registering, Resending, Verifying, Deleting
<1> QED
  BY <1>1 DEF Next, CallStep, SignUp, ExpireCode, ExpireCooldown, Slide, Age, vars, history

\* Storing a code gives it to the account of the call; every other step leaves the
\* codes of the calls alone.
LEMMA GeneratedStep ==
  ASSUME TypeOK, PlaceInv, CodeInv, [Next]_vars, NEW d \in Calls
  PROVE  Generated(d)'
<1> USE DEF TypeOK, Generated
<1>0. Generated(d) /\ (pc[d] \in {"record", "mail"} => at[d] \in Users)
  BY DEF CodeInv, PlaceInv, Placed
<1>s. ASSUME UNCHANGED <<at[d], mine[d]>>, pc'[d] \in {"record", "mail"} => pc[d] \in {"record", "mail"}
      PROVE  Generated(d)'
  BY <1>0, <1>s, CodesSettled
<1>1. ASSUME NEW c \in Calls, CallStep(c), c # d PROVE Generated(d)'
  BY <1>1, <1>s, CallFrame
<1>2. ASSUME CallStep(d) PROVE Generated(d)'
  <2> USE DEF Goes, Starts, Ends, call
  <2>1. CASE Store(d)
    <3>1. CASE Stores(d)
      <4>1. PICK k \in Codes : /\ codeOf' = [codeOf EXCEPT ![k] = at[d]]
                               /\ mine' = [mine EXCEPT ![d] = k]
        BY <3>1 DEF Stores
      <4>2. at' = at
        BY <2>1 DEF Store
      <4> QED
        BY <4>1, <4>2
    <3>2. CASE ~Stores(d)
      <4>1. pc' = [pc EXCEPT ![d] = IF pc[d] = "store" THEN "undo" ELSE "free"]
        BY <2>1, <3>2 DEF Store
      <4> QED
        BY <4>1
    <3> QED
      BY <3>1, <3>2
  <2>2. CASE Record(d)
    BY <2>2, <1>s DEF Record
  <2>3. CASE Renew(d) \/ Rehash(d) \/ Register(d) \/ Create(d) \/ Conflict(d)
    BY <2>3 DEF Renew, Rehash, Register, Create, Conflict
  <2>4. CASE Undo(d) \/ FreeCooldown(d) \/ Mail(d) \/ Resend(d) \/ Reserve(d)
    BY <2>4 DEF Undo, FreeCooldown, Mail, Resend, Reserve
  <2>5. CASE Accept(d) \/ Activate(d) \/ Write(d) \/ Collect(d) \/ Delete(d) \/ Abort(d)
    BY <2>5 DEF Accept, Activate, Write, Collect, Delete, Abort
  <2>6. CASE Reject(d)
    BY <2>6, <1>s DEF Reject
  <2> QED
    BY <1>2, <2>1, <2>2, <2>3, <2>4, <2>5, <2>6
       DEF CallStep, Registering, Resending, Verifying, Deleting
<1>3. CASE UNCHANGED call
  BY <1>3, <1>s DEF call
<1> QED
  BY <1>1, <1>2, <1>3 DEF Next, CallStep, SignUp, ExpireCode, ExpireCooldown, Slide, Age, vars

\* What Valkey stores under the address, and the submissions of every code.
Stored == code # Absent => /\ code.is \in Codes /\ code.of \in Users
                           /\ codeOf[code.is] = code.of /\ refused[code.is] = code.tries
Untried == \A k \in Codes : codeOf[k] = None => refused[k] = 0

LEMMA StoredStep ==
  ASSUME TypeOK, TypeOK', PlaceInv, CodeInv, AttemptsBounded, [Next]_vars
  PROVE  Stored' /\ Untried' /\ AttemptsBounded'
<1> USE DEF AttemptsBounded
<1>0. Stored /\ Untried
  BY DEF CodeInv, Stored, Untried
<1>s. ASSUME UNCHANGED <<codeOf, refused>>, code' \in {code, Absent}
      PROVE  Stored' /\ Untried' /\ AttemptsBounded'
  BY <1>0, <1>s DEF Stored, Untried
<1>1. ASSUME NEW c \in Calls, Store(c) PROVE Stored' /\ Untried' /\ AttemptsBounded'
  <2>1. CASE Stores(c)
    <3>1. PICK k \in Codes :
            /\ codeOf[k] = None /\ codeOf' = [codeOf EXCEPT ![k] = at[c]]
            /\ code' = [is |-> k, tries |-> 0, of |-> at[c]]
      BY <2>1 DEF Stores
    <3>2. at[c] \in Users /\ refused' = refused /\ refused[k] = 0
      BY <1>0, <1>1, <3>1 DEF Store, PlaceInv, Placed, Untried
    <3>3. code'.is = k /\ code'.tries = 0 /\ code'.of = at[c] /\ codeOf'[k] = at[c]
      BY <3>1 DEF TypeOK
    <3>4. Stored'
      BY <3>2, <3>3 DEF Stored
    <3>5. Untried'
      BY <1>0, <3>1, <3>2 DEF Untried, TypeOK
    <3> QED
      BY <3>2, <3>4, <3>5
  <2>2. CASE ~Stores(c)
    BY <1>1, <1>s, <2>2 DEF Store
  <2> QED
    BY <2>1, <2>2
<1>2. ASSUME NEW c \in Calls, Reject(c) PROVE Stored' /\ Untried' /\ AttemptsBounded'
  <2>1. code # Absent /\ codeOf' = codeOf
    BY <1>2 DEF Reject
  <2>2. CASE Exhausted
    BY <1>2, <1>s, <2>1, <2>2 DEF Reject
  <2>3. CASE ~Exhausted
    <3>1. /\ code' = [code EXCEPT !.tries = @ + 1]
          /\ refused' = [refused EXCEPT ![code.is] = @ + 1]
      BY <1>2, <2>3 DEF Reject
    <3>2. /\ code.is \in Codes /\ code.of \in Users /\ codeOf[code.is] = code.of
          /\ refused[code.is] = code.tries
      BY <1>0, <2>1 DEF Stored
    <3>3. code'.is = code.is /\ code'.of = code.of /\ code'.tries = code.tries + 1
      BY <3>1 DEF TypeOK
    <3>4. /\ refused'[code.is] = refused[code.is] + 1
          /\ \A k \in Codes : k # code.is => refused'[k] = refused[k]
      BY <3>1, <3>2 DEF TypeOK
    <3>5. Stored'
      BY <2>1, <3>2, <3>3, <3>4 DEF Stored
    <3>6. Untried'
      BY <1>0, <2>1, <3>2, <3>4 DEF Untried
    <3>7. refused'[code.is] <= MaxAttempts
      BY <2>3, <3>2, <3>4 DEF Exhausted, TypeOK
    <3>8. AttemptsBounded'
      BY <3>4, <3>7
    <3> QED
      BY <3>5, <3>6, <3>8
  <2> QED
    BY <2>2, <2>3
<1>3. ASSUME NEW c \in Calls, CallStep(c), ~Store(c), ~Reject(c)
      PROVE  UNCHANGED <<codeOf, refused>> /\ code' \in {code, Absent}
  <2> USE DEF history, cache
  <2>1. CASE Renew(c) \/ Rehash(c) \/ Register(c) \/ Create(c) \/ Conflict(c)
    BY <2>1 DEF Renew, Rehash, Register, Create, Conflict
  <2>2. CASE Record(c) \/ Undo(c) \/ FreeCooldown(c) \/ Mail(c) \/ Resend(c) \/ Reserve(c)
    BY <2>2 DEF Record, Undo, FreeCooldown, Mail, Resend, Reserve
  <2>3. CASE Accept(c) \/ Activate(c) \/ Write(c) \/ Collect(c) \/ Delete(c) \/ Abort(c)
    BY <2>3 DEF Accept, Activate, Write, Collect, Delete, Abort
  <2> QED
    BY <1>3, <2>1, <2>2, <2>3 DEF CallStep, Registering, Resending, Verifying, Deleting
<1>4. CASE SignUp \/ ExpireCode \/ ExpireCooldown \/ Slide \/ UNCHANGED vars
             \/ \E u \in Users : Age(u)
  BY <1>4, <1>s DEF SignUp, ExpireCode, ExpireCooldown, Slide, Age, vars, history, cache
<1> QED
  BY <1>1, <1>2, <1>3, <1>4, <1>s DEF Next, CallStep

\* A mail commits with its account, and a known account never becomes unknown.
LEMMA MailedStep ==
  ASSUME TypeOK, TypeOK', PlaceInv, CodeInv, MailedMeansAccount, [Next]_vars
  PROVE  MailedMeansAccount' /\ \A k \in mailed' : codeOf'[k] \in Users
<1> SUFFICES ASSUME NEW k \in mailed'
             PROVE  status'[codeOf'[k]] \in Known /\ codeOf'[k] \in Users
  BY DEF MailedMeansAccount, Known
<1>0. k \in Codes
  BY DEF TypeOK
<1>1. \A u \in Users : status[u] \in Known => status'[u] \in Known
  <2>1. ASSUME NEW c \in Calls, CallStep(c), NEW u \in Users, status[u] \in Known
        PROVE  status'[u] \in Known
    BY <2>1, CallStatus DEF PlaceInv, StatusFrame
  <2>2. ASSUME SignUp, NEW u \in Users, status[u] \in Known PROVE status'[u] \in Known
    BY <2>2 DEF SignUp, TypeOK, Known
  <2> QED
    BY <2>1, <2>2 DEF Next, CallStep, ExpireCode, ExpireCooldown, Slide, Age, vars, rows
<1>2. CASE k \in mailed
  <2>1. codeOf[k] \in Users /\ status[codeOf[k]] \in Known
    BY <1>2 DEF CodeInv, MailedMeansAccount, Known
  <2>2. codeOf'[k] = codeOf[k]
    BY <1>0, <2>1, CodesSettled
  <2> QED
    BY <1>1, <2>1, <2>2
<1>3. ASSUME NEW c \in Calls, Mail(c), k \notin mailed
      PROVE  status'[codeOf'[k]] \in Known /\ codeOf'[k] \in Users
  <2>1. /\ k = mine[c] /\ pc[c] = "mail" /\ status[at[c]] # "deleted" /\ codeOf' = codeOf
        /\ status' = [status EXCEPT ![at[c]] = IF status[at[c]] = "inserted" THEN "pending" ELSE status[at[c]]]
    BY <1>3 DEF Mail, history
  <2>2. codeOf[k] = at[c] /\ at[c] \in Users /\ status[at[c]] \in Known \cup {"inserted"}
    BY <2>1 DEF CodeInv, Generated, PlaceInv, Placed
  <2> QED
    BY <2>1, <2>2 DEF Known, TypeOK
<1>4. ASSUME NEW c \in Calls, CallStep(c), ~Mail(c) PROVE mailed' = mailed
  <2>1. CASE Renew(c) \/ Rehash(c) \/ Register(c) \/ Create(c) \/ Conflict(c) \/ Store(c)
    BY <2>1 DEF Renew, Rehash, Register, Create, Conflict, Store
  <2>2. CASE Record(c) \/ Undo(c) \/ FreeCooldown(c) \/ Resend(c) \/ Reserve(c)
    BY <2>2 DEF Record, Undo, FreeCooldown, Resend, Reserve
  <2>3. CASE Accept(c) \/ Reject(c) \/ Activate(c) \/ Write(c)
    BY <2>3 DEF Accept, Reject, Activate, Write
  <2>4. CASE Collect(c) \/ Delete(c) \/ Abort(c)
    BY <2>4 DEF Collect, Delete, Abort
  <2> QED
    BY <1>4, <2>1, <2>2, <2>3, <2>4
       DEF CallStep, Registering, Resending, Verifying, Deleting
<1> QED
  BY <1>2, <1>3, <1>4
     DEF Next, CallStep, SignUp, ExpireCode, ExpireCooldown, Slide, Age, vars

--------------------------------------------------------------------------------
\* The invariant behind the three properties.
THEOREM RegistrationSafety == Spec => []RegistrationInv
<1>1. Init => RegistrationInv
  <2> SUFFICES ASSUME Init PROVE RegistrationInv
    OBVIOUS
  <2>1. PlaceInv
    BY DEF Init, PlaceInv, Placed, Alone
  <2>2. CodeInv /\ MailedMeansAccount /\ AttemptsBounded
    BY DEF Init, CodeInv, Generated, MailedMeansAccount, AttemptsBounded
  <2> QED
    BY <2>1, <2>2, InitType DEF RegistrationInv
<1>2. RegistrationInv /\ [Next]_vars => RegistrationInv'
  <2> SUFFICES ASSUME RegistrationInv, [Next]_vars PROVE RegistrationInv'
    OBVIOUS
  <2>1. TypeOK /\ PlaceInv /\ CodeInv /\ MailedMeansAccount /\ AttemptsBounded
    BY DEF RegistrationInv
  <2>2. TypeOK'
    BY <2>1, StepType
  <2>3. PlaceInv' /\ \A c \in Calls : Generated(c)'
    BY <2>1, <2>2, PlaceStep, GeneratedStep
  <2>4. Stored' /\ Untried' /\ AttemptsBounded'
    BY <2>1, <2>2, StoredStep
  <2>5. MailedMeansAccount' /\ \A k \in mailed' : codeOf'[k] \in Users
    BY <2>1, <2>2, MailedStep
  <2>6. CodeInv'
    BY <2>3, <2>4, <2>5 DEF CodeInv, Stored, Untried
  <2> QED
    BY <2>2, <2>3, <2>4, <2>5, <2>6 DEF RegistrationInv
<1> QED
  BY <1>1, <1>2, PTL DEF Spec

\* The shape of accounts, keys and calls, for any number of them.
THEOREM TypeCorrect == Spec => []TypeOK
BY RegistrationSafety, PTL DEF RegistrationInv

\* A code in the outbox belongs to an account that was committed, whichever call,
\* statement or process fails between the row, the code and the mail.
THEOREM MailSafety == Spec => []MailedMeansAccount
BY RegistrationSafety, PTL DEF RegistrationInv

\* No code is submitted more often than allowed, however registrations, resends and
\* verifications replace and consume it.
THEOREM AttemptSafety == Spec => []AttemptsBounded
BY RegistrationSafety, PTL DEF RegistrationInv

\* The row lock of a registration keeps the account it takes over pending until its
\* password is written: the password of a verified account is settled.
THEOREM PasswordSafety == Spec => PasswordSettled
<1>1. RegistrationInv /\ [Next]_vars =>
        [\A u \in Users : status[u] = "active" => owner'[u] = owner[u]]_vars
  <2> SUFFICES ASSUME RegistrationInv, Next, NEW u \in Users, status[u] = "active"
               PROVE  owner'[u] = owner[u]
    OBVIOUS
  <2>0. TypeOK /\ PlaceInv
    BY DEF RegistrationInv
  <2>1. ASSUME NEW c \in Calls, Rehash(c) PROVE owner'[u] = owner[u]
    BY <2>0, <2>1 DEF Rehash, PlaceInv, Placed, TypeOK
  <2>2. ASSUME NEW c \in Calls, Create(c) PROVE owner'[u] = owner[u]
    BY <2>0, <2>2 DEF Create, TypeOK
  <2>3. ASSUME NEW c \in Calls, CallStep(c), ~Rehash(c), ~Create(c) PROVE owner' = owner
    <3> USE DEF rows
    <3>1. CASE Renew(c) \/ Register(c) \/ Conflict(c) \/ Store(c)
      BY <3>1 DEF Renew, Register, Conflict, Store
    <3>2. CASE Record(c) \/ Undo(c) \/ FreeCooldown(c) \/ Mail(c) \/ Resend(c) \/ Reserve(c)
      BY <3>2 DEF Record, Undo, FreeCooldown, Mail, Resend, Reserve
    <3>3. CASE Accept(c) \/ Reject(c) \/ Activate(c) \/ Write(c)
      BY <3>3 DEF Accept, Reject, Activate, Write
    <3>4. CASE Collect(c) \/ Delete(c) \/ Abort(c)
      BY <3>4 DEF Collect, Delete, Abort
    <3> QED
      BY <2>3, <3>1, <3>2, <3>3, <3>4
         DEF CallStep, Registering, Resending, Verifying, Deleting
  <2> QED
    BY <2>1, <2>2, <2>3
       DEF Next, CallStep, SignUp, ExpireCode, ExpireCooldown, Slide, Age, rows
<1> QED
  BY <1>1, RegistrationSafety, PTL DEF Spec, PasswordSettled

--------------------------------------------------------------------------------
(***************************************************************************)
(* The delivery workers, whatever is enqueued and deleted.                   *)
(***************************************************************************)

\* A worker keeps its mail, or lets go of it; what the row of a mail in work may become.
Advance(w) ==
  /\ \A v \in Workers : v # w =>
       held'[v] = held[v] /\ seen'[v] = seen[v] /\ stage'[v] = stage[v]
  /\ sent \subseteq sent' /\ sent' \subseteq sent \cup {k \in Mails : mail[k] # "absent"}
  /\ \A k \in Mails :
       /\ attempts'[k] >= attempts[k]
       /\ mail'[k] = "absent" <=> mail[k] = "absent"
       /\ mail'[k] = "gone" <=> mail[k] = "gone"

\* Other workers see what a worker does only as attempts that grow and mails that go out.
LEMMA OthersKeep ==
  ASSUME MailInv, OutboxTypeOK', NEW w \in Workers, Advance(w),
         held'[w] # NoMail => mail'[held'[w]] # "absent" /\ seen'[w] <= attempts'[held'[w]],
         stage'[w] = "sent" => held'[w] \in sent'
  PROVE  TaskInv'
<1> SUFFICES ASSUME NEW v \in Workers
             PROVE  /\ held'[v] # NoMail => /\ mail'[held'[v]] # "absent"
                                          /\ seen'[v] <= attempts'[held'[v]]
                    /\ stage'[v] = "sent" => held'[v] \in sent'
  BY DEF TaskInv
<1>1. CASE v = w
  BY <1>1
<1>2. CASE v # w
  <2>1. held'[v] = held[v] /\ seen'[v] = seen[v] /\ stage'[v] = stage[v] /\ sent \subseteq sent'
    BY <1>2 DEF Advance
  <2>2. stage[v] = "sent" => held[v] \in sent
    BY DEF MailInv, TaskInv
  <2>3. ASSUME held[v] # NoMail
        PROVE  mail'[held[v]] # "absent" /\ seen[v] <= attempts'[held[v]]
    <3>1. held[v] \in Mails /\ seen[v] \in Nat /\ attempts[held[v]] \in Nat
            /\ attempts'[held[v]] \in Nat
      BY <2>3 DEF MailInv, OutboxTypeOK
    <3>2. mail[held[v]] # "absent" /\ seen[v] <= attempts[held[v]]
      BY <2>3 DEF MailInv, TaskInv
    <3>3. mail'[held[v]] # "absent" /\ attempts'[held[v]] >= attempts[held[v]]
      BY <3>1, <3>2 DEF Advance
    <3> QED
      BY <3>1, <3>2, <3>3
  <2> QED
    BY <2>1, <2>2, <2>3
<1> QED
  BY <1>1, <1>2

\* The outcome that a worker writes, whoever wrote before it, agrees with what was sent
\* and with the attempts of the row.
LEMMA Concluding ==
  ASSUME MailInv, NEW w \in Workers, stage[w] \in {"sent", "failing"},
         mail[held[w]] # "gone", WriteOutcome(w), UNCHANGED sent
  PROVE  /\ held[w] \in Mails /\ mail[held[w]] # "absent"
         /\ mail' \in [Mails -> {"absent", "pending", "retry", "processing",
                                 "delivered", "failed", "gone"}]
         /\ attempts' = attempts
         /\ due' \in [Mails -> BOOLEAN] /\ expired' \in [Mails -> BOOLEAN]
         /\ \A k \in Mails : k # held[w] => mail'[k] = mail[k]
         /\ mail'[held[w]] \notin {"absent", "gone"}
         /\ DeliveredMeansSent' /\ FailedMeansExhausted'
<1>1. held[w] \in Mails /\ seen[w] \in Nat
  BY DEF MailInv, OutboxTypeOK
<1>2. held[w] # NoMail
  BY <1>1
<1>3. /\ mail[held[w]] # "absent" /\ seen[w] <= attempts[held[w]]
      /\ stage[w] = "sent" => held[w] \in sent
  BY <1>2 DEF MailInv, TaskInv
<1>4. Outcome(w) \in {"delivered", "failed", "retry"}
  BY DEF Outcome
<1>5. Outcome(w) = "delivered" => stage[w] = "sent"
  BY DEF Outcome
<1>6. Outcome(w) = "failed" => seen[w] >= MAX_ATTEMPTS \/ held[w] \in Unsupported
  BY DEF Outcome, GivesUp
<1>7. mail' = [mail EXCEPT ![held[w]] = Outcome(w)] /\ attempts' = attempts
        /\ expired' = [expired EXCEPT ![held[w]] = FALSE]
  BY DEF WriteOutcome
<1>t. OutboxTypeOK
  BY DEF MailInv
<1>8. mail' \in [Mails -> {"absent", "pending", "retry", "processing",
                           "delivered", "failed", "gone"}]
  BY <1>1, <1>4, <1>7, <1>t DEF OutboxTypeOK
<1>9. due' \in [Mails -> BOOLEAN]
  <2>1. due' \in {due, [due EXCEPT ![held[w]] = FALSE]}
    BY DEF WriteOutcome
  <2> QED
    BY <2>1, <1>t DEF OutboxTypeOK
<1>10. expired' \in [Mails -> BOOLEAN]
  BY <1>7, <1>t DEF OutboxTypeOK
<1>11. \A k \in Mails : k # held[w] => mail'[k] = mail[k]
  BY <1>7, <1>t DEF OutboxTypeOK
<1>12. mail'[held[w]] = Outcome(w)
  BY <1>1, <1>7, <1>t DEF OutboxTypeOK
<1>13. DeliveredMeansSent'
  BY <1>3, <1>5, <1>11, <1>12 DEF MailInv, DeliveredMeansSent
<1>14. FailedMeansExhausted'
  BY <1>1, <1>3, <1>6, <1>7, <1>11, <1>12, <1>t
     DEF MailInv, FailedMeansExhausted, OutboxTypeOK
<1> QED
  BY <1>1, <1>3, <1>4, <1>7, <1>8, <1>9, <1>10, <1>11, <1>12, <1>13, <1>14

\* A lease counts an attempt and concludes nothing.
LEMMA Leasing ==
  ASSUME MailInv, NEW k \in Mails, Lease(k), UNCHANGED sent
  PROVE  /\ mail' \in [Mails -> {"absent", "pending", "retry", "processing",
                                 "delivered", "failed", "gone"}]
         /\ attempts' \in [Mails -> Nat]
         /\ due' \in [Mails -> BOOLEAN] /\ expired' \in [Mails -> BOOLEAN]
         /\ mail[k] \notin {"absent", "gone"} /\ mail'[k] = "processing"
         /\ attempts'[k] = attempts[k] + 1
         /\ \A j \in Mails : j # k =>
              mail'[j] = mail[j] /\ attempts'[j] = attempts[j]
         /\ DeliveredMeansSent' /\ FailedMeansExhausted'
<1>1. /\ mail[k] \notin {"absent", "gone"}
      /\ mail' = [mail EXCEPT ![k] = "processing"] /\ due' = due
      /\ expired' = [expired EXCEPT ![k] = FALSE]
      /\ attempts' = [attempts EXCEPT ![k] = @ + 1]
  BY DEF Lease, Eligible
<1>2. /\ mail \in [Mails -> {"absent", "pending", "retry", "processing",
                             "delivered", "failed", "gone"}]
      /\ attempts \in [Mails -> Nat]
      /\ due \in [Mails -> BOOLEAN] /\ expired \in [Mails -> BOOLEAN]
  BY DEF MailInv, OutboxTypeOK
<1>3. \A j \in Mails : /\ mail'[j] = IF j = k THEN "processing" ELSE mail[j]
                       /\ attempts'[j] >= attempts[j]
  BY <1>1, <1>2
<1>4. DeliveredMeansSent'
  BY <1>3 DEF MailInv, DeliveredMeansSent
<1>5. FailedMeansExhausted'
  <2>1. \A j \in Mails : attempts[j] \in Nat /\ attempts'[j] \in Nat
    BY <1>1, <1>2
  <2> QED
    BY <1>3, <2>1 DEF MailInv, FailedMeansExhausted
<1> QED
  BY <1>1, <1>2, <1>3, <1>4, <1>5

\* A worker whose task ends, or that is done with its mail, holds nothing.
LEMMA Ending ==
  ASSUME MailInv, NEW w \in Workers, NEW run \in BOOLEAN,
         running' \in {running, [running EXCEPT ![w] = run]},
         Enter(w, "idle"),
         held' = [held EXCEPT ![w] = NoMail], seen' = [seen EXCEPT ![w] = 0]
  PROVE  /\ running' \in [Workers -> BOOLEAN]
         /\ stage' \in [Workers -> {"idle", "claimed", "sent", "failing"}]
         /\ held' \in [Workers -> Mails \cup {NoMail}] /\ seen' \in [Workers -> Nat]
         /\ \A v \in Workers : held'[v] = NoMail <=> stage'[v] = "idle"
         /\ \A v \in Workers : v # w =>
              held'[v] = held[v] /\ seen'[v] = seen[v] /\ stage'[v] = stage[v]
         /\ held'[w] = NoMail /\ stage'[w] = "idle"
BY DEF MailInv, OutboxTypeOK, Enter

\* A mail that is in work exists, or did until its account was deleted.
LEMMA Working ==
  ASSUME MailInv, NEW w \in Workers, stage[w] # "idle"
  PROVE  held[w] \in Mails /\ mail[held[w]] # "absent"
BY DEF MailInv, OutboxTypeOK, TaskInv

LEMMA ClaimKeeps ==
  ASSUME MailInv, NEW w \in Workers, Claim(w)
  PROVE  MailInv' /\ Advance(w)
<1>1. PICK k \in Mails : /\ Lease(k) /\ held' = [held EXCEPT ![w] = k]
                         /\ seen' = [seen EXCEPT ![w] = attempts[k] + 1]
  BY DEF Claim
<1>2. /\ stage' = [stage EXCEPT ![w] = "claimed"] /\ running' = running /\ sent' = sent
      /\ stalls' = stalls /\ mailFaults' = mailFaults
  BY DEF Claim, Enter, bounds
<1>t. OutboxTypeOK
  BY DEF MailInv
<1>l. /\ mail' \in [Mails -> {"absent", "pending", "retry", "processing",
                              "delivered", "failed", "gone"}]
      /\ attempts' \in [Mails -> Nat]
      /\ due' \in [Mails -> BOOLEAN] /\ expired' \in [Mails -> BOOLEAN]
      /\ mail[k] \notin {"absent", "gone"} /\ mail'[k] = "processing"
      /\ attempts'[k] = attempts[k] + 1
      /\ \A j \in Mails : j # k =>
           mail'[j] = mail[j] /\ attempts'[j] = attempts[j]
      /\ DeliveredMeansSent' /\ FailedMeansExhausted'
  BY <1>1, <1>2, Leasing
<1>3. OutboxTypeOK'
  <2>1. /\ held' \in [Workers -> Mails \cup {NoMail}] /\ seen' \in [Workers -> Nat]
        /\ stage' \in [Workers -> {"idle", "claimed", "sent", "failing"}]
        /\ \A v \in Workers : held'[v] = NoMail <=> stage'[v] = "idle"
    BY <1>1, <1>2, <1>t DEF OutboxTypeOK
  <2> QED
    BY <1>2, <1>t, <1>l, <2>1 DEF OutboxTypeOK
<1>4. Advance(w)
  <2>1. \A v \in Workers : v # w =>
          held'[v] = held[v] /\ seen'[v] = seen[v] /\ stage'[v] = stage[v]
    BY <1>1, <1>2, <1>t DEF OutboxTypeOK
  <2>2. ASSUME NEW j \in Mails
        PROVE  /\ attempts'[j] >= attempts[j]
               /\ mail'[j] = "absent" <=> mail[j] = "absent"
               /\ mail'[j] = "gone" <=> mail[j] = "gone"
    <3>1. attempts[j] \in Nat
      BY <1>t DEF OutboxTypeOK
    <3> QED
      BY <1>l, <3>1
  <2> QED
    BY <1>2, <2>1, <2>2 DEF Advance
<1>5. held'[w] = k /\ seen'[w] = attempts'[k] /\ stage'[w] = "claimed"
  BY <1>1, <1>2, <1>l, <1>t DEF OutboxTypeOK
<1>6. attempts'[k] \in Nat
  BY <1>l
<1>7. TaskInv'
  BY <1>3, <1>4, <1>5, <1>6, <1>l, OthersKeep
<1> QED
  BY <1>3, <1>4, <1>7, <1>l DEF MailInv

\* Sending a mail, or refusing its kind, leaves the rows alone.
LEMMA SendKeeps ==
  ASSUME MailInv, NEW w \in Workers, Send(w) \/ SendFails(w) \/ Refuse(w)
  PROVE  MailInv' /\ Advance(w)
<1>1. PICK s \in {"sent", "failing"} : stage' = [stage EXCEPT ![w] = s]
        /\ (s = "sent" => sent' = sent \cup {held[w]})
  BY DEF Send, SendFails, Refuse, Sending, Enter
<1>2. /\ stage[w] = "claimed" /\ sent' \in {sent, sent \cup {held[w]}}
      /\ mail' = mail /\ attempts' = attempts /\ due' = due
      /\ expired' = expired /\ running' = running /\ held' = held /\ seen' = seen
      /\ stalls' = stalls /\ mailFaults' = mailFaults
  BY DEF Send, SendFails, Refuse, Sending, row, bounds
<1>3. held[w] \in Mails /\ mail[held[w]] # "absent"
  BY <1>2, Working
<1>t. OutboxTypeOK
  BY DEF MailInv
<1>4. sent \subseteq sent' /\ sent' \subseteq sent \cup {held[w]}
  BY <1>2
<1>5. OutboxTypeOK'
  <2>1. /\ stage' \in [Workers -> {"idle", "claimed", "sent", "failing"}]
        /\ \A v \in Workers : held'[v] = NoMail <=> stage'[v] = "idle"
    BY <1>1, <1>2, <1>t DEF OutboxTypeOK
  <2>2. sent' \subseteq Mails
    BY <1>3, <1>4, <1>t DEF OutboxTypeOK
  <2> QED
    BY <1>2, <1>t, <2>1, <2>2 DEF OutboxTypeOK
<1>6. Advance(w)
  <2>1. \A j \in Mails : attempts[j] \in Nat
    BY <1>t DEF OutboxTypeOK
  <2>2. \A v \in Workers : v # w => stage'[v] = stage[v]
    BY <1>1, <1>t DEF OutboxTypeOK
  <2> QED
    BY <1>2, <1>3, <1>4, <2>1, <2>2 DEF Advance
<1>7. TaskInv'
  <2>1. stage'[w] = "sent" => held'[w] \in sent'
    BY <1>1, <1>2, <1>t DEF OutboxTypeOK
  <2>2. held'[w] # NoMail => mail'[held'[w]] # "absent" /\ seen'[w] <= attempts'[held'[w]]
    BY <1>2 DEF MailInv, TaskInv
  <2> QED
    BY <1>5, <1>6, <2>1, <2>2, OthersKeep
<1>8. DeliveredMeansSent' /\ FailedMeansExhausted'
  BY <1>2, <1>4 DEF MailInv, DeliveredMeansSent, FailedMeansExhausted
<1> QED
  BY <1>5, <1>6, <1>7, <1>8 DEF MailInv

RowShape ==
  /\ mail \in [Mails -> {"absent", "pending", "retry", "processing",
                         "delivered", "failed", "gone"}]
  /\ attempts \in [Mails -> Nat]
  /\ due \in [Mails -> BOOLEAN] /\ expired \in [Mails -> BOOLEAN]

\* What a worker does as it lets go of its mail, by whichever statement.
LEMMA ReleaseKeeps ==
  ASSUME MailInv, NEW w \in Workers, NEW run \in BOOLEAN,
         running' \in {running, [running EXCEPT ![w] = run]},
         Enter(w, "idle"),
         held' = [held EXCEPT ![w] = NoMail], seen' = [seen EXCEPT ![w] = 0],
         RowShape', stalls' \in 0..MaxStalls, mailFaults' \in 0..MaxMailFaults,
         sent \subseteq sent', sent' \subseteq sent \cup {k \in Mails : mail[k] # "absent"},
         \A k \in Mails : /\ attempts'[k] >= attempts[k]
                          /\ mail'[k] = "absent" <=> mail[k] = "absent"
                          /\ mail'[k] = "gone" <=> mail[k] = "gone",
         DeliveredMeansSent', FailedMeansExhausted'
  PROVE  MailInv' /\ Advance(w)
<1>1. /\ running' \in [Workers -> BOOLEAN]
      /\ stage' \in [Workers -> {"idle", "claimed", "sent", "failing"}]
      /\ held' \in [Workers -> Mails \cup {NoMail}] /\ seen' \in [Workers -> Nat]
      /\ \A v \in Workers : held'[v] = NoMail <=> stage'[v] = "idle"
      /\ \A v \in Workers : v # w =>
           held'[v] = held[v] /\ seen'[v] = seen[v] /\ stage'[v] = stage[v]
      /\ held'[w] = NoMail /\ stage'[w] = "idle"
  BY Ending
<1>2. OutboxTypeOK'
  <2>1. sent' \subseteq Mails
    BY DEF MailInv, OutboxTypeOK
  <2> QED
    BY <1>1, <2>1 DEF OutboxTypeOK, RowShape
<1>3. Advance(w)
  BY <1>1 DEF Advance
<1>4. TaskInv'
  BY <1>1, <1>2, <1>3, OthersKeep
<1> QED
  BY <1>2, <1>3, <1>4 DEF MailInv

\* Nothing but the worker changed.
LEMMA RowsStay ==
  ASSUME MailInv, UNCHANGED <<mail, attempts, due, expired>>,
         sent \subseteq sent'
  PROVE  /\ RowShape'
         /\ \A k \in Mails : /\ attempts'[k] >= attempts[k]
                             /\ mail'[k] = "absent" <=> mail[k] = "absent"
                             /\ mail'[k] = "gone" <=> mail[k] = "gone"
         /\ DeliveredMeansSent' /\ FailedMeansExhausted'
BY DEF MailInv, OutboxTypeOK, RowShape, DeliveredMeansSent,
       FailedMeansExhausted

\* The rows after a worker wrote its outcome.
LEMMA RowsConcluded ==
  ASSUME MailInv, NEW w \in Workers, stage[w] \in {"sent", "failing"},
         mail[held[w]] # "gone", WriteOutcome(w), UNCHANGED sent
  PROVE  /\ RowShape'
         /\ \A k \in Mails : /\ attempts'[k] >= attempts[k]
                             /\ mail'[k] = "absent" <=> mail[k] = "absent"
                             /\ mail'[k] = "gone" <=> mail[k] = "gone"
         /\ DeliveredMeansSent' /\ FailedMeansExhausted'
<1>1. /\ held[w] \in Mails /\ mail[held[w]] # "absent"
      /\ mail' \in [Mails -> {"absent", "pending", "retry", "processing",
                              "delivered", "failed", "gone"}]
      /\ attempts' = attempts
      /\ due' \in [Mails -> BOOLEAN] /\ expired' \in [Mails -> BOOLEAN]
      /\ \A k \in Mails : k # held[w] => mail'[k] = mail[k]
      /\ mail'[held[w]] \notin {"absent", "gone"}
      /\ DeliveredMeansSent' /\ FailedMeansExhausted'
  BY Concluding
<1>2. attempts \in [Mails -> Nat]
  BY DEF MailInv, OutboxTypeOK
<1>3. RowShape'
  BY <1>1, <1>2 DEF RowShape
<1>4. ASSUME NEW k \in Mails
      PROVE  /\ attempts'[k] >= attempts[k]
             /\ mail'[k] = "absent" <=> mail[k] = "absent"
             /\ mail'[k] = "gone" <=> mail[k] = "gone"
  BY <1>1, <1>2
<1> QED
  BY <1>1, <1>3, <1>4

\* The rows after a claim whose worker never learned of it.
LEMMA RowsLeased ==
  ASSUME MailInv, NEW k \in Mails, Lease(k), UNCHANGED sent
  PROVE  /\ RowShape'
         /\ \A j \in Mails : /\ attempts'[j] >= attempts[j]
                             /\ mail'[j] = "absent" <=> mail[j] = "absent"
                             /\ mail'[j] = "gone" <=> mail[j] = "gone"
         /\ DeliveredMeansSent' /\ FailedMeansExhausted'
<1>1. attempts \in [Mails -> Nat]
  BY DEF MailInv, OutboxTypeOK
<1>2. /\ mail' \in [Mails -> {"absent", "pending", "retry", "processing",
                              "delivered", "failed", "gone"}]
      /\ attempts' \in [Mails -> Nat]
      /\ due' \in [Mails -> BOOLEAN] /\ expired' \in [Mails -> BOOLEAN]
      /\ mail[k] \notin {"absent", "gone"} /\ mail'[k] = "processing"
      /\ attempts'[k] = attempts[k] + 1
      /\ \A j \in Mails : j # k =>
           mail'[j] = mail[j] /\ attempts'[j] = attempts[j]
      /\ DeliveredMeansSent' /\ FailedMeansExhausted'
  BY Leasing
<1>3. ASSUME NEW j \in Mails
      PROVE  /\ attempts'[j] >= attempts[j]
             /\ mail'[j] = "absent" <=> mail[j] = "absent"
             /\ mail'[j] = "gone" <=> mail[j] = "gone"
  BY <1>1, <1>2
<1> QED
  BY <1>2, <1>3 DEF RowShape

LEMMA Bounds ==
  ASSUME MailInv
  PROVE  /\ stalls \in 0..MaxStalls /\ mailFaults \in 0..MaxMailFaults
         /\ MailFault => stalls' \in 0..MaxStalls /\ mailFaults' \in 0..MaxMailFaults
BY DEF MailInv, OutboxTypeOK, MailFault

\* The worker writes its outcome, or finds that the row is gone, or fails.
LEMMA RecordKeeps ==
  ASSUME MailInv, NEW w \in Workers,
         RecordOutcome(w) \/ RecordNothing(w) \/ RecordFails(w)
  PROVE  MailInv' /\ Advance(w)
<1>1. /\ running' \in {running, [running EXCEPT ![w] = FALSE]}
      /\ Enter(w, "idle") /\ sent' = sent
      /\ held' = [held EXCEPT ![w] = NoMail] /\ seen' = [seen EXCEPT ![w] = 0]
  BY DEF RecordOutcome, RecordNothing, RecordFails, EndTask
<1>2. stalls' \in 0..MaxStalls /\ mailFaults' \in 0..MaxMailFaults
  BY Bounds DEF RecordOutcome, RecordNothing, RecordFails, bounds
<1>3. \/ /\ stage[w] \in {"sent", "failing"} /\ mail[held[w]] # "gone" /\ WriteOutcome(w)
      \/ UNCHANGED <<mail, attempts, due, expired>>
  BY DEF RecordOutcome, RecordNothing, RecordFails, row
<1>4. /\ RowShape'
      /\ \A k \in Mails : /\ attempts'[k] >= attempts[k]
                          /\ mail'[k] = "absent" <=> mail[k] = "absent"
                          /\ mail'[k] = "gone" <=> mail[k] = "gone"
      /\ DeliveredMeansSent' /\ FailedMeansExhausted'
  BY <1>1, <1>3, RowsConcluded, RowsStay
<1> QED
  BY <1>1, <1>2, <1>4, ReleaseKeeps

\* The claim fails, committed or not, or the process stops, its mail out or not.
LEMMA StopKeeps ==
  ASSUME MailInv, NEW w \in Workers, ClaimFails(w) \/ Crash(w)
  PROVE  MailInv' /\ Advance(w)
<1>1. /\ running' = [running EXCEPT ![w] = FALSE] /\ Enter(w, "idle")
      /\ held' = [held EXCEPT ![w] = NoMail] /\ seen' = [seen EXCEPT ![w] = 0]
      /\ MailFault
  BY DEF ClaimFails, Crash, EndTask
<1>2. stalls' \in 0..MaxStalls /\ mailFaults' \in 0..MaxMailFaults
  BY <1>1, Bounds
<1>3. sent \subseteq sent' /\ sent' \subseteq sent \cup {k \in Mails : mail[k] # "absent"}
  <2>1. CASE sent' = sent
    BY <2>1
  <2>2. CASE sent' # sent
    <3>1. stage[w] = "claimed" /\ sent' = sent \cup {held[w]}
      BY <2>2 DEF ClaimFails, Crash, Sending
    <3> QED
      BY <3>1, Working
  <2> QED
    BY <2>1, <2>2
<1>4. \/ \E k \in Mails : Lease(k) /\ sent' = sent
      \/ UNCHANGED <<mail, attempts, due, expired>>
  BY DEF ClaimFails, Crash, row
<1>5. /\ RowShape'
      /\ \A k \in Mails : /\ attempts'[k] >= attempts[k]
                          /\ mail'[k] = "absent" <=> mail[k] = "absent"
                          /\ mail'[k] = "gone" <=> mail[k] = "gone"
      /\ DeliveredMeansSent' /\ FailedMeansExhausted'
  BY <1>3, <1>4, RowsLeased, RowsStay
<1> QED
  BY <1>1, <1>2, <1>3, <1>5, ReleaseKeeps

LEMMA RestartKeeps ==
  ASSUME MailInv, NEW w \in Workers, Restart(w)
  PROVE  MailInv' /\ Advance(w)
<1>1. /\ running' = [running EXCEPT ![w] = TRUE]
      /\ UNCHANGED <<mail, attempts, due, expired, stage, held, seen, sent,
                     stalls, mailFaults>>
  BY DEF Restart, row, bounds
<1>t. OutboxTypeOK
  BY DEF MailInv
<1>2. OutboxTypeOK'
  BY <1>1, <1>t DEF OutboxTypeOK
<1>3. TaskInv' /\ DeliveredMeansSent' /\ FailedMeansExhausted'
  BY <1>1 DEF MailInv, TaskInv, DeliveredMeansSent,
              FailedMeansExhausted
<1>4. \A k \in Mails : attempts[k] \in Nat
  BY <1>t DEF OutboxTypeOK
<1> QED
  BY <1>1, <1>2, <1>3, <1>4 DEF MailInv, Advance

\* Producers, deletions and time touch no worker.
LEMMA OutsideKeeps ==
  ASSUME MailInv, UNCHANGED <<running, stage, held, seen, sent, attempts, mailFaults>>,
         RowShape', stalls' \in 0..MaxStalls,
         \A k \in Mails : /\ mail[k] # "absent" => mail'[k] # "absent"
                          /\ mail'[k] = mail[k] \/ mail'[k] \in {"pending", "gone"}
  PROVE  MailInv'
<1>t. OutboxTypeOK
  BY DEF MailInv
<1>1. OutboxTypeOK'
  BY <1>t DEF OutboxTypeOK, RowShape
<1>2. TaskInv'
  <2> SUFFICES ASSUME NEW w \in Workers
               PROVE  /\ held[w] # NoMail => /\ mail'[held[w]] # "absent"
                                           /\ seen[w] <= attempts[held[w]]
                      /\ stage[w] = "sent" => held[w] \in sent
    BY DEF TaskInv
  <2>1. held[w] # NoMail => held[w] \in Mails
    BY <1>t DEF OutboxTypeOK
  <2>2. /\ held[w] # NoMail => mail[held[w]] # "absent" /\ seen[w] <= attempts[held[w]]
        /\ stage[w] = "sent" => held[w] \in sent
    BY DEF MailInv, TaskInv
  <2> QED
    BY <2>1, <2>2
<1>3. DeliveredMeansSent' /\ FailedMeansExhausted'
  BY DEF MailInv, DeliveredMeansSent, FailedMeansExhausted
<1> QED
  BY <1>1, <1>2, <1>3 DEF MailInv

LEMMA EnqueuePurgeKeep ==
  ASSUME MailInv,
         (\E k \in Mails : Enqueue(k)) \/ (\E S \in SUBSET Mails : Purge(S))
  PROVE  MailInv'
<1>t. OutboxTypeOK
  BY DEF MailInv
<1>s. stalls \in 0..MaxStalls
  BY <1>t DEF OutboxTypeOK
<1>1. ASSUME NEW k \in Mails, Enqueue(k) PROVE MailInv'
  <2>1. /\ mail[k] = "absent" /\ mail' = [mail EXCEPT ![k] = "pending"]
        /\ due' = [due EXCEPT ![k] = TRUE]
        /\ UNCHANGED <<attempts, expired, running, stage, held, seen, sent,
                       stalls, mailFaults>>
    BY <1>1 DEF Enqueue, worker, bounds
  <2>2. RowShape'
    BY <1>t, <2>1 DEF OutboxTypeOK, RowShape
  <2>3. \A j \in Mails : mail'[j] = IF j = k THEN "pending" ELSE mail[j]
    BY <1>t, <2>1 DEF OutboxTypeOK
  <2> QED
    BY <1>s, <2>1, <2>2, <2>3, OutsideKeeps
<1>2. ASSUME NEW S \in SUBSET Mails, Purge(S) PROVE MailInv'
  <2>1. /\ mail' = [k \in Mails |-> IF k \in S /\ mail[k] # "absent" THEN "gone" ELSE mail[k]]
        /\ UNCHANGED <<attempts, due, expired, running, stage, held, seen, sent,
                       stalls, mailFaults>>
    BY <1>2 DEF Purge, worker, bounds
  <2>2. RowShape'
    BY <1>t, <2>1 DEF OutboxTypeOK, RowShape
  <2>3. \A j \in Mails : mail'[j] = IF j \in S /\ mail[j] # "absent" THEN "gone" ELSE mail[j]
    BY <2>1
  <2> QED
    BY <1>s, <2>1, <2>2, <2>3, OutsideKeeps
<1> QED
  BY <1>1, <1>2

\* What the time and the workers do to the rows, as the accounts see it.
Unseen ==
  /\ \A k \in Mails : /\ mail'[k] = "absent" <=> mail[k] = "absent"
                      /\ mail'[k] = "gone" <=> mail[k] = "gone"
  /\ sent \subseteq sent' /\ sent' \subseteq sent \cup {k \in Mails : mail[k] # "absent"}

LEMMA TimeKeeps ==
  ASSUME MailInv, NEW k \in Mails, Wait(k) \/ Lapse(k)
  PROVE  MailInv' /\ Unseen
<1>t. OutboxTypeOK
  BY DEF MailInv
<1>1. /\ UNCHANGED <<mail, attempts, running, stage, held, seen, sent, mailFaults>>
      /\ due' \in {due, [due EXCEPT ![k] = TRUE]}
      /\ expired' \in {expired, [expired EXCEPT ![k] = TRUE]}
  BY DEF Wait, Lapse, worker, bounds
<1>2. stalls' \in 0..MaxStalls
  <2>1. stalls \in 0..MaxStalls
    BY <1>t DEF OutboxTypeOK
  <2>2. stalls' = stalls \/ (stalls > 0 /\ stalls' = stalls - 1)
    BY DEF Wait, Lapse, bounds
  <2> QED
    BY <2>1, <2>2
<1>3. RowShape'
  <2>1. due' \in [Mails -> BOOLEAN] /\ expired' \in [Mails -> BOOLEAN]
    BY <1>1, <1>t DEF OutboxTypeOK
  <2> QED
    BY <1>1, <1>t, <2>1 DEF OutboxTypeOK, RowShape
<1> QED
  BY <1>1, <1>2, <1>3, OutsideKeeps DEF Unseen

LEMMA DeliverKeeps ==
  ASSUME MailInv, Deliver PROVE MailInv' /\ Unseen
<1>1. ASSUME NEW k \in Mails, Wait(k) \/ Lapse(k)
      PROVE  MailInv' /\ Unseen
  BY <1>1, TimeKeeps
<1>2. ASSUME NEW w \in Workers, Claim(w) PROVE MailInv' /\ Advance(w)
  BY <1>2, ClaimKeeps
<1>3. ASSUME NEW w \in Workers, Send(w) \/ SendFails(w) \/ Refuse(w)
      PROVE  MailInv' /\ Advance(w)
  BY <1>3, SendKeeps
<1>4. ASSUME NEW w \in Workers,
             RecordOutcome(w) \/ RecordNothing(w) \/ RecordFails(w)
      PROVE  MailInv' /\ Advance(w)
  BY <1>4, RecordKeeps
<1>5. ASSUME NEW w \in Workers, ClaimFails(w) \/ Crash(w)
      PROVE  MailInv' /\ Advance(w)
  BY <1>5, StopKeeps
<1>6. ASSUME NEW w \in Workers, Restart(w) PROVE MailInv' /\ Advance(w)
  BY <1>6, RestartKeeps
<1>7. ASSUME NEW w \in Workers, Advance(w) PROVE Unseen
  BY <1>7 DEF Advance, Unseen
<1> QED
  BY <1>1, <1>2, <1>3, <1>4, <1>5, <1>6, <1>7 DEF Deliver, Work

LEMMA MailStart == OutboxInit => MailInv
BY DEF OutboxInit, MailInv, OutboxTypeOK, TaskInv,
       DeliveredMeansSent, FailedMeansExhausted

\* The invariant behind both properties of the email outbox.
THEOREM OutboxSafety == OutboxSpec => []MailInv
<1>1. OutboxInit => MailInv
  BY MailStart
<1>2. MailInv /\ [OutboxNext]_outbox => MailInv'
  <2> SUFFICES ASSUME MailInv, [OutboxNext]_outbox PROVE MailInv'
    OBVIOUS
  <2>1. CASE OutboxNext
    BY <2>1, EnqueuePurgeKeep, DeliverKeeps DEF OutboxNext
  <2>2. CASE UNCHANGED outbox
    BY <2>2 DEF outbox, row, worker, bounds, MailInv,
       OutboxTypeOK, TaskInv, DeliveredMeansSent, FailedMeansExhausted
  <2> QED
    BY <2>1, <2>2
<1> QED
  BY <1>1, <1>2, PTL DEF OutboxSpec

\* A mail marked delivered was accepted by the SMTP server, for any number of workers,
\* leases that pass during a send, deletions and failures, although no guard protects
\* the last write of a worker.
THEOREM DeliverySafety == OutboxSpec => []DeliveredMeansSent
BY OutboxSafety, PTL DEF MailInv

\* No mail of a supported kind is given up before MAX_ATTEMPTS claims, whichever worker
\* counts them, for any number of workers and mails, also beside those of a kind that is
\* refused at the first claim.
THEOREM GiveUpSafety == OutboxSpec => []FailedMeansExhausted
BY OutboxSafety, PTL DEF MailInv

--------------------------------------------------------------------------------
(***************************************************************************)
(* Registration and delivery together.                                       *)
(***************************************************************************)

\* What a call does to accounts: only a deletion takes a committed one away, only a
\* verification activates one, and the owner of neither an active nor an unborn one
\* changes.
LEMMA AccountFrame ==
  ASSUME TypeOK, PlaceInv, NEW c \in Calls, CallStep(c), NEW u \in Users
  PROVE  /\ u \in Committed /\ ~Delete(c) => u \in Committed'
         /\ status'[u] = "active" => status[u] = "active" \/ (pc[c] = "write" /\ at[c] = u)
         /\ status'[u] \in {"active", "unborn"} => owner'[u] = owner[u]
         /\ status'[u] = "unborn" => status[u] = "unborn"
<1> USE DEF TypeOK, Committed, Free, rows
<1>1. CASE Renew(c) \/ Register(c) \/ Conflict(c)
  BY <1>1 DEF Renew, Register, Conflict
<1>2. CASE Rehash(c)
  BY <1>2 DEF Rehash, PlaceInv, Placed
<1>3. CASE Create(c)
  BY <1>3 DEF Create
<1>4. CASE Store(c) \/ Record(c) \/ FreeCooldown(c)
  BY <1>4 DEF Store, Record, FreeCooldown
<1>5. CASE Undo(c)
  BY <1>5 DEF Undo
<1>6. CASE Mail(c)
  BY <1>6 DEF Mail
<1>7. CASE Resend(c) \/ Reserve(c) \/ Collect(c)
  BY <1>7 DEF Resend, Reserve, Collect
<1>8. CASE Accept(c) \/ Reject(c) \/ Activate(c)
  BY <1>8 DEF Accept, Reject, Activate
<1>9. CASE Write(c)
  BY <1>9 DEF Write
<1>10. CASE Delete(c)
  <2>1. at[c] \in Users /\ status' = [status EXCEPT ![at[c]] = "deleted"] /\ owner' = owner
    BY <1>10 DEF Delete, PlaceInv, Placed
  <2> QED
    BY <1>10, <2>1
<1>11. CASE Abort(c)
  BY <1>11 DEF Abort
<1> QED
  BY <1>1, <1>2, <1>3, <1>4, <1>5, <1>6, <1>7, <1>8, <1>9, <1>10, <1>11
     DEF CallStep, Registering, Resending, Verifying, Deleting

\* Only an accepted code begins a verification.
LEMMA VerifyFrame ==
  ASSUME TypeOK, NEW c \in Calls, CallStep(c), ~Accept(c), NEW d \in Calls,
         pc'[d] \in {"activate", "write"}
  PROVE  pc[d] \in {"activate", "write"} /\ at'[d] = at[d]
<1>1. CASE d # c
  BY <1>1, CallFrame
<1>2. CASE d = c
  <2> USE <1>2 DEF TypeOK, Goes, Starts, Ends
  <2>1. CASE Renew(c) \/ Rehash(c) \/ Register(c) \/ Create(c) \/ Conflict(c)
    BY <2>1 DEF Renew, Rehash, Register, Create, Conflict
  <2>2. CASE Store(c)
    BY <2>2 DEF Store
  <2>3. CASE Record(c) \/ Undo(c) \/ FreeCooldown(c) \/ Mail(c)
    BY <2>3 DEF Record, Undo, FreeCooldown, Mail
  <2>4. CASE Resend(c) \/ Reserve(c) \/ Collect(c) \/ Delete(c)
    BY <2>4 DEF Resend, Reserve, Collect, Delete
  <2>5. CASE Reject(c) \/ Activate(c) \/ Write(c)
    BY <2>5 DEF Reject, Activate, Write, call
  <2>6. CASE Abort(c)
    BY <2>6 DEF Abort
  <2> QED
    BY <2>1, <2>2, <2>3, <2>4, <2>5, <2>6
       DEF CallStep, Registering, Resending, Verifying, Deleting
<1> QED
  BY <1>1, <1>2

LEMMA MailedGrows == ASSUME [Next]_vars PROVE mailed \subseteq mailed'
<1>1. ASSUME NEW c \in Calls, CallStep(c) PROVE mailed \subseteq mailed'
  <2>1. CASE Renew(c) \/ Rehash(c) \/ Register(c) \/ Create(c) \/ Conflict(c) \/ Store(c)
    BY <2>1 DEF Renew, Rehash, Register, Create, Conflict, Store
  <2>2. CASE Record(c) \/ Undo(c) \/ FreeCooldown(c) \/ Mail(c) \/ Resend(c) \/ Reserve(c)
    BY <2>2 DEF Record, Undo, FreeCooldown, Mail, Resend, Reserve
  <2>3. CASE Accept(c) \/ Reject(c) \/ Activate(c) \/ Write(c)
    BY <2>3 DEF Accept, Reject, Activate, Write
  <2>4. CASE Collect(c) \/ Delete(c) \/ Abort(c)
    BY <2>4 DEF Collect, Delete, Abort
  <2> QED
    BY <1>1, <2>1, <2>2, <2>3, <2>4
       DEF CallStep, Registering, Resending, Verifying, Deleting
<1> QED
  BY <1>1 DEF Next, CallStep, SignUp, ExpireCode, ExpireCooldown, Slide, Age, vars

\* Each step of the system is one of registration, or none of it, ...
LEMMA AccountsProject == SystemNext => [Next]_vars
<1>1. ASSUME NEW c \in Calls, Enqueuing(c) \/ Removing(c) \/ Accepting(c) PROVE Next
  BY <1>1 DEF Enqueuing, Removing, Accepting, Next, Registering, Verifying, Deleting
<1>2. ASSUME Apart PROVE Next
  BY <1>2 DEF Apart, Next, Registering, Resending, Verifying, Deleting
<1> QED
  BY <1>1, <1>2 DEF SystemNext, Delivering

\* ... and one of the outbox, or none of it.
LEMMA MailsProject ==
  ASSUME RegistrationInv, SystemNext PROVE [OutboxNext]_outbox
<1> USE DEF outbox, row, worker, bounds
<1>1. ASSUME NEW c \in Calls, Enqueuing(c) PROVE [OutboxNext]_outbox
  <2>1. CASE status[at[c]] = "deleted"
    BY <1>1, <2>1 DEF Enqueuing
  <2>2. CASE status[at[c]] # "deleted"
    <3>1. pc[c] = "mail" /\ Enqueue(mine[c])
      BY <1>1, <2>2 DEF Enqueuing, Mail
    <3>2. mine[c] \in Codes
      BY <3>1 DEF RegistrationInv, CodeInv, Generated
    <3> QED
      BY <3>1, <3>2 DEF OutboxNext
  <2> QED
    BY <2>1, <2>2
<1>2. ASSUME NEW c \in Calls, Removing(c) PROVE OutboxNext
  <2>1. MailsOf(at[c]) \in SUBSET Codes /\ Purge(MailsOf(at[c]))
    BY <1>2 DEF Removing, MailsOf
  <2> QED
    BY <2>1 DEF OutboxNext
<1>3. ASSUME NEW c \in Calls, Accepting(c) PROVE UNCHANGED outbox
  BY <1>3 DEF Accepting
<1>4. ASSUME Apart PROVE UNCHANGED outbox
  BY <1>4 DEF Apart
<1>5. ASSUME Delivering PROVE OutboxNext
  BY <1>5 DEF Delivering, OutboxNext
<1> QED
  BY <1>1, <1>2, <1>3, <1>4, <1>5 DEF SystemNext

\* The system is registration and the outbox: it implements both.
THEOREM Composition == SystemSpec => Spec /\ OutboxSpec
<1>1. SystemInit => Init /\ OutboxInit
  BY DEF SystemInit
<1>2. [SystemNext]_<<vars, outbox>> => [Next]_vars
  BY AccountsProject
<1>3. RegistrationInv /\ [SystemNext]_<<vars, outbox>> => [OutboxNext]_outbox
  BY MailsProject
<1>4. SystemSpec => Spec
  BY <1>1, <1>2, PTL DEF SystemSpec, Spec
<1> QED
  BY <1>1, <1>3, <1>4, RegistrationSafety, PTL DEF SystemSpec, OutboxSpec

--------------------------------------------------------------------------------
\* The rows of the outbox, seen from the accounts: what each step does to them.
Live(k) == mail[k] \notin {"absent", "gone"}

LEMMA SentStays == ASSUME SystemNext, ~Delivering PROVE sent' = sent
<1> USE DEF outbox, row, worker, bounds
<1>1. ASSUME NEW c \in Calls, Enqueuing(c) \/ Removing(c) \/ Accepting(c) PROVE sent' = sent
  BY <1>1 DEF Enqueuing, Removing, Accepting, Enqueue, Purge
<1> QED
  BY <1>1 DEF SystemNext, Apart

LEMMA MailFrame ==
  ASSUME MailInv, SystemNext, ~Delivering, NEW k \in Codes
  PROVE  \/ mail'[k] = mail[k]
         \/ \E c \in Calls : /\ Enqueuing(c) /\ k = mine[c]
                             /\ status[at[c]] # "deleted" /\ mail'[k] = "pending"
         \/ mail[k] # "absent" /\ mail'[k] = "gone"
<1> USE DEF outbox, row, worker, bounds
<1>t. mail \in [Codes -> {"absent", "pending", "retry", "processing",
                          "delivered", "failed", "gone"}]
  BY DEF MailInv, OutboxTypeOK
<1>1. ASSUME NEW c \in Calls, Enqueuing(c)
      PROVE  \/ mail'[k] = mail[k]
             \/ k = mine[c] /\ status[at[c]] # "deleted" /\ mail'[k] = "pending"
  BY <1>1, <1>t DEF Enqueuing, Enqueue
<1>2. ASSUME NEW c \in Calls, Removing(c)
      PROVE  mail'[k] = mail[k] \/ (mail[k] # "absent" /\ mail'[k] = "gone")
  BY <1>2, <1>t DEF Removing, Purge
<1>3. ASSUME NEW c \in Calls, Accepting(c) PROVE mail' = mail
  BY <1>3 DEF Accepting
<1>4. ASSUME Apart PROVE mail' = mail
  BY <1>4 DEF Apart
<1> QED
  BY <1>1, <1>2, <1>3, <1>4 DEF SystemNext

LEMMA OutboxInvStep ==
  ASSUME RegistrationInv, MailInv, OutboxInv, SystemNext PROVE OutboxInv'
<1>1. mailed \subseteq mailed'
  BY AccountsProject, MailedGrows
<1>2. CASE Delivering
  <2>1. Unseen /\ mailed' = mailed
    BY <1>2, DeliverKeeps DEF Delivering, vars
  <2> QED
    BY <2>1 DEF OutboxInv, Unseen
<1>3. CASE ~Delivering
  <2>1. ASSUME NEW k \in Codes, mail'[k] # "absent" PROVE k \in mailed'
    <3>1. CASE mail[k] # "absent"
      BY <1>1, <3>1 DEF OutboxInv
    <3>2. CASE mail[k] = "absent"
      <4>1. PICK c \in Calls : Enqueuing(c) /\ k = mine[c] /\ status[at[c]] # "deleted"
        BY <1>3, <2>1, <3>2, MailFrame
      <4> QED
        BY <4>1 DEF Enqueuing, Mail
    <3> QED
      BY <3>1, <3>2
  <2> QED
    BY <1>1, <1>3, <2>1, SentStays DEF OutboxInv
<1> QED
  BY <1>2, <1>3

\* The account of a code, and the codes that reached the owner of its address.
LEMMA MailsOfGrow ==
  ASSUME RegistrationInv, [Next]_vars, NEW u \in Users PROVE MailsOf(u) \subseteq MailsOf(u)'
<1>1. ASSUME NEW k \in Codes, codeOf[k] = u PROVE codeOf'[k] = u
  <2>1. codeOf[k] # None /\ TypeOK
    BY <1>1 DEF RegistrationInv
  <2> QED
    BY <1>1, <2>1, CodesSettled
<1> QED
  BY <1>1 DEF MailsOf

\* Steps of the users and of the keys.
Aside == SignUp \/ ExpireCode \/ ExpireCooldown \/ Slide \/ \E u \in Users : Age(u)

\* The steps that no mail sees neither delete an account nor accept a code.
LEMMA ApartSteps ==
  ASSUME TypeOK, Apart
  PROVE  Aside \/ \E c \in Calls : CallStep(c) /\ ~Delete(c) /\ ~Accept(c)
<1> USE DEF TypeOK, Goes, Starts, Ends
<1>1. ASSUME NEW c \in Calls,
             Renew(c) \/ Register(c) \/ Resending(c) \/ Reject(c) \/ Collect(c)
      PROVE  CallStep(c) /\ ~Delete(c) /\ ~Accept(c)
  <2>1. pc[c] \in {"idle", "reserve"} /\ pc'[c] # "activate"
    BY <1>1 DEF Renew, Register, Resending, Resend, Reserve, Reject, Collect, call
  <2> QED
    BY <1>1, <2>1 DEF Delete, Accept, CallStep, Registering, Verifying, Deleting
<1>2. ASSUME NEW c \in Calls,
             \/ Rehash(c) \/ Create(c) \/ Conflict(c) \/ Store(c) \/ Record(c) \/ Undo(c)
             \/ FreeCooldown(c) \/ Activate(c) \/ Write(c)
      PROVE  CallStep(c) /\ ~Delete(c) /\ ~Accept(c)
  <2>1. pc[c] \notin {"idle", "delete"}
    BY <1>2 DEF Rehash, Create, Conflict, Store, Record, Undo, FreeCooldown, Activate, Write
  <2> QED
    BY <1>2, <2>1 DEF Delete, Accept, CallStep, Registering, Verifying
<1>3. ASSUME NEW c \in Calls, Abort(c) PROVE CallStep(c) /\ ~Delete(c) /\ ~Accept(c)
  <2>1. faults' # faults /\ pc[c] # "idle"
    BY <1>3 DEF Abort, Fault
  <2> QED
    BY <1>3, <2>1 DEF Delete, Accept, CallStep
<1> QED
  BY <1>1, <1>2, <1>3 DEF Apart, Aside

LEMMA MailingSteps ==
  ASSUME TypeOK, NEW c \in Calls, Enqueuing(c) \/ Removing(c)
  PROVE  CallStep(c) /\ ~Accept(c) /\ (Enqueuing(c) => ~Delete(c))
BY DEF Enqueuing, Removing, CallStep, Registering, Deleting, Mail, Delete, Accept

\* A mail that is not purged keeps its account.
LEMMA HaveAccountsStep ==
  ASSUME RegistrationInv, MailInv, OutboxInv, MailsHaveAccounts, SystemNext
  PROVE  MailsHaveAccounts'
<1> SUFFICES ASSUME NEW k \in Codes, mail'[k] \notin {"absent", "gone"}
             PROVE  codeOf'[k] \in Committed'
  BY DEF MailsHaveAccounts
<1>i. TypeOK /\ PlaceInv /\ CodeInv /\ [Next]_vars
  BY AccountsProject DEF RegistrationInv
<1>1. ASSUME Live(k) PROVE codeOf[k] \in Users /\ codeOf[k] \in Committed /\ codeOf'[k] = codeOf[k]
  <2>1. codeOf[k] \in Users /\ codeOf[k] \in Committed
    BY <1>1, <1>i DEF Live, OutboxInv, CodeInv, MailsHaveAccounts
  <2> QED
    BY <1>i, <2>1, CodesSettled
<1>2. ASSUME NEW c \in Calls, Enqueuing(c), k = mine[c], status[at[c]] # "deleted"
      PROVE  codeOf'[k] \in Committed'
  <2>1. pc[c] = "mail" /\ codeOf' = codeOf
        /\ status' = [status EXCEPT ![at[c]] = IF status[at[c]] = "inserted" THEN "pending"
                                               ELSE status[at[c]]]
    BY <1>2 DEF Enqueuing, Mail, history
  <2>2. codeOf[k] = at[c] /\ at[c] \in Users /\ status[at[c]] \in Known \cup {"inserted"}
    BY <1>2, <1>i, <2>1 DEF CodeInv, Generated, PlaceInv, Placed
  <2> QED
    BY <1>2, <1>i, <2>1, <2>2 DEF Known, TypeOK, Committed
<1>3. ASSUME Live(k), NEW c \in Calls, CallStep(c), ~Delete(c)
      PROVE  codeOf'[k] \in Committed'
  BY <1>1, <1>3, <1>i, AccountFrame
<1>4. ASSUME Live(k), NEW c \in Calls, Removing(c), mail'[k] = mail[k]
      PROVE  codeOf'[k] \in Committed'
  <2>1. codeOf[k] # at[c]
    BY <1>4 DEF Removing, Purge, MailsOf, Live
  <2>2. status' = [status EXCEPT ![at[c]] = "deleted"]
    BY <1>4 DEF Removing, Delete
  <2> QED
    BY <1>1, <1>4, <1>i, <2>1, <2>2 DEF TypeOK, Committed
<1>5. ASSUME Live(k), Aside
      PROVE  codeOf'[k] \in Committed'
  <2>1. \A u \in Committed : u \in Committed'
    BY <1>5, <1>i DEF Aside, SignUp, ExpireCode, ExpireCooldown, Slide, Age, rows, TypeOK, Committed
  <2> QED
    BY <1>1, <1>5, <2>1
<1>6. CASE Delivering
  <2>1. Unseen /\ status' = status
    BY <1>6, DeliverKeeps DEF Delivering, vars, rows
  <2>2. Live(k)
    BY <2>1 DEF Unseen, Live
  <2> QED
    BY <1>1, <2>1, <2>2 DEF Committed
<1>7. CASE ~Delivering
  <2>1. \/ Live(k) /\ mail'[k] = mail[k]
        \/ \E c \in Calls : Enqueuing(c) /\ k = mine[c] /\ status[at[c]] # "deleted"
    BY <1>7, MailFrame DEF Live
  <2>2. ASSUME NEW c \in Calls, Enqueuing(c) PROVE CallStep(c) /\ ~Delete(c)
    BY <1>i, <2>2, MailingSteps
  <2>3. ASSUME NEW c \in Calls, Accepting(c) PROVE CallStep(c) /\ ~Delete(c)
    BY <2>3 DEF Accepting, CallStep, Verifying, Accept, Delete
  <2>4. ASSUME Apart, Live(k) PROVE codeOf'[k] \in Committed'
    BY <1>3, <1>5, <1>i, <2>4, ApartSteps
  <2> QED
    BY <1>2, <1>3, <1>4, <1>7, <2>1, <2>2, <2>3, <2>4 DEF SystemNext
<1> QED
  BY <1>6, <1>7

\* A verification that began with a code that was sent keeps it, and what was sent to an
\* address is never taken back.
LEMMA VerifyingStep ==
  ASSUME RegistrationInv, MailInv, VerifyingInv, SystemNext
  PROVE  \A d \in Calls :
           pc'[d] \in {"activate", "write"} => sent' \cap MailsOf(at[d])' # {}
<1> SUFFICES ASSUME NEW d \in Calls, pc'[d] \in {"activate", "write"}
             PROVE  sent' \cap MailsOf(at[d])' # {}
  OBVIOUS
<1>i. TypeOK /\ PlaceInv /\ CodeInv /\ [Next]_vars
  BY AccountsProject DEF RegistrationInv
<1>s. sent \subseteq sent'
  BY SentStays, DeliverKeeps DEF Delivering, Unseen
<1>1. ASSUME pc[d] \in {"activate", "write"}, at'[d] = at[d]
      PROVE  sent' \cap MailsOf(at[d])' # {}
  <2>1. at[d] \in Users /\ sent \cap MailsOf(at[d]) # {}
    BY <1>1, <1>i DEF VerifyingInv, PlaceInv, Placed
  <2>2. PICK k \in Codes : k \in sent /\ codeOf[k] = at[d]
    BY <2>1 DEF MailsOf
  <2>3. codeOf'[k] = at[d]
    BY <1>i, <2>1, <2>2, CodesSettled
  <2> QED
    BY <1>1, <1>s, <2>2, <2>3 DEF MailsOf
<1>2. ASSUME NEW c \in Calls, Accepting(c) PROVE sent' \cap MailsOf(at[d])' # {}
  <2>0. Accept(c) /\ code.is \in sent /\ sent' = sent /\ codeOf' = codeOf
    BY <1>2 DEF Accepting, Accept, outbox, row, worker, bounds, history
  <2>1. CASE d = c
    <3>1. code.is \in Codes
      BY <2>0 DEF MailInv, OutboxTypeOK
    <3>2. code # Absent
      BY <3>1 DEF Absent
    <3>3. codeOf[code.is] = code.of /\ at'[d] = code.of
      BY <1>i, <2>0, <2>1, <3>2 DEF CodeInv, Accept, TypeOK
    <3> QED
      BY <2>0, <3>1, <3>3 DEF MailsOf
  <2>2. CASE d # c
    <3>1. pc'[d] = pc[d] /\ at'[d] = at[d]
      BY <1>i, <2>0, <2>2, CallFrame DEF CallStep, Verifying
    <3> QED
      BY <1>1, <3>1
  <2> QED
    BY <2>1, <2>2
<1>3. ASSUME NEW c \in Calls, CallStep(c), ~Accept(c) PROVE sent' \cap MailsOf(at[d])' # {}
  BY <1>1, <1>3, <1>i, VerifyFrame
<1>4. ASSUME Aside \/ Delivering PROVE sent' \cap MailsOf(at[d])' # {}
  <2>1. pc' = pc /\ at' = at
    BY <1>4 DEF Aside, Delivering, SignUp, ExpireCode, ExpireCooldown, Slide, Age, vars, call
  <2> QED
    BY <1>1, <2>1
<1> QED
  BY <1>2, <1>3, <1>4, <1>i, ApartSteps, MailingSteps DEF SystemNext

\* An account becomes active at the end of a verification, and one without a password by
\* the sign-in of a provider.
LEMMA VerifiedStep ==
  ASSUME RegistrationInv, MailInv, VerifyingInv, VerifiedMeansSent, SystemNext
  PROVE  VerifiedMeansSent' /\ \A u \in Users : status'[u] = "unborn" => owner'[u] = None
<1> SUFFICES ASSUME NEW u \in Users
             PROVE  /\ status'[u] = "active" /\ owner'[u] # None => sent' \cap MailsOf(u)' # {}
                    /\ status'[u] = "unborn" => owner'[u] = None
  BY DEF VerifiedMeansSent
<1>i. TypeOK /\ PlaceInv /\ [Next]_vars
  BY AccountsProject DEF RegistrationInv
<1>s. sent \subseteq sent' /\ MailsOf(u) \subseteq MailsOf(u)'
  BY <1>i, SentStays, DeliverKeeps, MailsOfGrow DEF Delivering, Unseen
<1>1. CASE \E c \in Calls : CallStep(c)
  <2>1. PICK c \in Calls : CallStep(c)
    BY <1>1
  <2>2. /\ status'[u] = "active" => status[u] = "active" \/ (pc[c] = "write" /\ at[c] = u)
        /\ status'[u] \in {"active", "unborn"} => owner'[u] = owner[u]
        /\ status'[u] = "unborn" => status[u] = "unborn"
    BY <1>i, <2>1, AccountFrame
  <2>3. status'[u] = "active" /\ owner'[u] # None => sent \cap MailsOf(u) # {}
    BY <2>2 DEF VerifyingInv, VerifiedMeansSent
  <2> QED
    BY <1>s, <2>2, <2>3 DEF VerifyingInv
<1>2. CASE Aside \/ Delivering
  <2>1. owner' = owner /\ (status'[u] = "unborn" => status[u] = "unborn")
        /\ (status'[u] = "active" => status[u] \in {"active", "unborn"})
    BY <1>2, <1>i DEF Aside, Delivering, SignUp, ExpireCode, ExpireCooldown, Slide, Age, vars,
       rows, TypeOK
  <2>2. status'[u] = "active" /\ owner'[u] # None => sent \cap MailsOf(u) # {}
    BY <2>1 DEF VerifyingInv, VerifiedMeansSent
  <2> QED
    BY <1>s, <2>1, <2>2 DEF VerifyingInv
<1>3. (\E c \in Calls : CallStep(c)) \/ Aside \/ Delivering
  BY <1>i, ApartSteps, MailingSteps DEF SystemNext, Accepting, CallStep, Verifying
<1> QED
  BY <1>1, <1>2, <1>3

\* What was sent was mailed, and what was mailed has an account.
LEMMA SystemStep ==
  ASSUME RegistrationInv, RegistrationInv', MailInv, SystemInv,
         [SystemNext]_<<vars, outbox>>
  PROVE  SystemInv'
<1> USE DEF SystemInv
<1>1. CASE SystemNext
  <2>1. OutboxInv'
    BY <1>1, OutboxInvStep
  <2>2. VerifyingInv'
    BY <1>1, VerifyingStep, VerifiedStep DEF VerifyingInv
  <2>3. VerifiedMeansSent' /\ MailsHaveAccounts'
    BY <1>1, VerifiedStep, HaveAccountsStep
  <2>4. SentMeansAccount'
    BY <2>1 DEF RegistrationInv, CodeInv, MailedMeansAccount, OutboxInv, SentMeansAccount
  <2> QED
    BY <2>1, <2>2, <2>3, <2>4
<1>2. CASE UNCHANGED <<vars, outbox>>
  BY <1>2 DEF vars, rows, call, history, outbox, row, worker, bounds, OutboxInv, VerifyingInv,
     VerifiedMeansSent, MailsHaveAccounts, SentMeansAccount, MailsOf, Committed
<1> QED
  BY <1>1, <1>2

\* The invariant of registration and delivery together.
THEOREM SystemSafety == SystemSpec => []SystemInv
<1>1. SystemInit => SystemInv
  BY DEF SystemInit, Init, OutboxInit, SystemInv, OutboxInv, VerifyingInv, VerifiedMeansSent,
     MailsHaveAccounts, SentMeansAccount
<1>2. SystemSpec => []RegistrationInv /\ []MailInv
  BY Composition, RegistrationSafety, OutboxSafety, PTL
<1> QED
  BY <1>1, <1>2, SystemStep, PTL DEF SystemSpec

\* An account with a password is verified only by a mail that carried a code of that very
\* account, for any number of requests, accounts, codes, delivery workers and failures.
THEOREM VerificationSafety == SystemSpec => []VerifiedMeansSent
BY SystemSafety, PTL DEF SystemInv

\* The outbox never holds a mail of an account that is not committed, whatever a deletion
\* meets: a registration, a resend, or a mail in the hands of a worker.
THEOREM ReferenceSafety == SystemSpec => []MailsHaveAccounts
BY SystemSafety, PTL DEF SystemInv

\* No code of a registration that was rolled back reaches the SMTP server.
THEOREM SentSafety == SystemSpec => []SentMeansAccount
BY SystemSafety, PTL DEF SystemInv
================================================================================
