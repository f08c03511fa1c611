---------------------------- MODULE VerificationMail ----------------------------
(***************************************************************************)
(* Registration and EmailOutbox as one system: the codes that register and   *)
(* resend enqueue are the mails the delivery workers send, an account that   *)
(* is deleted takes its mails along (users.id ON DELETE CASCADE), and a code  *)
(* comes back from the owner of the address only after the SMTP server took  *)
(* its mail.                                                                 *)
(***************************************************************************)
EXTENDS Registration, EmailOutbox

\* A mail carries one code.
ASSUME CodesAreMailed == Mails = Codes

MailsOf(u) == {k \in Codes : codeOf[k] = u}

SystemInit == Init /\ OutboxInit

\* The row of the mail commits with its account, or fails on its foreign key.
Enqueuing(c) ==
  /\ Mail(c)
  /\ IF status[at[c]] = "deleted" THEN UNCHANGED outbox ELSE Enqueue(mine[c])

\* The deletion and its cascade are one statement.
Removing(c) == Delete(c) /\ Purge(MailsOf(at[c]))

\* The code is known from the mail that carries it.
Accepting(c) == Accept(c) /\ code.is \in sent /\ UNCHANGED outbox

\* Steps of a request, of the users and of the keys that no mail sees.
Apart ==
  /\ \/ \E c \in Calls :
          \/ Renew(c) \/ Rehash(c) \/ Register(c) \/ Create(c) \/ Conflict(c) \/ Store(c)
          \/ Record(c) \/ Undo(c) \/ FreeCooldown(c) \/ Resending(c) \/ Reject(c)
          \/ Activate(c) \/ Write(c) \/ Collect(c) \/ Abort(c)
     \/ \E u \in Users : Age(u)
     \/ SignUp \/ ExpireCode \/ ExpireCooldown \/ Slide
  /\ UNCHANGED outbox

Delivering == Deliver /\ UNCHANGED vars

SystemNext ==
  \/ \E c \in Calls : Enqueuing(c) \/ Removing(c) \/ Accepting(c)
  \/ Apart \/ Delivering

SystemSpec == SystemInit /\ [][SystemNext]_<<vars, outbox>>

--------------------------------------------------------------------------------
\* An account with a password becomes active only after a mail with a code of that
\* very account was accepted by the SMTP server: codes that are replaced, expire or
\* outlive their account verify no other one.
VerifiedMeansSent ==
  \A u \in Users : status[u] = "active" /\ owner[u] # None => sent \cap MailsOf(u) # {}

\* The outbox holds mails of committed accounts only, also while a deletion meets a
\* registration, a resend or a send in progress.
MailsHaveAccounts ==
  \A k \in Codes : mail[k] \notin {"absent", "gone"} => codeOf[k] \in Committed

\* A code that reached the SMTP server belongs to an account that was committed, not
\* to one that was rolled back while its mail was on the way.
SentMeansAccount ==
  \A k \in sent : codeOf[k] \in Users /\ status[codeOf[k]] \in {"pending", "active", "deleted"}

\* The outbox holds what was mailed, and an account was verified through a mail of its
\* own, however the codes of an address follow each other.
OutboxInv ==
  /\ \A k \in Codes : mail[k] # "absent" => k \in mailed
  /\ sent \subseteq mailed

VerifyingInv ==
  /\ \A c \in Calls : pc[c] \in {"activate", "write"} => sent \cap MailsOf(at[c]) # {}
  /\ \A u \in Users : status[u] = "unborn" => owner[u] = None

SystemInv == OutboxInv /\ VerifyingInv /\ VerifiedMeansSent /\ MailsHaveAccounts /\ SentMeansAccount
================================================================================
