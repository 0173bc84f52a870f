------------------------------- MODULE Accounts -------------------------------
(***************************************************************************)
(* The account store of recserve_app: sign-in, sessions and deletion       *)
(* (db.py), the deletion ledger and its reconciliation (privacy.py), the   *)
(* start-up and the maintenance task of the API process (api.py), with the *)
(* process, the object store and PostgreSQL failing around them.           *)
(*                                                                         *)
(* A transaction holds its row locks and its writes until it commits;      *)
(* other transactions see committed rows only (READ COMMITTED).  A         *)
(* transaction that waits for a row lock is aborted by lock_timeout, one   *)
(* second, or by PostgreSQL's deadlock detector.                           *)
(***************************************************************************)
EXTENDS Naturals, FiniteSets

CONSTANTS Threads,       \* request handler threads
          Maint,         \* the maintenance task, which also runs at start-up
          Subjects,      \* Google accounts
          Emails,        \* addresses, compared case-folded
          Uids,          \* pool of fresh UUIDs
          MaxLedger,     \* 10000, the ledger entries read_all accepts
          MaxRequests,   \* bound of the requests made
          MaxFaults,     \* bound of failures: ledger, database, crashes, restores
          None

Actors == Threads \cup {Maint}
Identities == [subject : Subjects, email : Emails]
Sessions == [uid : Uids, token : Nat]
Rows == [invited : SUBSET Emails, account : [Uids -> Identities \cup {None}],
         sessions : SUBSET Sessions]

ASSUME AccountsAssumption ==
  /\ Maint \notin Threads
  /\ None \notin Actors \cup Subjects \cup Emails \cup Uids \cup Identities
  /\ MaxLedger \in Nat /\ MaxRequests \in Nat /\ MaxFaults \in Nat

\* What a sign-in and a deletion carry, and where they are when they do.
LoginCalls == [subject : Subjects, email : Emails, uid : Uids \cup {None}, token : Nat,
               old : SUBSET Sessions]
DeleteCalls == [uid : Uids, email : Emails \cup {None}]
LoginPoints == {"loginInvite", "loginUser", "loginCreate", "loginRotate", "loginCommit"}
DeletePoints == {"deleteUser", "deleteRecord", "deleteInvite", "deleteCommit"}
MaintPoints == {"read", "replay", "replayInvite", "replayUser", "sweep"}

VARIABLES
  \* committed rows
  invited,       \* enabled invitations
  account,       \* users with identities: uid -> [subject, email], or None
  sessions,      \* set of [uid, token]
  \* the object store, and the database backup
  ledger,        \* uids with a tombstone
  backup,        \* [invited, account, sessions] of the last backup
  \* row locks of the open transactions: holder, or None
  lockInvite, lockUser, lockSubject,
  \* the process
  proc,          \* "down", "starting" or "serving"
  ready,         \* app.state.privacy_ready
  pc, call,      \* of the threads and the maintenance task
  todo,          \* tombstones the running replay has not reached
  doomed,        \* rows the running replay deletes when it commits
  \* history and bounds
  acked,         \* accounts whose deletion was answered with 204
  used,          \* uids drawn so far
  requests, faults

rows == <<invited, account, sessions>>
locks == <<lockInvite, lockUser, lockSubject>>
external == <<ledger, backup>>
local == <<pc, call>>
replay == <<todo, doomed>>
vars == <<rows, external, locks, proc, ready, local, replay, acked, used, requests, faults>>

Live == {u \in Uids : account[u] # None}
Owned(s) == {u \in Live : account[u].subject = s}
NoRows == [invites |-> {}, users |-> {}]

Init ==
  /\ invited = Emails
  /\ account = [u \in Uids |-> None]
  /\ sessions = {}
  /\ ledger = {}
  /\ backup = [invited |-> invited, account |-> account, sessions |-> sessions]
  /\ lockInvite = [e \in Emails |-> None]
  /\ lockUser = [u \in Uids |-> None]
  /\ lockSubject = [s \in Subjects |-> None]
  /\ proc = "down"
  /\ ready = FALSE
  /\ pc = [a \in Actors |-> "idle"]
  /\ call = [a \in Actors |-> None]
  /\ todo = {}
  /\ doomed = NoRows
  /\ acked = {} /\ used = {}
  /\ requests = 0 /\ faults = 0

Fault == /\ faults < MaxFaults
         /\ faults' = faults + 1

\* The end of an actor's transaction, committed or not, gives up its row locks.
Release(lock, a) == [k \in DOMAIN lock |-> IF lock[k] = a THEN None ELSE lock[k]]

Unlock(a) ==
  /\ lockInvite' = Release(lockInvite, a)
  /\ lockUser' = Release(lockUser, a)
  /\ lockSubject' = Release(lockSubject, a)

Finish(t) ==
  /\ Unlock(t)
  /\ pc' = [pc EXCEPT ![t] = "idle"]
  /\ call' = [call EXCEPT ![t] = None]

Goto(a, label) == pc' = [pc EXCEPT ![a] = label]

Free(lock, k) == lock[k] = None
Take(lock, k, a) == [lock EXCEPT ![k] = a]

\* Mutant: the sessions of a deleted user stay.
Remove_NoCascade(users, invites) ==
  /\ account' = [u \in Uids |-> IF u \in users THEN None ELSE account[u]]
  /\ invited' = invited \ invites
  /\ UNCHANGED sessions

\* The rows of uids and invitations removed; deleting a user cascades.
Remove(users, invites) ==
  /\ account' = [u \in Uids |-> IF u \in users THEN None ELSE account[u]]
  /\ sessions' = {s \in sessions : s.uid \notin users}
  /\ invited' = invited \ invites

-----------------------------------------------------------------------------
(* Database.login, after the identity provider's answer *)

Login(t, s, e) ==
  /\ proc = "serving" /\ pc[t] = "idle" /\ requests < MaxRequests
  /\ call' = [call EXCEPT ![t] = [subject |-> s, email |-> e, uid |-> None,
                                     token |-> requests, old |-> {}]]
  /\ Goto(t, "loginInvite")
  /\ requests' = requests + 1
  /\ UNCHANGED <<rows, external, locks, proc, ready, replay, acked, used, faults>>

\* SELECT invitations ... FOR UPDATE; without a row, 403.  Then the identity.
LoginInvite(t) ==
  LET c == call[t]
  IN  /\ pc[t] = "loginInvite"
      /\ Free(lockInvite, c.email)
      /\ IF c.email \notin invited
         THEN Finish(t)
         ELSE /\ lockInvite' = Take(lockInvite, c.email, t)
              /\ IF Owned(c.subject) = {}
                 THEN Goto(t, "loginCreate") /\ UNCHANGED call
                 ELSE /\ Goto(t, "loginUser")
                      /\ \E u \in Owned(c.subject) : call' = [call EXCEPT ![t].uid = u]
              /\ UNCHANGED <<lockUser, lockSubject>>
      /\ UNCHANGED <<rows, external, proc, ready, replay, acked, used, requests, faults>>

\* Mutant: the account's row is not locked.
LoginUser_NoLock(t) ==
  /\ pc[t] = "loginUser"
  /\ call[t].uid \in Live
  /\ Goto(t, "loginRotate")
  /\ UNCHANGED <<rows, external, locks, proc, ready, call, replay, acked, used, requests,
                 faults>>

\* lock_user: gone in the meantime is 401.
LoginUser(t) ==
  LET u == call[t].uid
  IN  /\ pc[t] = "loginUser"
      /\ Free(lockUser, u)
      /\ IF u \notin Live
         THEN Finish(t)
         ELSE /\ lockUser' = Take(lockUser, u, t)
              /\ Goto(t, "loginRotate")
              /\ UNCHANGED <<lockInvite, lockSubject, call>>
      /\ UNCHANGED <<rows, external, proc, ready, replay, acked, used, requests, faults>>

\* INSERT users, identities: the key on the subject makes one of two first
\* sign-ins wait for the other and fail once it has committed.
LoginCreate(t) ==
  LET s == call[t].subject
  IN  /\ pc[t] = "loginCreate"
      /\ Free(lockSubject, s)
      /\ IF Owned(s) # {}
         THEN Finish(t) /\ UNCHANGED used
         ELSE \E u \in Uids \ used :
                /\ used' = used \cup {u}
                /\ call' = [call EXCEPT ![t].uid = u]
                /\ lockSubject' = Take(lockSubject, s, t)
                /\ lockUser' = Take(lockUser, u, t)
                /\ Goto(t, "loginRotate")
                /\ UNCHANGED lockInvite
      /\ UNCHANGED <<rows, external, proc, ready, replay, acked, requests, faults>>

\* DELETE sessions: the rows of the account that are committed by now.
LoginRotate(t) ==
  /\ pc[t] = "loginRotate"
  /\ call' = [call EXCEPT ![t].old = {s \in sessions : s.uid = call[t].uid}]
  /\ Goto(t, "loginCommit")
  /\ UNCHANGED <<rows, external, locks, proc, ready, replay, acked, used, requests, faults>>

LoginCommit(t) ==
  LET c == call[t]
  IN  /\ pc[t] = "loginCommit"
      /\ account' = [account EXCEPT ![c.uid] = [subject |-> c.subject, email |-> c.email]]
      /\ sessions' = (sessions \ c.old) \cup {[uid |-> c.uid, token |-> c.token]}
      /\ Finish(t)
      /\ UNCHANGED <<invited, external, proc, ready, replay, acked, used, requests, faults>>

\* POST /auth/logout
Logout(s) ==
  /\ proc = "serving"
  /\ sessions' = sessions \ {s}
  /\ UNCHANGED <<invited, account, external, locks, proc, ready, local, replay, acked, used,
                 requests, faults>>
-----------------------------------------------------------------------------
(* DELETE /api/v2/me: Database.delete_account with S3DeletionLedger.record *)

Delete(t, u) ==
  /\ proc = "serving" /\ pc[t] = "idle" /\ requests < MaxRequests
  /\ \E s \in sessions : s.uid = u                     \* authenticate
  /\ call' = [call EXCEPT ![t] = [uid |-> u, email |-> None]]
  /\ Goto(t, "deleteUser")
  /\ requests' = requests + 1
  /\ UNCHANGED <<rows, external, locks, proc, ready, replay, acked, used, faults>>

\* lock_user, then the address of the identity.
DeleteUser(t) ==
  LET u == call[t].uid
  IN  /\ pc[t] = "deleteUser"
      /\ Free(lockUser, u)
      /\ IF u \notin Live
         THEN Finish(t)
         ELSE /\ lockUser' = Take(lockUser, u, t)
              /\ call' = [call EXCEPT ![t].email = account[u].email]
              /\ Goto(t, "deleteRecord")
              /\ UNCHANGED <<lockInvite, lockSubject>>
      /\ UNCHANGED <<rows, external, proc, ready, replay, acked, used, requests, faults>>

\* Mutant: a ledger that cannot be reached is ignored.
DeleteRecord_Ignore(t) ==
  /\ pc[t] = "deleteRecord"
  /\ \/ ledger' = ledger \cup {call[t].uid} /\ UNCHANGED faults
     \/ Fault /\ UNCHANGED ledger
  /\ Goto(t, "deleteInvite")
  /\ UNCHANGED <<rows, backup, locks, call, proc, ready, replay, acked, used, requests>>

\* put_object.  A call that fails may still have stored the tombstone.
DeleteRecord(t) ==
  /\ pc[t] = "deleteRecord"
  /\ \/ /\ ledger' = ledger \cup {call[t].uid}
        /\ Goto(t, "deleteInvite")
        /\ UNCHANGED <<locks, call, faults>>
     \/ /\ Fault
        /\ ledger' \in {ledger, ledger \cup {call[t].uid}}
        /\ Finish(t)                                     \* 503
  /\ UNCHANGED <<rows, backup, proc, ready, replay, acked, used, requests>>

\* DELETE invitations: waits for the row if there is one.
DeleteInvite(t) ==
  LET e == call[t].email
  IN  /\ pc[t] = "deleteInvite"
      /\ Free(lockInvite, e)
      /\ lockInvite' = IF e \in invited THEN Take(lockInvite, e, t) ELSE lockInvite
      /\ Goto(t, "deleteCommit")
      /\ UNCHANGED <<rows, external, lockUser, lockSubject, proc, ready, call, replay, acked,
                     used, requests, faults>>

\* The commit, after which the connection may be lost: 204 is an
\* acknowledgement, 503 leaves the caller uncertain.
DeleteCommit(t) ==
  LET c == call[t]
  IN  /\ pc[t] = "deleteCommit"
      /\ Remove({c.uid}, {c.email})
      /\ Finish(t)
      /\ \/ acked' = acked \cup {c.uid} /\ UNCHANGED faults
         \/ Fault /\ UNCHANGED acked
      /\ UNCHANGED <<external, proc, ready, replay, used, requests>>

\* lock_timeout or the deadlock detector: the transaction that waits is aborted.
Waiting(t) ==
  \/ pc[t] = "loginInvite" /\ ~Free(lockInvite, call[t].email)
  \/ pc[t] = "loginUser" /\ ~Free(lockUser, call[t].uid)
  \/ pc[t] = "loginCreate" /\ ~Free(lockSubject, call[t].subject)
  \/ pc[t] = "deleteUser" /\ ~Free(lockUser, call[t].uid)
  \/ pc[t] = "deleteInvite" /\ ~Free(lockInvite, call[t].email)

\* Mutant: a sign-in waits without a limit.
LockTimeout_NotLogin(t) ==
  /\ Waiting(t)
  /\ pc[t] \notin {"loginUser", "deleteInvite"}
  /\ Finish(t)
  /\ UNCHANGED <<rows, external, proc, ready, replay, acked, used, requests, faults>>

LockTimeout(t) ==
  /\ Waiting(t)
  /\ Finish(t)
  /\ UNCHANGED <<rows, external, proc, ready, replay, acked, used, requests, faults>>

\* Any other failure of a statement or of the commit: rollback, 503.
DatabaseError(t) ==
  /\ pc[t] # "idle" /\ pc[t] # "deleteRecord"
  /\ Fault
  /\ Finish(t)
  /\ UNCHANGED <<rows, external, proc, ready, replay, acked, used, requests>>

-----------------------------------------------------------------------------
(* reconcile: at start-up and every minute *)

\* Mutant: requests are served while the first reconciliation is running.
Start_Eager ==
  /\ proc = "down"
  /\ proc' = "serving"
  /\ Goto(Maint, "read")
  /\ UNCHANGED <<rows, external, locks, ready, call, replay, acked, used, requests, faults>>

\* lifespan: nothing is served before a reconciliation has succeeded.
Start ==
  /\ proc = "down"
  /\ proc' = "starting"
  /\ Goto(Maint, "read")
  /\ UNCHANGED <<rows, external, locks, ready, call, replay, acked, used, requests, faults>>

\* Mutant: a failed reconciliation ends the loop.
MaintTimer_Once ==
  /\ proc = "serving" /\ pc[Maint] = "idle" /\ ready
  /\ Goto(Maint, "read")
  /\ UNCHANGED <<rows, external, locks, proc, ready, call, replay, acked, used, requests,
                 faults>>

MaintTimer ==
  /\ proc = "serving" /\ pc[Maint] = "idle"
  /\ Goto(Maint, "read")
  /\ UNCHANGED <<rows, external, locks, proc, ready, call, replay, acked, used, requests,
                 faults>>

\* The task's transaction is rolled back.  At start-up the exception ends the
\* process, later it clears privacy_ready until a reconciliation succeeds.
MaintFails ==
  /\ Finish(Maint)
  /\ todo' = {} /\ doomed' = NoRows
  /\ ready' = FALSE
  /\ proc' = IF proc = "starting" THEN "down" ELSE proc

\* read_all, and the transaction of replay_deletions begins.
MaintRead ==
  /\ pc[Maint] = "read"
  /\ IF Cardinality(ledger) > MaxLedger
     THEN MaintFails
     ELSE /\ todo' = ledger
          /\ Goto(Maint, "replay")
          /\ UNCHANGED <<locks, call, proc, ready, doomed>>
  /\ UNCHANGED <<rows, external, acked, used, requests, faults>>

\* The next tombstone; its account's address is read by the statement that
\* deletes the invitation.
MaintPick ==
  /\ pc[Maint] = "replay"
  /\ \E u \in todo :
       IF u \in Live
       THEN /\ call' = [call EXCEPT ![Maint] = [uid |-> u, email |-> account[u].email]]
            /\ Goto(Maint, "replayInvite")
            /\ UNCHANGED todo
       ELSE todo' = todo \ {u} /\ UNCHANGED local
  /\ UNCHANGED <<rows, external, locks, proc, ready, doomed, acked, used, requests, faults>>

MaintInvite ==
  LET e == call[Maint].email
  IN  /\ pc[Maint] = "replayInvite"
      /\ lockInvite[e] \in {None, Maint}
      /\ lockInvite' = IF e \in invited THEN Take(lockInvite, e, Maint) ELSE lockInvite
      /\ doomed' = [doomed EXCEPT !.invites = @ \cup ({e} \cap invited)]
      /\ Goto(Maint, "replayUser")
      /\ UNCHANGED <<rows, external, lockUser, lockSubject, proc, ready, call, todo, acked,
                     used, requests, faults>>

MaintUser ==
  LET u == call[Maint].uid
  IN  /\ pc[Maint] = "replayUser"
      /\ Free(lockUser, u)
      /\ lockUser' = IF u \in Live THEN Take(lockUser, u, Maint) ELSE lockUser
      /\ doomed' = [doomed EXCEPT !.users = @ \cup ({u} \cap Live)]
      /\ todo' = todo \ {u}
      /\ Goto(Maint, "replay")
      /\ UNCHANGED <<rows, external, lockInvite, lockSubject, proc, ready, call, acked, used,
                     requests, faults>>

MaintCommit ==
  /\ pc[Maint] = "replay" /\ todo = {}
  /\ Remove(doomed.users, doomed.invites)
  /\ Unlock(Maint)
  /\ call' = [call EXCEPT ![Maint] = None]
  /\ doomed' = NoRows
  /\ Goto(Maint, "sweep")
  /\ UNCHANGED <<external, proc, ready, todo, acked, used, requests, faults>>

\* maintenance(): some sessions have expired; then the task is done.
MaintSweep ==
  /\ pc[Maint] = "sweep"
  /\ \E expired \in SUBSET sessions : sessions' = sessions \ expired
  /\ ready' = TRUE
  /\ proc' = "serving"
  /\ Goto(Maint, "idle")
  /\ UNCHANGED <<invited, account, external, locks, call, replay, acked, used, requests,
                 faults>>

MaintWaiting ==
  \/ pc[Maint] = "replayInvite" /\ lockInvite[call[Maint].email] \notin {None, Maint}
  \/ pc[Maint] = "replayUser" /\ ~Free(lockUser, call[Maint].uid)

MaintTimeout ==
  /\ MaintWaiting
  /\ MaintFails
  /\ UNCHANGED <<rows, external, acked, used, requests, faults>>

\* The ledger or the database fails.
MaintError ==
  /\ pc[Maint] # "idle"
  /\ Fault
  /\ MaintFails
  /\ UNCHANGED <<rows, external, acked, used, requests>>

-----------------------------------------------------------------------------
(* The operator and the host *)

\* An open transaction is rolled back when its connection goes.
Crash ==
  /\ proc # "down"
  /\ Fault
  /\ proc' = "down" /\ ready' = FALSE
  /\ pc' = [a \in Actors |-> "idle"]
  /\ call' = [a \in Actors |-> None]
  /\ lockInvite' = [e \in Emails |-> None]
  /\ lockUser' = [u \in Uids |-> None]
  /\ lockSubject' = [s \in Subjects |-> None]
  /\ todo' = {} /\ doomed' = NoRows
  /\ UNCHANGED <<rows, external, acked, used, requests>>

Invite(e) ==
  /\ e \notin invited /\ Free(lockInvite, e)
  /\ requests < MaxRequests
  /\ requests' = requests + 1
  /\ invited' = invited \cup {e}
  /\ UNCHANGED <<account, sessions, external, locks, proc, ready, local, replay, acked, used,
                 faults>>

Backup ==
  /\ backup' = [invited |-> invited, account |-> account, sessions |-> sessions]
  /\ backup' # backup
  /\ UNCHANGED <<rows, ledger, locks, proc, ready, local, replay, acked, used, requests,
                 faults>>

\* The database is restored while the service is stopped; the ledger is not.
Restore ==
  /\ proc = "down"
  /\ Fault
  /\ invited' = backup.invited
  /\ account' = backup.account
  /\ sessions' = backup.sessions
  /\ UNCHANGED <<external, locks, proc, ready, local, replay, acked, used, requests>>

-----------------------------------------------------------------------------
ThreadStep(t) ==
  \/ LoginInvite(t) \/ LoginUser(t) \/ LoginCreate(t) \/ LoginRotate(t) \/ LoginCommit(t)
  \/ DeleteUser(t) \/ DeleteRecord(t) \/ DeleteInvite(t) \/ DeleteCommit(t)

MaintStep ==
  \/ MaintTimer \/ MaintRead \/ MaintPick \/ MaintInvite \/ MaintUser \/ MaintCommit
  \/ MaintSweep

Next ==
  \/ \E t \in Threads :
       \/ \E s \in Subjects, e \in Emails : Login(t, s, e)
       \/ \E u \in Uids : Delete(t, u)
       \/ ThreadStep(t) \/ LockTimeout(t) \/ DatabaseError(t)
  \/ \E s \in sessions : Logout(s)
  \/ Start \/ MaintStep \/ MaintTimeout \/ MaintError
  \/ \E e \in Emails : Invite(e)
  \/ Crash \/ Backup \/ Restore

Spec == Init /\ [][Next]_vars

\* Threads and the task are scheduled, a row lock that is released goes to the
\* transaction waiting for it (hence strong fairness), PostgreSQL ends a wait that
\* lasts, and the container's restart policy starts the process again.
Fairness ==
  /\ \A t \in Threads : SF_vars(ThreadStep(t)) /\ WF_vars(LockTimeout(t))
  /\ WF_vars(MaintStep) /\ WF_vars(MaintTimeout) /\ WF_vars(Start)

FairSpec == Spec /\ Fairness

-----------------------------------------------------------------------------
(* Properties *)

RowsOK ==
  /\ invited \subseteq Emails
  /\ account \in [Uids -> Identities \cup {None}]
  /\ sessions \subseteq Sessions
  /\ \A s \in sessions : account[s.uid] # None
  /\ used \subseteq Uids
  /\ ledger \subseteq used /\ acked \subseteq used
  /\ \A u \in Uids : account[u] # None => u \in used

BackupOK ==
  /\ backup \in Rows
  /\ \A s \in backup.sessions : backup.account[s.uid] # None
  /\ \A u \in Uids : backup.account[u] # None => u \in used

LocksOK ==
  /\ lockInvite \in [Emails -> Actors \cup {None}]
  /\ lockUser \in [Uids -> Actors \cup {None}]
  /\ lockSubject \in [Subjects -> Actors \cup {None}]

ThreadsOK ==
  /\ pc \in [Actors -> {"idle"} \cup LoginPoints \cup DeletePoints \cup MaintPoints]
  /\ call \in [Actors -> LoginCalls \cup DeleteCalls \cup {None}]
  /\ \A t \in Threads :
       /\ pc[t] \notin MaintPoints
       /\ pc[t] \in LoginPoints => call[t] \in LoginCalls
       /\ pc[t] \in {"loginUser", "loginRotate", "loginCommit"} => call[t].uid \in used
       /\ pc[t] \in DeletePoints => call[t] \in DeleteCalls /\ call[t].uid \in used
       /\ pc[t] \in DeletePoints \ {"deleteUser"} => call[t].email \in Emails

MaintOK ==
  /\ pc[Maint] \in MaintPoints \cup {"idle"}
  /\ pc[Maint] \in {"replayInvite", "replayUser"} =>
       call[Maint] \in DeleteCalls /\ call[Maint].email \in Emails
  /\ todo \subseteq ledger
  /\ doomed \in [invites : SUBSET Emails, users : SUBSET Uids]

ProcessOK ==
  /\ proc \in {"down", "starting", "serving"}
  /\ ready \in BOOLEAN
  /\ requests \in 0..MaxRequests /\ faults \in 0..MaxFaults

\* Shapes, the foreign key of the sessions (a session belongs to an account) and
\* what a transaction carries at each of its points.
TypeOK == RowsOK /\ BackupOK /\ LocksOK /\ ThreadsOK /\ MaintOK /\ ProcessOK

\* A deletion that was acknowledged with 204 is final: whatever crashes and
\* whatever older backup is restored, the account has no row while requests are
\* served.
DeletedNotServed == proc = "serving" => acked \cap Live = {}

\* Sign-in rotates sessions: however sign-ins under different addresses
\* interleave, a Google account has one user and a user has one session.
OneSession ==
  /\ \A s \in Subjects : Cardinality(Owned(s)) <= 1
  /\ \A a, b \in sessions : a.uid = b.uid => a = b

\* An account leaves the served database only with its tombstone in the ledger.
RemovedWithTombstone ==
  [][proc # "down" => \A u \in Live : account'[u] = None => u \in ledger']_vars

\* An account with a tombstone is removed, though its deletion failed half-way
\* and whichever lock it loses to sign-ins.
TombstoneEnforced == \A u \in Uids : (u \in ledger) ~> (u \notin Live)

\* Sign-in locks the invitation before the user and deletion the user before the
\* invitation, and yet every request ends.
RequestsEnd == \A t \in Threads : (pc[t] # "idle") ~> (pc[t] = "idle")
=============================================================================
