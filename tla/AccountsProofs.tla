---------------------------- MODULE AccountsProofs ----------------------------
(***************************************************************************)
(* Proofs about Accounts for any number of threads, people and failures:   *)
(* an acknowledged deletion is final, nothing is deleted without a         *)
(* tombstone, and a Google account has one user and one session.           *)
(***************************************************************************)
EXTENDS Accounts, FiniteSetTheorems, TLAPS

-----------------------------------------------------------------------------
(* Types *)

Points == {"idle"} \cup LoginPoints \cup DeletePoints \cup MaintPoints

\* A thread whose transaction ends, for better or worse.
LEMMA FinishType ==
  ASSUME ThreadsOK, LocksOK, MaintOK, NEW t \in Threads, Finish(t),
         used \subseteq used', ledger \subseteq ledger', UNCHANGED replay
  PROVE  ThreadsOK' /\ LocksOK' /\ MaintOK'
<1> USE AccountsAssumption DEF replay
<1>1. /\ pc' = [pc EXCEPT ![t] = "idle"]
      /\ call' = [call EXCEPT ![t] = None]
  BY DEF Finish
<1>2. ThreadsOK'
  BY <1>1 DEF ThreadsOK, Actors, LoginPoints, DeletePoints, MaintPoints
<1>3. LocksOK'
  BY DEF LocksOK, Finish, Unlock, Release, Actors
<1>4. MaintOK'
  BY <1>1 DEF MaintOK, ThreadsOK, Actors
<1> QED BY <1>2, <1>3, <1>4

\* A thread that moves on to a point with what it carries there.
LEMMA MoveType ==
  ASSUME ThreadsOK, MaintOK, NEW t \in Threads, NEW p \in LoginPoints \cup DeletePoints, NEW c,
         pc' = [pc EXCEPT ![t] = p],
         call' = [call EXCEPT ![t] = c],
         p \in LoginPoints => c \in LoginCalls,
         p \in {"loginUser", "loginRotate", "loginCommit"} => c.uid \in used',
         p \in DeletePoints => c \in DeleteCalls /\ c.uid \in used',
         p \in DeletePoints \ {"deleteUser"} => c.email \in Emails,
         used \subseteq used', ledger \subseteq ledger', UNCHANGED replay
  PROVE  ThreadsOK' /\ MaintOK'
<1> USE AccountsAssumption DEF replay
<1>1. c \in LoginCalls \cup DeleteCalls
  OBVIOUS
<1>2. ThreadsOK'
  <2>1. pc' \in [Actors -> Points] /\ call' \in [Actors -> LoginCalls \cup DeleteCalls \cup {None}]
    BY <1>1 DEF ThreadsOK, Points
  <2>2. pc'[t] = p /\ call'[t] = c
    BY DEF ThreadsOK, Actors
  <2>3. \A u \in Threads \ {t} : pc'[u] = pc[u] /\ call'[u] = call[u]
    BY DEF ThreadsOK, Actors
  <2>4. p \notin MaintPoints
    BY DEF LoginPoints, DeletePoints, MaintPoints
  <2> QED BY <2>1, <2>2, <2>3, <2>4 DEF ThreadsOK, Points
<1>3. MaintOK'
  BY DEF MaintOK, ThreadsOK, Actors
<1> QED BY <1>2, <1>3

\* A step of the maintenance task leaves the threads alone.
LEMMA MaintMoveType ==
  ASSUME ThreadsOK, NEW p \in MaintPoints \cup {"idle"}, NEW c \in DeleteCalls \cup {None},
         pc' = [pc EXCEPT ![Maint] = p],
         call' = call \/ call' = [call EXCEPT ![Maint] = c],
         used' = used
  PROVE  ThreadsOK'
<1>1. \A t \in Threads : pc'[t] = pc[t] /\ call'[t] = call[t]
  BY AccountsAssumption DEF ThreadsOK, Actors
<1>2. pc' \in [Actors -> Points] /\ call' \in [Actors -> LoginCalls \cup DeleteCalls \cup {None}]
  BY DEF ThreadsOK, Points
<1> QED BY <1>1, <1>2 DEF ThreadsOK, Points

\* Deleting users takes their sessions along.
LEMMA RemoveType ==
  ASSUME RowsOK, NEW users, NEW invites, Remove(users, invites),
         UNCHANGED <<used, ledger>>, acked' \subseteq used
  PROVE  RowsOK'
  BY AccountsAssumption DEF RowsOK, Remove, Sessions

LEMMA InitType == Init => TypeOK
<1> SUFFICES ASSUME Init PROVE TypeOK
  OBVIOUS
<1> USE AccountsAssumption DEF Init
<1>1. RowsOK /\ BackupOK
  BY DEF RowsOK, BackupOK, Rows
<1>2. LocksOK
  BY DEF LocksOK
<1>4. ProcessOK
  <2>1. requests \in 0..MaxRequests /\ faults \in 0..MaxFaults
    <3>1. requests = 0 /\ faults = 0
      OBVIOUS
    <3> QED BY <3>1
  <2>2. proc \in {"down", "starting", "serving"} /\ ready \in BOOLEAN
    OBVIOUS
  <2> QED BY <2>1, <2>2 DEF ProcessOK
<1>3. ThreadsOK /\ MaintOK
  BY DEF ThreadsOK, MaintOK, Actors, NoRows, LoginPoints, DeletePoints, MaintPoints
<1> QED BY <1>1, <1>2, <1>3, <1>4 DEF TypeOK

\* Sign-in.
LEMMA LoginType ==
  ASSUME TypeOK, NEW t \in Threads,
         \/ \E s \in Subjects, e \in Emails : Login(t, s, e)
         \/ LoginInvite(t) \/ LoginUser(t) \/ LoginCreate(t) \/ LoginRotate(t)
         \/ LoginCommit(t)
  PROVE  TypeOK'
<1> USE AccountsAssumption DEF TypeOK, rows, locks, external, local
<1>0. call = [call EXCEPT ![t] = call[t]]
  BY DEF ThreadsOK, Actors
<1>1. ASSUME NEW s \in Subjects, NEW e \in Emails, Login(t, s, e) PROVE TypeOK'
  <2> DEFINE c == [subject |-> s, email |-> e, uid |-> None, token |-> requests, old |-> {}]
  <2>1. c \in LoginCalls /\ "loginInvite" \in LoginPoints /\ "loginInvite" \notin DeletePoints
    BY DEF LoginCalls, ProcessOK, LoginPoints, DeletePoints
  <2>2. ThreadsOK' /\ MaintOK'
    <3>1. /\ pc' = [pc EXCEPT ![t] = "loginInvite"] /\ call' = [call EXCEPT ![t] = c]
          /\ used' = used /\ ledger' = ledger /\ UNCHANGED replay
      BY <1>1 DEF Login, Goto
    <3> HIDE DEF c
    <3> QED BY <2>1, <3>1, MoveType
  <2>3. RowsOK' /\ BackupOK' /\ LocksOK' /\ ProcessOK'
    BY <1>1 DEF Login, RowsOK, BackupOK, LocksOK, ProcessOK
  <2> QED BY <2>2, <2>3
<1>2. CASE LoginInvite(t)
  <2>1. call[t] \in LoginCalls /\ call[t].email \in Emails
    BY <1>2 DEF LoginInvite, ThreadsOK, LoginPoints, LoginCalls
  <2>2. RowsOK' /\ BackupOK' /\ ProcessOK' /\ used' = used /\ ledger' = ledger /\ UNCHANGED replay
    BY <1>2 DEF LoginInvite, RowsOK, BackupOK, ProcessOK
  <2>3. CASE call[t].email \notin invited
    BY <1>2, <2>2, <2>3, FinishType DEF LoginInvite
  <2>4. CASE call[t].email \in invited /\ Owned(call[t].subject) = {}
    <3>1. /\ pc' = [pc EXCEPT ![t] = "loginCreate"] /\ call' = [call EXCEPT ![t] = call[t]]
          /\ LocksOK'
      BY <1>0, <1>2, <2>1, <2>4 DEF LoginInvite, Goto, LocksOK, Take, Actors
    <3>2. "loginCreate" \in LoginPoints /\ "loginCreate" \notin DeletePoints
      BY DEF LoginPoints, DeletePoints
    <3>3. ThreadsOK' /\ MaintOK'
      BY <2>1, <2>2, <3>1, <3>2, MoveType
    <3> QED BY <2>2, <3>1, <3>3
  <2>5. CASE call[t].email \in invited /\ Owned(call[t].subject) # {}
    <3>1. LocksOK'
      BY <1>2, <2>1, <2>5 DEF LoginInvite, LocksOK, Take, Actors
    <3>2. PICK u \in Owned(call[t].subject) :
            /\ pc' = [pc EXCEPT ![t] = "loginUser"]
            /\ call' = [call EXCEPT ![t] = [call[t] EXCEPT !.uid = u]]
      BY <1>2, <2>5 DEF LoginInvite, Goto
    <3>3. u \in used
      BY DEF Owned, Live, RowsOK
    <3>4. [call[t] EXCEPT !.uid = u] \in LoginCalls /\ [call[t] EXCEPT !.uid = u].uid = u
      BY <2>1, <3>3 DEF LoginCalls, RowsOK
    <3>5. "loginUser" \in LoginPoints /\ "loginUser" \notin DeletePoints
      BY DEF LoginPoints, DeletePoints
    <3>6. ThreadsOK' /\ MaintOK'
      <4> DEFINE c == [call[t] EXCEPT !.uid = u]
      <4>1. c \in LoginCalls /\ c.uid \in used' /\ call' = [call EXCEPT ![t] = c]
        BY <2>2, <3>2, <3>3, <3>4
      <4> HIDE DEF c
      <4> QED BY <2>2, <3>2, <3>5, <4>1, MoveType
    <3> QED BY <2>2, <3>1, <3>6
  <2> QED BY <2>3, <2>4, <2>5
<1>3. CASE LoginUser(t)
  <2>1. call[t] \in LoginCalls /\ call[t].uid \in used /\ call[t].uid \in Uids
    BY <1>3 DEF LoginUser, ThreadsOK, LoginPoints, LoginCalls, RowsOK
  <2>2. RowsOK' /\ BackupOK' /\ ProcessOK' /\ used' = used /\ ledger' = ledger /\ UNCHANGED replay
    BY <1>3 DEF LoginUser, RowsOK, BackupOK, ProcessOK
  <2>3. CASE call[t].uid \notin Live
    BY <1>3, <2>2, <2>3, FinishType DEF LoginUser
  <2>4. CASE call[t].uid \in Live
    <3>1. /\ pc' = [pc EXCEPT ![t] = "loginRotate"] /\ call' = [call EXCEPT ![t] = call[t]]
          /\ LocksOK'
      BY <1>0, <1>3, <2>1, <2>4 DEF LoginUser, Goto, LocksOK, Take, Actors
    <3>2. "loginRotate" \in LoginPoints /\ "loginRotate" \notin DeletePoints
      BY DEF LoginPoints, DeletePoints
    <3>3. ThreadsOK' /\ MaintOK'
      BY <2>1, <2>2, <3>1, <3>2, MoveType
    <3> QED BY <2>2, <3>1, <3>3
  <2> QED BY <2>3, <2>4
<1>4. CASE LoginCreate(t)
  <2>1. call[t] \in LoginCalls /\ call[t].subject \in Subjects
    BY <1>4 DEF LoginCreate, ThreadsOK, LoginPoints, LoginCalls
  <2>2. ProcessOK' /\ ledger' = ledger /\ UNCHANGED replay
    BY <1>4 DEF LoginCreate, ProcessOK
  <2>3. CASE Owned(call[t].subject) # {}
    <3>1. RowsOK' /\ BackupOK' /\ used' = used /\ Finish(t)
      BY <1>4, <2>3 DEF LoginCreate, RowsOK, BackupOK
    <3> QED BY <2>2, <3>1, FinishType
  <2>4. CASE Owned(call[t].subject) = {}
    <3>1. PICK u \in Uids \ used :
            /\ used' = used \cup {u}
            /\ call' = [call EXCEPT ![t] = [call[t] EXCEPT !.uid = u]]
            /\ lockSubject' = Take(lockSubject, call[t].subject, t)
            /\ lockUser' = Take(lockUser, u, t)
            /\ pc' = [pc EXCEPT ![t] = "loginRotate"]
            /\ UNCHANGED lockInvite
      BY <1>4, <2>4 DEF LoginCreate, Goto
    <3>2. RowsOK' /\ BackupOK' /\ LocksOK'
      BY <1>4, <2>1, <3>1 DEF LoginCreate, RowsOK, BackupOK, LocksOK, Take, Actors
    <3>3. [call[t] EXCEPT !.uid = u] \in LoginCalls /\ [call[t] EXCEPT !.uid = u].uid = u
      BY <2>1 DEF LoginCalls
    <3>4. "loginRotate" \in LoginPoints /\ "loginRotate" \notin DeletePoints
      BY DEF LoginPoints, DeletePoints
    <3>5. ThreadsOK' /\ MaintOK'
      <4> DEFINE c == [call[t] EXCEPT !.uid = u]
      <4>1. c \in LoginCalls /\ c.uid \in used' /\ call' = [call EXCEPT ![t] = c]
        BY <3>1, <3>3
      <4> HIDE DEF c
      <4> QED BY <2>2, <3>1, <3>4, <4>1, MoveType
    <3> QED BY <2>2, <3>2, <3>5
  <2> QED BY <2>3, <2>4
<1>5. CASE LoginRotate(t)
  <2> DEFINE old == {s \in sessions : s.uid = call[t].uid}
  <2>1. call[t] \in LoginCalls /\ call[t].uid \in used
    BY <1>5 DEF LoginRotate, ThreadsOK, LoginPoints
  <2>2. /\ [call[t] EXCEPT !.old = old] \in LoginCalls
        /\ [call[t] EXCEPT !.old = old].uid = call[t].uid
    BY <2>1 DEF LoginCalls, RowsOK
  <2>3. /\ pc' = [pc EXCEPT ![t] = "loginCommit"]
        /\ call' = [call EXCEPT ![t] = [call[t] EXCEPT !.old = old]]
        /\ used' = used /\ ledger' = ledger /\ UNCHANGED replay
    BY <1>5 DEF LoginRotate, Goto
  <2>4. "loginCommit" \in LoginPoints /\ "loginCommit" \notin DeletePoints
    BY DEF LoginPoints, DeletePoints
  <2>5. ThreadsOK' /\ MaintOK'
    <3> DEFINE c == [call[t] EXCEPT !.old = old]
    <3>1. c \in LoginCalls /\ c.uid \in used' /\ call' = [call EXCEPT ![t] = c]
      BY <2>1, <2>2, <2>3
    <3> HIDE DEF c
    <3> QED BY <2>3, <2>4, <3>1, MoveType
  <2>6. RowsOK' /\ BackupOK' /\ LocksOK' /\ ProcessOK'
    BY <1>5 DEF LoginRotate, RowsOK, BackupOK, LocksOK, ProcessOK
  <2> QED BY <2>5, <2>6
<1>6. CASE LoginCommit(t)
  <2>1. call[t] \in LoginCalls /\ call[t].uid \in used
    BY <1>6 DEF LoginCommit, ThreadsOK, LoginPoints
  <2>2. /\ call[t].uid \in Uids
        /\ [subject |-> call[t].subject, email |-> call[t].email] \in Identities
        /\ [uid |-> call[t].uid, token |-> call[t].token] \in Sessions
    BY <2>1 DEF LoginCalls, Identities, Sessions, RowsOK
  <2>3. RowsOK'
    <3> DEFINE id == [subject |-> call[t].subject, email |-> call[t].email]
               new == [uid |-> call[t].uid, token |-> call[t].token]
    <3>1. /\ account' = [account EXCEPT ![call[t].uid] = id]
          /\ sessions' = (sessions \ call[t].old) \cup {new}
          /\ UNCHANGED <<invited, used, ledger, acked>>
      BY <1>6 DEF LoginCommit
    <3>2. new.uid = call[t].uid /\ id # None /\ id \in Identities /\ new \in Sessions
      BY <2>2
    <3> HIDE DEF id, new
    <3> QED BY <2>1, <2>2, <3>1, <3>2 DEF RowsOK, Sessions
  <2>4. ThreadsOK' /\ MaintOK' /\ LocksOK'
    BY <1>6, FinishType DEF LoginCommit
  <2>5. BackupOK' /\ ProcessOK'
    BY <1>6 DEF LoginCommit, BackupOK, ProcessOK
  <2> QED BY <2>3, <2>4, <2>5
<1> QED BY <1>1, <1>2, <1>3, <1>4, <1>5, <1>6

\* Deletion.
LEMMA DeleteType ==
  ASSUME TypeOK, NEW t \in Threads,
         \/ \E u \in Uids : Delete(t, u)
         \/ DeleteUser(t) \/ DeleteRecord(t) \/ DeleteInvite(t) \/ DeleteCommit(t)
         \/ LockTimeout(t) \/ DatabaseError(t)
  PROVE  TypeOK'
<1> USE AccountsAssumption DEF TypeOK, rows, locks, external, local
<1>0. call = [call EXCEPT ![t] = call[t]]
  BY DEF ThreadsOK, Actors
<1>1. ASSUME NEW u \in Uids, Delete(t, u) PROVE TypeOK'
  <2> DEFINE c == [uid |-> u, email |-> None]
  <2>1. u \in used
    BY <1>1 DEF Delete, RowsOK, Sessions
  <2>2. c \in DeleteCalls /\ c.uid \in used
    BY <2>1 DEF DeleteCalls
  <2>3. "deleteUser" \in DeletePoints /\ "deleteUser" \notin LoginPoints
    BY DEF LoginPoints, DeletePoints
  <2>4. /\ pc' = [pc EXCEPT ![t] = "deleteUser"] /\ call' = [call EXCEPT ![t] = c]
        /\ used' = used /\ ledger' = ledger /\ UNCHANGED replay
    BY <1>1 DEF Delete, Goto
  <2>5. RowsOK' /\ BackupOK' /\ LocksOK' /\ ProcessOK'
    BY <1>1 DEF Delete, RowsOK, BackupOK, LocksOK, ProcessOK
  <2>6. ThreadsOK' /\ MaintOK'
    <3> HIDE DEF c
    <3> QED BY <2>2, <2>3, <2>4, MoveType
  <2> QED BY <2>5, <2>6
<1>2. CASE DeleteUser(t)
  <2>1. call[t] \in DeleteCalls /\ call[t].uid \in used /\ call[t].uid \in Uids
    BY <1>2 DEF DeleteUser, ThreadsOK, DeletePoints, RowsOK
  <2>2. RowsOK' /\ BackupOK' /\ ProcessOK' /\ used' = used /\ ledger' = ledger /\ UNCHANGED replay
    BY <1>2 DEF DeleteUser, RowsOK, BackupOK, ProcessOK
  <2>3. CASE call[t].uid \notin Live
    BY <1>2, <2>2, <2>3, FinishType DEF DeleteUser
  <2>4. CASE call[t].uid \in Live
    <3> DEFINE c == [call[t] EXCEPT !.email = account[call[t].uid].email]
    <3>1. account[call[t].uid].email \in Emails
      BY <2>1, <2>4 DEF Live, RowsOK, Identities
    <3>2. c \in DeleteCalls /\ c.uid \in used /\ c.email \in Emails
      BY <2>1, <3>1 DEF DeleteCalls
    <3>3. pc' = [pc EXCEPT ![t] = "deleteRecord"] /\ call' = [call EXCEPT ![t] = c]
      BY <1>2, <2>4 DEF DeleteUser, Goto
    <3>4. LocksOK'
      BY <1>2, <2>1, <2>4 DEF DeleteUser, LocksOK, Take, Actors
    <3>5. "deleteRecord" \in DeletePoints /\ "deleteRecord" \notin LoginPoints
      BY DEF LoginPoints, DeletePoints
    <3>6. ThreadsOK' /\ MaintOK'
      <4> HIDE DEF c
      <4> QED BY <2>2, <3>2, <3>3, <3>5, MoveType
    <3> QED BY <2>2, <3>4, <3>6
  <2> QED BY <2>3, <2>4
<1>3. CASE DeleteRecord(t)
  <2>1. call[t] \in DeleteCalls /\ call[t].uid \in used /\ call[t].email \in Emails
    BY <1>3 DEF DeleteRecord, ThreadsOK, DeletePoints
  <2>2. used' = used /\ ledger \subseteq ledger' /\ ledger' \subseteq used /\ UNCHANGED replay
    BY <1>3, <2>1 DEF DeleteRecord, RowsOK
  <2>3. RowsOK' /\ BackupOK'
    BY <1>3, <2>2 DEF DeleteRecord, RowsOK, BackupOK
  <2>4. ProcessOK'
    BY <1>3 DEF DeleteRecord, ProcessOK, Fault
  <2>5. CASE Finish(t)
    BY <2>2, <2>3, <2>4, <2>5, FinishType
  <2>6. CASE Goto(t, "deleteInvite") /\ UNCHANGED <<locks, call>>
    <3>1. pc' = [pc EXCEPT ![t] = "deleteInvite"] /\ call' = [call EXCEPT ![t] = call[t]]
      BY <1>0, <2>6 DEF Goto
    <3>2. LocksOK'
      BY <2>6 DEF LocksOK
    <3>3. "deleteInvite" \in DeletePoints /\ "deleteInvite" \notin LoginPoints
      BY DEF LoginPoints, DeletePoints
    <3>4. ThreadsOK' /\ MaintOK'
      BY <2>1, <2>2, <3>1, <3>3, MoveType
    <3> QED BY <2>3, <2>4, <3>2, <3>4
  <2> QED BY <1>3, <2>5, <2>6 DEF DeleteRecord
<1>4. CASE DeleteInvite(t)
  <2>1. call[t] \in DeleteCalls /\ call[t].uid \in used /\ call[t].email \in Emails
    BY <1>4 DEF DeleteInvite, ThreadsOK, DeletePoints
  <2>2. /\ pc' = [pc EXCEPT ![t] = "deleteCommit"] /\ call' = [call EXCEPT ![t] = call[t]]
        /\ used' = used /\ ledger' = ledger /\ UNCHANGED replay
    BY <1>0, <1>4 DEF DeleteInvite, Goto
  <2>3. LocksOK'
    BY <1>4, <2>1 DEF DeleteInvite, LocksOK, Take, Actors
  <2>4. RowsOK' /\ BackupOK' /\ ProcessOK'
    BY <1>4 DEF DeleteInvite, RowsOK, BackupOK, ProcessOK
  <2>5. "deleteCommit" \in DeletePoints /\ "deleteCommit" \notin LoginPoints
    BY DEF LoginPoints, DeletePoints
  <2>6. ThreadsOK' /\ MaintOK'
    BY <2>1, <2>2, <2>5, MoveType
  <2> QED BY <2>3, <2>4, <2>6
<1>5. CASE DeleteCommit(t)
  <2>1. call[t].uid \in used
    BY <1>5 DEF DeleteCommit, ThreadsOK, DeletePoints
  <2>2. RowsOK'
    BY <1>5, <2>1, RemoveType DEF DeleteCommit, RowsOK
  <2>3. ThreadsOK' /\ LocksOK' /\ MaintOK'
    BY <1>5, FinishType DEF DeleteCommit
  <2>4. BackupOK' /\ ProcessOK'
    BY <1>5 DEF DeleteCommit, BackupOK, ProcessOK, Fault
  <2> QED BY <2>2, <2>3, <2>4
<1>6. CASE LockTimeout(t) \/ DatabaseError(t)
  <2>1. RowsOK' /\ BackupOK' /\ ProcessOK'
    BY <1>6 DEF LockTimeout, DatabaseError, RowsOK, BackupOK, ProcessOK, Fault
  <2>2. ThreadsOK' /\ LocksOK' /\ MaintOK'
    BY <1>6, FinishType DEF LockTimeout, DatabaseError
  <2> QED BY <2>1, <2>2
<1> QED BY <1>1, <1>2, <1>3, <1>4, <1>5, <1>6

\* Reconciliation.
LEMMA MaintType ==
  ASSUME TypeOK, Start \/ MaintStep \/ MaintTimeout \/ MaintError
  PROVE  TypeOK'
<1> USE AccountsAssumption DEF TypeOK, rows, locks, external, local, replay
<1>0. "idle" \in MaintPoints \cup {"idle"} /\ None \in DeleteCalls \cup {None}
  OBVIOUS
<1>1. CASE Start \/ MaintTimer
  <2>1. RowsOK' /\ BackupOK' /\ LocksOK' /\ ProcessOK'
    BY <1>1 DEF Start, MaintTimer, RowsOK, BackupOK, LocksOK, ProcessOK
  <2>2. ThreadsOK'
    BY <1>0, <1>1, MaintMoveType DEF Start, MaintTimer, Goto, MaintPoints
  <2>3. MaintOK'
    BY <1>1 DEF Start, MaintTimer, Goto, MaintOK, MaintPoints, ThreadsOK, Actors
  <2> QED BY <2>1, <2>2, <2>3
<1>2. ASSUME MaintFails, UNCHANGED <<rows, external, acked, used, requests>>,
             faults' \in 0..MaxFaults
      PROVE  TypeOK'
  <2>1. RowsOK' /\ BackupOK' /\ ProcessOK'
    BY <1>2 DEF MaintFails, RowsOK, BackupOK, ProcessOK
  <2>2. ThreadsOK'
    BY <1>0, <1>2, MaintMoveType DEF MaintFails, Finish
  <2>3. MaintOK'
    BY <1>2 DEF MaintFails, Finish, MaintOK, NoRows, ThreadsOK, Actors
  <2>4. LocksOK'
    BY <1>2 DEF MaintFails, Finish, Unlock, Release, LocksOK, Actors
  <2> QED BY <2>1, <2>2, <2>3, <2>4
<1>3. CASE MaintRead
  <2>1. CASE Cardinality(ledger) > MaxLedger
    BY <1>2, <1>3, <2>1 DEF MaintRead, ProcessOK
  <2>2. CASE ~(Cardinality(ledger) > MaxLedger)
    <3>1. /\ pc' = [pc EXCEPT ![Maint] = "replay"] /\ "replay" \in MaintPoints
          /\ todo' = ledger
          /\ UNCHANGED <<rows, external, locks, call, proc, ready, doomed, acked, used, requests,
                         faults>>
      BY <1>3, <2>2 DEF MaintRead, Goto, MaintPoints
    <3>2. RowsOK' /\ BackupOK' /\ LocksOK' /\ ProcessOK'
      BY <3>1 DEF RowsOK, BackupOK, LocksOK, ProcessOK
    <3>3. ThreadsOK'
      BY <1>0, <3>1, MaintMoveType
    <3>4. MaintOK'
      BY <3>1 DEF MaintOK, ThreadsOK, Actors
    <3> QED BY <3>2, <3>3, <3>4
  <2> QED BY <2>1, <2>2
<1>4. CASE MaintPick
  <2>1. RowsOK' /\ BackupOK' /\ LocksOK' /\ ProcessOK'
    BY <1>4 DEF MaintPick, RowsOK, BackupOK, LocksOK, ProcessOK
  <2>2. PICK u \in todo :
          IF u \in Live
          THEN /\ call' = [call EXCEPT ![Maint] = [uid |-> u, email |-> account[u].email]]
               /\ Goto(Maint, "replayInvite")
               /\ UNCHANGED todo
          ELSE todo' = todo \ {u} /\ UNCHANGED local
    BY <1>4 DEF MaintPick
  <2>3. CASE u \in Live
    <3> DEFINE c == [uid |-> u, email |-> account[u].email]
    <3>1. c \in DeleteCalls /\ c.email \in Emails
      BY <2>3 DEF DeleteCalls, Live, RowsOK, Identities
    <3>2. /\ call' = [call EXCEPT ![Maint] = c]
          /\ pc' = [pc EXCEPT ![Maint] = "replayInvite"] /\ "replayInvite" \in MaintPoints
          /\ UNCHANGED <<todo, doomed, ledger, used>>
      BY <1>4, <2>2, <2>3 DEF MaintPick, Goto, MaintPoints
    <3> HIDE DEF c
    <3>3. ThreadsOK'
      BY <3>1, <3>2, MaintMoveType
    <3>4. MaintOK'
      BY <3>1, <3>2 DEF MaintOK, ThreadsOK, Actors
    <3> QED BY <2>1, <3>3, <3>4
  <2>4. CASE u \notin Live
    <3>1. ThreadsOK'
      BY <1>4, <2>2, <2>4 DEF MaintPick, ThreadsOK
    <3>2. MaintOK'
      BY <1>4, <2>2, <2>4 DEF MaintPick, MaintOK
    <3> QED BY <2>1, <3>1, <3>2
  <2> QED BY <2>3, <2>4
<1>5. CASE MaintInvite \/ MaintUser
  <2>1. call[Maint] \in DeleteCalls /\ call[Maint].email \in Emails /\ call[Maint].uid \in Uids
    BY <1>5 DEF MaintInvite, MaintUser, MaintOK, DeleteCalls
  <2>2. RowsOK' /\ BackupOK' /\ ProcessOK'
    BY <1>5 DEF MaintInvite, MaintUser, RowsOK, BackupOK, ProcessOK
  <2>3. LocksOK'
    BY <1>5, <2>1 DEF MaintInvite, MaintUser, LocksOK, Take, Actors
  <2>4. ThreadsOK'
    BY <1>0, <1>5, MaintMoveType DEF MaintInvite, MaintUser, Goto, MaintPoints
  <2>5. MaintOK'
    BY <1>5, <2>1 DEF MaintInvite, MaintUser, Goto, MaintOK, MaintPoints, ThreadsOK, Actors
  <2> QED BY <2>2, <2>3, <2>4, <2>5
<1>6. CASE MaintCommit
  <2>1. RowsOK'
    BY <1>6, RemoveType DEF MaintCommit, RowsOK
  <2>2. BackupOK' /\ ProcessOK'
    BY <1>6 DEF MaintCommit, BackupOK, ProcessOK
  <2>3. LocksOK'
    BY <1>6 DEF MaintCommit, Unlock, Release, LocksOK, Actors
  <2>4. ThreadsOK'
    BY <1>0, <1>6, MaintMoveType DEF MaintCommit, Goto, MaintPoints
  <2>5. MaintOK'
    BY <1>6 DEF MaintCommit, Goto, MaintOK, NoRows, MaintPoints, ThreadsOK, Actors
  <2> QED BY <2>1, <2>2, <2>3, <2>4, <2>5
<1>7. CASE MaintSweep
  <2>1. RowsOK' /\ BackupOK' /\ LocksOK' /\ ProcessOK'
    BY <1>7 DEF MaintSweep, RowsOK, BackupOK, LocksOK, ProcessOK
  <2>2. ThreadsOK'
    BY <1>0, <1>7, MaintMoveType DEF MaintSweep, Goto
  <2>3. MaintOK'
    BY <1>7 DEF MaintSweep, Goto, MaintOK, ThreadsOK, Actors
  <2> QED BY <2>1, <2>2, <2>3
<1>8. CASE MaintTimeout \/ MaintError
  BY <1>2, <1>8 DEF MaintTimeout, MaintError, ProcessOK, Fault
<1> QED BY <1>1, <1>3, <1>4, <1>5, <1>6, <1>7, <1>8 DEF MaintStep

\* The operator, the host and sign-out.
LEMMA HostType ==
  ASSUME TypeOK, \/ \E s \in sessions : Logout(s)
                 \/ \E e \in Emails : Invite(e)
                 \/ Crash \/ Backup \/ Restore
  PROVE  TypeOK'
<1> USE AccountsAssumption DEF TypeOK, rows, locks, external, local, replay
<1>1. ASSUME NEW s \in sessions, Logout(s) PROVE TypeOK'
  BY <1>1 DEF Logout, RowsOK, BackupOK, LocksOK, ThreadsOK, MaintOK, ProcessOK
<1>2. ASSUME NEW e \in Emails, Invite(e) PROVE TypeOK'
  BY <1>2 DEF Invite, RowsOK, BackupOK, LocksOK, ThreadsOK, MaintOK, ProcessOK
<1>3. CASE Crash
  <2>1. RowsOK' /\ BackupOK' /\ LocksOK'
    BY <1>3 DEF Crash, RowsOK, BackupOK, LocksOK
  <2>3. ProcessOK'
    <3>1. requests' \in 0..MaxRequests /\ faults' \in 0..MaxFaults
      BY <1>3 DEF Crash, Fault, ProcessOK
    <3>2. proc' \in {"down", "starting", "serving"} /\ ready' \in BOOLEAN
      BY <1>3 DEF Crash
    <3> QED BY <3>1, <3>2 DEF ProcessOK
  <2>2. ThreadsOK' /\ MaintOK'
    BY <1>3 DEF Crash, ThreadsOK, MaintOK, NoRows, Actors, LoginPoints, DeletePoints,
                MaintPoints
  <2> QED BY <2>1, <2>2, <2>3
<1>4. CASE Backup
  <2>1. BackupOK'
    BY <1>4 DEF Backup, BackupOK, RowsOK, Rows
  <2> QED BY <1>4, <2>1 DEF Backup, RowsOK, LocksOK, ThreadsOK, MaintOK, ProcessOK
<1>5. CASE Restore
  <2>1. RowsOK'
    BY <1>5 DEF Restore, RowsOK, BackupOK, Rows
  <2> QED BY <1>5, <2>1 DEF Restore, BackupOK, LocksOK, ThreadsOK, MaintOK, ProcessOK, Fault
<1> QED BY <1>1, <1>2, <1>3, <1>4, <1>5

LEMMA NextType == TypeOK /\ [Next]_vars => TypeOK'
<1> SUFFICES ASSUME TypeOK, [Next]_vars PROVE TypeOK'
  OBVIOUS
<1>1. CASE UNCHANGED vars
  BY <1>1 DEF vars, rows, locks, external, local, replay, TypeOK, RowsOK, BackupOK, LocksOK,
              ThreadsOK, MaintOK, ProcessOK
<1> QED BY <1>1, LoginType, DeleteType, MaintType, HostType DEF Next, ThreadStep

\* Types, the foreign key of the sessions, and what a transaction carries.
THEOREM TypeCorrect == Spec => []TypeOK
  BY InitType, NextType, PTL DEF Spec

-----------------------------------------------------------------------------
(* An acknowledged deletion is final *)

\* Requests run only while the process serves, a replay only while it is up.
Quiet ==
  /\ proc # "serving" => \A t \in Threads : pc[t] = "idle"
  /\ proc = "down" => pc[Maint] = "idle"

\* The tombstone comes first.
Tombstones ==
  /\ acked \subseteq ledger
  /\ doomed.users \subseteq ledger
  /\ \A t \in Threads : pc[t] \in {"deleteInvite", "deleteCommit"} => call[t].uid \in ledger
  /\ pc[Maint] \in {"replayInvite", "replayUser"} => call[Maint].uid \in ledger

\* The row lock of the account keeps a sign-in and a deletion apart ...
Exclusive ==
  \A t \in Threads :
    pc[t] \in {"loginRotate", "loginCommit", "deleteRecord", "deleteInvite", "deleteCommit"} =>
      lockUser[call[t].uid] = t

\* ... so that a sign-in never writes the row of a deleted account back.
Fresh ==
  \A t \in Threads : pc[t] \in {"loginRotate", "loginCommit"} => call[t].uid \notin acked

\* The replay at start-up misses no acknowledged deletion that a restore undid.
Covered ==
  proc = "starting" =>
    /\ pc[Maint] \in {"replay", "replayInvite", "replayUser"} =>
         acked \cap Live \subseteq todo \cup doomed.users
    /\ pc[Maint] = "sweep" => acked \cap Live = {}

DeletionInv ==
  TypeOK /\ Quiet /\ Tombstones /\ Exclusive /\ Fresh /\ Covered /\ DeletedNotServed

LEMMA InitDeletion == Init => DeletionInv
  BY InitType DEF Init, DeletionInv, Quiet, Tombstones, Exclusive, Fresh, Covered,
                  DeletedNotServed, NoRows, Actors

LEMMA NextDeletion == DeletionInv /\ [Next]_vars => DeletionInv'
<1> SUFFICES ASSUME DeletionInv, [Next]_vars PROVE DeletionInv'
  OBVIOUS
<1>0. TypeOK' 
  BY NextType DEF DeletionInv
<1> USE AccountsAssumption DEF DeletionInv, Quiet, Tombstones, Exclusive, Fresh, Covered,
      DeletedNotServed, TypeOK, RowsOK, ThreadsOK, MaintOK, Live, Actors, LoginPoints,
      DeletePoints, MaintPoints, rows, locks, external, local, replay
<1>1. ASSUME NEW t \in Threads, NEW s \in Subjects, NEW e \in Emails, Login(t, s, e)
       PROVE DeletionInv'
  <2>1. PICK c : call' = [call EXCEPT ![t] = c]
    BY <1>1 DEF Login
  <2>2. /\ pc' = [pc EXCEPT ![t] = "loginInvite"] /\ proc = "serving"
        /\ UNCHANGED <<account, acked, ledger, lockUser, proc, replay>>
    BY <1>1 DEF Login, Goto
  <2> QED BY <1>0, <2>1, <2>2
<1>2. ASSUME NEW t \in Threads, NEW u \in Uids, Delete(t, u) PROVE DeletionInv'
  BY <1>0, <1>2 DEF Delete, Goto
<1>3. ASSUME NEW t \in Threads, LoginInvite(t) PROVE DeletionInv'
  BY <1>0, <1>3 DEF LoginInvite, Finish, Unlock, Release, Take, Goto, Owned, LocksOK
<1>4. ASSUME NEW t \in Threads, LoginUser(t) PROVE DeletionInv'
  BY <1>0, <1>4 DEF LoginUser, Finish, Unlock, Release, Take, Free, Goto, LocksOK
<1>5. ASSUME NEW t \in Threads, LoginCreate(t) PROVE DeletionInv'
  <2>1. CASE Owned(call[t].subject) # {}
    BY <1>0, <1>5, <2>1 DEF LoginCreate, Finish, Unlock, Release, LocksOK
  <2>2. CASE Owned(call[t].subject) = {}
    <3>1. PICK u \in Uids \ used :
            /\ call' = [call EXCEPT ![t] = [call[t] EXCEPT !.uid = u]]
            /\ lockUser' = [lockUser EXCEPT ![u] = t]
            /\ pc' = [pc EXCEPT ![t] = "loginRotate"]
      BY <1>5, <2>2 DEF LoginCreate, Goto, Take
    <3>2. call[t] \in LoginCalls /\ [call[t] EXCEPT !.uid = u].uid = u
      BY <1>5 DEF LoginCreate, LoginCalls
    <3>3. UNCHANGED <<account, acked, ledger, proc, replay>>
      BY <1>5 DEF LoginCreate
    <3> DEFINE c == [call[t] EXCEPT !.uid = u]
    <3>4. call' = [call EXCEPT ![t] = c] /\ c.uid = u
      BY <3>1, <3>2
    <3> HIDE DEF c
    <3> QED BY <1>0, <1>5, <3>1, <3>3, <3>4 DEF LoginCreate, LocksOK
  <2> QED BY <2>1, <2>2
<1>6. ASSUME NEW t \in Threads, LoginRotate(t) PROVE DeletionInv'
  BY <1>0, <1>6 DEF LoginRotate, Goto
<1>7. ASSUME NEW t \in Threads, LoginCommit(t) PROVE DeletionInv'
  BY <1>0, <1>7 DEF LoginCommit, Finish, Unlock, Release, LocksOK
<1>8. ASSUME NEW t \in Threads, DeleteUser(t) PROVE DeletionInv'
  <2>1. CASE call[t].uid \notin Live
    BY <1>0, <1>8, <2>1 DEF DeleteUser, Finish, Unlock, Release, LocksOK
  <2>2. CASE call[t].uid \in Live
    <3> DEFINE c == [call[t] EXCEPT !.email = account[call[t].uid].email]
    <3>1. /\ call' = [call EXCEPT ![t] = c]
          /\ lockUser[call[t].uid] = None
          /\ lockUser' = [lockUser EXCEPT ![call[t].uid] = t]
          /\ pc' = [pc EXCEPT ![t] = "deleteRecord"] /\ pc[t] = "deleteUser"
          /\ UNCHANGED <<account, acked, ledger, proc, replay>>
      BY <1>8, <2>2 DEF DeleteUser, Goto, Take, Free
    <3>2. call[t] \in DeleteCalls /\ c.uid = call[t].uid /\ call[t].uid \in Uids
      BY <3>1 DEF DeleteCalls
    <3> HIDE DEF c
    <3> QED BY <1>0, <3>1, <3>2 DEF LocksOK
  <2> QED BY <2>1, <2>2
<1>9. ASSUME NEW t \in Threads, DeleteRecord(t) PROVE DeletionInv'
  BY <1>0, <1>9 DEF DeleteRecord, Finish, Unlock, Release, Goto, LocksOK
<1>10. ASSUME NEW t \in Threads, DeleteInvite(t) PROVE DeletionInv'
  BY <1>0, <1>10 DEF DeleteInvite, Goto
<1>11. ASSUME NEW t \in Threads, DeleteCommit(t) PROVE DeletionInv'
  BY <1>0, <1>11 DEF DeleteCommit, Finish, Unlock, Release, Remove, LocksOK
<1>12. ASSUME NEW t \in Threads, LockTimeout(t) PROVE DeletionInv'
  BY <1>0, <1>12 DEF LockTimeout, Finish, Unlock, Release, LocksOK
<1>13. ASSUME NEW t \in Threads, DatabaseError(t) PROVE DeletionInv'
  BY <1>0, <1>13 DEF DatabaseError, Finish, Unlock, Release, LocksOK
<1>14. ASSUME NEW s \in sessions, Logout(s) PROVE DeletionInv'
  BY <1>0, <1>14 DEF Logout
<1>15. ASSUME NEW e \in Emails, Invite(e) PROVE DeletionInv'
  BY <1>0, <1>15 DEF Invite
<1>16. CASE Start
  BY <1>0, <1>16 DEF Start, Goto
<1>17. CASE MaintTimer
  BY <1>0, <1>17 DEF MaintTimer, Goto
<1>18. CASE MaintRead
  BY <1>0, <1>18 DEF MaintRead, MaintFails, Finish, Unlock, Release, NoRows, Goto, LocksOK
<1>19. CASE MaintPick
  BY <1>0, <1>19 DEF MaintPick, Goto
<1>20. CASE MaintInvite
  BY <1>0, <1>20 DEF MaintInvite, Goto
<1>21. CASE MaintUser
  <2>1. call[Maint].uid \in Uids
    BY <1>21 DEF MaintUser, DeleteCalls
  <2>2. /\ todo' = todo \ {call[Maint].uid}
        /\ doomed'.users = doomed.users \cup ({call[Maint].uid} \cap Live)
    BY <1>21 DEF MaintUser
  <2>3. Tombstones'
    BY <1>21, <2>2 DEF MaintUser, Goto
  <2> QED BY <1>0, <1>21, <2>1, <2>2, <2>3 DEF MaintUser, Goto, Take, Free, LocksOK
<1>22. CASE MaintCommit
  BY <1>0, <1>22 DEF MaintCommit, Remove, Unlock, Release, Goto, NoRows, LocksOK
<1>23. CASE MaintSweep
  <2>1. acked \cap Live = {}
    BY <1>23 DEF MaintSweep, ProcessOK
  <2> QED BY <1>0, <1>23, <2>1 DEF MaintSweep, Goto
<1>24. CASE MaintTimeout
  BY <1>0, <1>24 DEF MaintTimeout, MaintFails, Finish, Unlock, Release, NoRows, LocksOK
<1>25. CASE MaintError
  BY <1>0, <1>25 DEF MaintError, MaintFails, Finish, Unlock, Release, NoRows, LocksOK
<1>26. CASE Crash
  BY <1>0, <1>26 DEF Crash, NoRows
<1>27. CASE Backup
  BY <1>0, <1>27 DEF Backup
<1>28. CASE Restore
  BY <1>0, <1>28 DEF Restore
<1>29. CASE UNCHANGED vars
  BY <1>0, <1>29 DEF vars
<1> QED BY <1>1, <1>2, <1>3, <1>4, <1>5, <1>6, <1>7, <1>8, <1>9, <1>10, <1>11,
           <1>12, <1>13, <1>14, <1>15, <1>16, <1>17, <1>18, <1>19, <1>20, <1>21, <1>22,
           <1>23, <1>24, <1>25, <1>26, <1>27, <1>28, <1>29
        DEF Next, ThreadStep, MaintStep

\* An acknowledged deletion is final: no crash and no restored backup brings the
\* account back to a process that serves requests.
THEOREM DeletedNotServedTheorem == Spec => []DeletedNotServed
<1>1. DeletionInv => DeletedNotServed
  BY DEF DeletionInv
<1> QED BY <1>1, InitDeletion, NextDeletion, PTL DEF Spec

\* An account leaves the database of a running process only with its tombstone in
\* the ledger.
THEOREM RemovedWithTombstoneTheorem == Spec => RemovedWithTombstone
<1> DEFINE A == proc # "down" => \A u \in Live : account'[u] = None => u \in ledger'
<1>1. ASSUME DeletionInv, [Next]_vars PROVE [A]_vars
  <2> SUFFICES ASSUME proc # "down", NEW u \in Live, account'[u] = None PROVE u \in ledger'
    OBVIOUS
  <2>1. u \in Uids /\ account[u] # None
    BY DEF Live
  <2>2. CASE UNCHANGED account
    BY <2>1, <2>2
  <2>3. ASSUME NEW t \in Threads, LoginCommit(t) PROVE FALSE
    <3>1. call[t] \in LoginCalls
      BY <1>1, <2>3 DEF DeletionInv, TypeOK, ThreadsOK, LoginCommit, LoginPoints
    <3>2. [subject |-> call[t].subject, email |-> call[t].email] # None
      BY <3>1, AccountsAssumption DEF LoginCalls, Identities
    <3> QED BY <1>1, <2>1, <2>3, <3>2 DEF DeletionInv, TypeOK, RowsOK, LoginCommit
  <2>4. ASSUME NEW t \in Threads, DeleteCommit(t) PROVE u \in ledger'
    BY <1>1, <2>1, <2>4 DEF DeletionInv, Tombstones, DeleteCommit, Remove, external
  <2>5. CASE MaintCommit
    BY <1>1, <2>1, <2>5 DEF DeletionInv, Tombstones, MaintCommit, Remove, external
  <2>6. UNCHANGED account \/ MaintCommit
          \/ \E t \in Threads : LoginCommit(t) \/ DeleteCommit(t)
    BY <1>1 DEF Next, ThreadStep, MaintStep, vars, rows, Login, Delete, LoginInvite, LoginUser,
         LoginCreate, LoginRotate, DeleteUser, DeleteRecord, DeleteInvite, LockTimeout,
         DatabaseError, Logout, Start, MaintTimer, MaintRead, MaintPick, MaintInvite,
         MaintUser, MaintSweep, MaintTimeout, MaintError, Invite, Crash, Backup, Restore
  <2> QED BY <2>2, <2>3, <2>4, <2>5, <2>6
<1>2. Spec => [][A]_vars
  BY <1>1, InitDeletion, NextDeletion, PTL DEF Spec
<1> QED BY <1>2 DEF RemovedWithTombstone
-----------------------------------------------------------------------------
(* One account for a Google identity, one session for an account *)

\* The points at which a sign-in knows the account it is about.
Signing == {"loginUser", "loginRotate", "loginCommit"}

\* The replay holds the row lock of every account it is going to delete.
Doomed == \A u \in doomed.users : lockUser[u] = Maint

\* Two sign-ins to one account are of one identity ...
SameSubject ==
  \A p, q \in Threads :
    pc[p] \in Signing /\ pc[q] \in Signing /\ call[p].uid = call[q].uid
      => call[p].subject = call[q].subject

\* ... which is the account's, if it still exists.
Own ==
  \A t \in Threads :
    pc[t] \in Signing /\ account[call[t].uid] # None
      => account[call[t].uid].subject = call[t].subject

\* Past the row lock the account exists, or is being created under the key of
\* its subject.
Claim ==
  \A t \in Threads :
    pc[t] \in {"loginRotate", "loginCommit"} /\ account[call[t].uid] = None =>
      /\ lockSubject[call[t].subject] = t
      /\ \A u \in Uids : account[u] # None => account[u].subject # call[t].subject

\* A sign-in about to commit deletes every session of its account.
Rotated ==
  \A t \in Threads :
    pc[t] = "loginCommit" =>
      \A s \in sessions : s.uid = call[t].uid => s \in call[t].old

Unique(acc) ==
  \A u, v \in Uids :
    acc[u] # None /\ acc[v] # None /\ acc[u].subject = acc[v].subject => u = v

Single(ses) == \A a, b \in ses : a.uid = b.uid => a = b

Sound ==
  /\ Doomed /\ SameSubject /\ Own /\ Claim /\ Rotated
  /\ Unique(account) /\ Single(sessions)
  /\ Unique(backup.account) /\ Single(backup.sessions)

SessionInv == DeletionInv /\ Sound

\* What a step keeps that leaves the accounts alone, deletes sessions at most and
\* takes no sign-in further.
LEMMA Keeps ==
  ASSUME SessionInv, NEW T \in SUBSET Threads,
         UNCHANGED <<account, backup>>, sessions' \subseteq sessions, Doomed',
         \A q \in T : pc'[q] = pc[q] /\ call'[q] = call[q],
         \A q \in T, s \in Subjects : lockSubject[s] = q => lockSubject'[s] = q,
         \A q \in Threads \ T : pc'[q] \notin Signing
  PROVE  Sound'
<1>s. Sound
  BY DEF SessionInv
<1>t. \A q \in Threads : pc[q] \in Signing => call[q].subject \in Subjects
  BY DEF SessionInv, DeletionInv, TypeOK, ThreadsOK, Signing, LoginPoints, LoginCalls
<1>1. SameSubject' /\ Own'
  BY <1>s DEF Sound, SameSubject, Own
<1>2. Claim'
  BY <1>s, <1>t DEF Sound, Claim, Signing
<1>3. Rotated'
  BY <1>s DEF Sound, Rotated, Signing
<1> QED BY <1>s, <1>1, <1>2, <1>3 DEF Sound, Unique, Single

\* The doomed accounts stay locked by the task when a thread ends or moves on.
LEMMA DoomedKept ==
  ASSUME Doomed, doomed' = doomed,
         \A u \in doomed.users : lockUser[u] = Maint => lockUser'[u] = Maint
  PROVE  Doomed'
  BY DEF Doomed

LEMMA FinishKeeps ==
  ASSUME SessionInv, NEW t \in Threads, Finish(t),
         UNCHANGED <<account, backup, doomed>>, sessions' \subseteq sessions
  PROVE  Sound'
<1> USE AccountsAssumption
<1>1. /\ pc' = [pc EXCEPT ![t] = "idle"] /\ call' = [call EXCEPT ![t] = None]
      /\ lockUser' = Release(lockUser, t) /\ lockSubject' = Release(lockSubject, t)
  BY DEF Finish, Unlock
<1>t. /\ TypeOK /\ Doomed
      /\ pc \in [Actors -> Points] /\ lockUser \in [Uids -> Actors \cup {None}]
      /\ lockSubject \in [Subjects -> Actors \cup {None}]
      /\ DOMAIN call = Actors /\ doomed.users \subseteq Uids
  BY DEF SessionInv, Sound, DeletionInv, TypeOK, ThreadsOK, LocksOK, MaintOK, Points
<1>2. Doomed'
  BY <1>1, <1>t, DoomedKept DEF Release
<1>3. \A q \in Threads \ {t} : pc'[q] = pc[q] /\ call'[q] = call[q]
  BY <1>1, <1>t DEF Actors
<1>4. \A q \in Threads \ {t}, s \in Subjects : lockSubject[s] = q => lockSubject'[s] = q
  BY <1>1, <1>t DEF Release
<1>5. pc'[t] \notin Signing
  BY <1>1, <1>t DEF Actors, Signing
<1> DEFINE T == Threads \ {t}
<1>6. T \in SUBSET Threads /\ \A q \in Threads \ T : q = t
  OBVIOUS
<1> QED BY <1>2, <1>3, <1>4, <1>5, <1>6, Keeps
\* A thread that moves on outside a sign-in's last points.
LEMMA MoveKeeps ==
  ASSUME SessionInv, NEW t \in Threads, NEW p,
         pc' = [pc EXCEPT ![t] = p], p \notin Signing,
         \A q \in Threads \ {t} : call'[q] = call[q],
         lockSubject' = lockSubject, Doomed',
         UNCHANGED <<account, backup, sessions>>
  PROVE  Sound'
<1>t. pc \in [Actors -> Points]
  BY DEF SessionInv, DeletionInv, TypeOK, ThreadsOK, Points
<1>1. \A q \in Threads \ {t} : pc'[q] = pc[q]
  BY <1>t DEF Actors
<1>2. pc'[t] \notin Signing
  BY <1>t DEF Actors
<1> DEFINE T == Threads \ {t}
<1>3. T \in SUBSET Threads /\ \A q \in Threads \ T : q = t
  OBVIOUS
<1> QED BY <1>1, <1>2, <1>3, Keeps

\* A step of the task that leaves the threads and the accounts alone.
LEMMA TaskKeeps ==
  ASSUME SessionInv, Doomed', UNCHANGED <<account, backup>>, sessions' \subseteq sessions,
         \A q \in Threads : pc'[q] = pc[q] /\ call'[q] = call[q],
         \A q \in Threads, s \in Subjects : lockSubject[s] = q => lockSubject'[s] = q
  PROVE  Sound'
<1>1. Threads \in SUBSET Threads /\ Threads \ Threads = {}
  OBVIOUS
<1> QED BY <1>1, Keeps

LEMMA LoginSessions ==
  ASSUME SessionInv, DeletionInv', NEW t \in Threads,
         \/ \E s \in Subjects, e \in Emails : Login(t, s, e)
         \/ LoginInvite(t) \/ LoginUser(t) \/ LoginCreate(t) \/ LoginRotate(t) \/ LoginCommit(t)
  PROVE  Sound'
<1> USE AccountsAssumption DEF rows, locks, external, local, replay
<1>s. /\ Doomed /\ SameSubject /\ Own /\ Claim /\ Rotated
      /\ Unique(account) /\ Single(sessions)
      /\ Unique(backup.account) /\ Single(backup.sessions)
  BY DEF SessionInv, Sound
<1>t. /\ pc \in [Actors -> Points] /\ lockUser \in [Uids -> Actors \cup {None}]
      /\ lockSubject \in [Subjects -> Actors \cup {None}]
      /\ call \in [Actors -> LoginCalls \cup DeleteCalls \cup {None}]
      /\ account \in [Uids -> Identities \cup {None}]
      /\ doomed.users \subseteq Uids /\ doomed.users \subseteq used /\ used \subseteq Uids
      /\ \A q \in Threads : pc[q] \in LoginPoints => call[q] \in LoginCalls
      /\ \A q \in Threads : pc[q] \in Signing => call[q].uid \in used
      /\ sessions \subseteq Sessions
      /\ \A u \in Uids : account[u] # None => u \in used
  BY DEF SessionInv, DeletionInv, Tombstones, TypeOK, RowsOK, ThreadsOK, LocksOK, MaintOK, Points,
         Signing
<1>x. /\ \A q \in Threads : pc[q] \in {"loginRotate", "loginCommit"} =>
           lockUser[call[q].uid] = q
      /\ \A q \in Threads : pc'[q] \in {"loginRotate", "loginCommit"} =>
           lockUser'[call'[q].uid] = q
  BY DEF SessionInv, DeletionInv, Exclusive
<1>a. t \in Actors /\ Threads \subseteq Actors
  BY DEF Actors
<1>1. ASSUME NEW s \in Subjects, NEW e \in Emails, Login(t, s, e) PROVE Sound'
  <2>1. /\ pc' = [pc EXCEPT ![t] = "loginInvite"]
        /\ \A q \in Threads \ {t} : call'[q] = call[q]
        /\ UNCHANGED <<lockSubject, lockUser, doomed, account, backup, sessions>>
    BY <1>1, <1>t, <1>a DEF Login, Goto
  <2>2. "loginInvite" \notin Signing
    BY DEF Signing
  <2>3. Doomed'
    BY <1>s, <2>1, DoomedKept
  <2> QED BY <2>1, <2>2, <2>3, MoveKeeps
<1>2. CASE LoginInvite(t)
  <2>1. CASE Finish(t)
    BY <1>2, <2>1, FinishKeeps DEF LoginInvite
  <2>2. CASE Goto(t, "loginCreate") /\ UNCHANGED <<call, lockUser, lockSubject>>
    <3>1. UNCHANGED <<account, backup, sessions, doomed>> /\ pc' = [pc EXCEPT ![t] = "loginCreate"]
      BY <1>2, <2>2 DEF LoginInvite, Goto
    <3>2. "loginCreate" \notin Signing
      BY DEF Signing
    <3>3. Doomed'
      BY <1>s, <2>2, <3>1, DoomedKept
    <3> QED BY <2>2, <3>1, <3>2, <3>3, MoveKeeps
  <2>3. ASSUME NEW u \in Owned(call[t].subject), call' = [call EXCEPT ![t].uid = u],
               Goto(t, "loginUser"), UNCHANGED <<lockUser, lockSubject>>
        PROVE  Sound'
    <3>1. UNCHANGED <<account, backup, sessions, doomed>> /\ pc[t] = "loginInvite"
      BY <1>2 DEF LoginInvite
    <3>2. call[t] \in LoginCalls
      BY <1>t, <3>1 DEF LoginPoints
    <3>3. /\ call'[t].uid = u /\ call'[t].subject = call[t].subject
          /\ \A q \in Threads \ {t} : call'[q] = call[q]
      BY <1>t, <1>a, <2>3, <3>2 DEF LoginCalls
    <3>4. pc'[t] = "loginUser" /\ \A q \in Threads \ {t} : pc'[q] = pc[q]
      BY <1>t, <1>a, <2>3 DEF Goto
    <3>5. account[u] # None /\ account[u].subject = call[t].subject
      BY <2>3 DEF Owned, Live
    <3>6. Doomed'
      BY <1>s, <2>3, <3>1, DoomedKept
    <3>7. SameSubject'
      BY <1>s, <3>1, <3>3, <3>4, <3>5 DEF SameSubject, Own, Signing
    <3>8. Own'
      BY <1>s, <3>1, <3>3, <3>4, <3>5 DEF Own
    <3>9. Claim' /\ Rotated'
      BY <1>s, <2>3, <3>1, <3>3, <3>4 DEF Claim, Rotated
    <3> QED BY <1>s, <3>1, <3>6, <3>7, <3>8, <3>9 DEF Sound
  <2> QED BY <1>2, <2>1, <2>2, <2>3 DEF LoginInvite
<1>3. CASE LoginUser(t)
  <2>1. CASE Finish(t)
    BY <1>3, <2>1, FinishKeeps DEF LoginUser
  <2>2. CASE call[t].uid \in Live /\ lockUser' = Take(lockUser, call[t].uid, t)
             /\ Goto(t, "loginRotate") /\ UNCHANGED <<lockSubject, call>>
    <3>1. /\ UNCHANGED <<account, backup, sessions, doomed>> /\ pc[t] = "loginUser"
          /\ lockUser[call[t].uid] = None
      BY <1>3 DEF LoginUser, Free
    <3>2. pc'[t] = "loginRotate" /\ \A q \in Threads \ {t} : pc'[q] = pc[q]
      BY <1>t, <1>a, <2>2 DEF Goto
    <3>3. Doomed'
      <4>1. \A u \in doomed.users : lockUser[u] = Maint => lockUser'[u] = Maint
        BY <1>t, <2>2, <3>1 DEF Take, Actors
      <4> QED BY <1>s, <3>1, <4>1, DoomedKept
    <3>4. account[call[t].uid] # None
      BY <2>2 DEF Live
    <3>5. SameSubject' /\ Own'
      BY <1>s, <2>2, <3>1, <3>2 DEF SameSubject, Own, Signing
    <3>6. Claim' /\ Rotated'
      BY <1>s, <2>2, <3>1, <3>2, <3>4 DEF Claim, Rotated
    <3> QED BY <1>s, <3>1, <3>3, <3>5, <3>6 DEF Sound
  <2> QED BY <1>3, <2>1, <2>2 DEF LoginUser
<1>4. CASE LoginCreate(t)
  <2>1. CASE Finish(t)
    BY <1>4, <2>1, FinishKeeps DEF LoginCreate
  <2>2. ASSUME NEW u \in Uids \ used, call' = [call EXCEPT ![t].uid = u],
               lockSubject' = Take(lockSubject, call[t].subject, t),
               lockUser' = Take(lockUser, u, t), Goto(t, "loginRotate"),
               Owned(call[t].subject) = {}
        PROVE  Sound'
    <3>1. /\ UNCHANGED <<account, backup, sessions, doomed>> /\ pc[t] = "loginCreate"
          /\ lockSubject[call[t].subject] = None
      BY <1>4 DEF LoginCreate, Free
    <3>2. call[t] \in LoginCalls /\ call[t].subject \in Subjects
      BY <1>t, <3>1 DEF LoginPoints, LoginCalls
    <3>3. /\ call'[t].uid = u /\ call'[t].subject = call[t].subject
          /\ \A q \in Threads \ {t} : call'[q] = call[q]
      BY <1>t, <1>a, <2>2, <3>2 DEF LoginCalls
    <3>4. pc'[t] = "loginRotate" /\ \A q \in Threads \ {t} : pc'[q] = pc[q]
      BY <1>t, <1>a, <2>2 DEF Goto
    <3>5. account[u] = None /\ \A q \in Threads : pc[q] \in Signing => call[q].uid # u
      BY <1>t, <2>2
    <3>6. Doomed'
      <4>1. \A v \in doomed.users : lockUser'[v] = lockUser[v]
        BY <1>t, <2>2 DEF Take
      <4> QED BY <1>s, <3>1, <4>1, DoomedKept
    <3>7. SameSubject'
      BY <1>s, <3>1, <3>3, <3>4, <3>5 DEF SameSubject
    <3>8. Own'
      BY <1>s, <3>1, <3>3, <3>4, <3>5 DEF Own
    <3>9. /\ lockSubject'[call[t].subject] = t
          /\ \A q \in Threads, s \in Subjects : lockSubject[s] = q => lockSubject'[s] = q
      BY <1>t, <1>a, <2>2, <3>1, <3>2 DEF Take
    <3>10. \A v \in Uids : account[v] # None => account[v].subject # call[t].subject
      BY <2>2 DEF Owned, Live
    <3>11. \A q \in Threads : pc[q] \in Signing => call[q].subject \in Subjects
      BY <1>t DEF Signing, LoginPoints, LoginCalls
    <3>12. Claim'
      BY <1>s, <3>1, <3>3, <3>4, <3>9, <3>10, <3>11 DEF Claim, Signing
    <3>13. Rotated'
      BY <1>s, <3>1, <3>3, <3>4 DEF Rotated
    <3> QED BY <1>s, <3>1, <3>6, <3>7, <3>8, <3>12, <3>13 DEF Sound
  <2> QED BY <1>4, <2>1, <2>2 DEF LoginCreate
<1>5. CASE LoginRotate(t)
  <2>1. /\ pc[t] = "loginRotate"
        /\ call' = [call EXCEPT ![t].old = {s \in sessions : s.uid = call[t].uid}]
        /\ UNCHANGED <<account, backup, sessions, doomed, lockUser, lockSubject>>
    BY <1>5 DEF LoginRotate
  <2>2. pc'[t] = "loginCommit" /\ \A q \in Threads \ {t} : pc'[q] = pc[q]
    BY <1>5, <1>t, <1>a DEF LoginRotate, Goto
  <2>3. call[t] \in LoginCalls
    BY <1>t, <2>1 DEF LoginPoints
  <2>4. /\ call'[t].uid = call[t].uid /\ call'[t].subject = call[t].subject
        /\ call'[t].old = {s \in sessions : s.uid = call[t].uid}
        /\ \A q \in Threads \ {t} : call'[q] = call[q]
    BY <1>t, <1>a, <2>1, <2>3 DEF LoginCalls
  <2>5. Doomed'
    BY <1>s, <2>1, DoomedKept
  <2>6. SameSubject' /\ Own'
    BY <1>s, <2>1, <2>2, <2>4 DEF SameSubject, Own, Signing
  <2>7. Claim'
    BY <1>s, <2>1, <2>2, <2>4 DEF Claim
  <2>8. Rotated'
    BY <1>s, <2>1, <2>2, <2>4 DEF Rotated
  <2> QED BY <1>s, <2>1, <2>5, <2>6, <2>7, <2>8 DEF Sound
<1>6. CASE LoginCommit(t)
  <2> DEFINE c == call[t]
             new == [uid |-> c.uid, token |-> c.token]
             id == [subject |-> c.subject, email |-> c.email]
  <2>1. /\ pc[t] = "loginCommit"
        /\ account' = [account EXCEPT ![c.uid] = id]
        /\ sessions' = (sessions \ c.old) \cup {new}
        /\ UNCHANGED <<backup, doomed>> /\ Finish(t)
    BY <1>6 DEF LoginCommit
  <2>2. c \in LoginCalls /\ c.uid \in Uids /\ id \in Identities /\ new.uid = c.uid
    BY <1>t, <2>1 DEF LoginPoints, LoginCalls, Identities, Signing
  <2>3. id # None /\ id.subject = c.subject
    BY <2>2
  <2>4. /\ lockUser' = Release(lockUser, t) /\ lockSubject' = Release(lockSubject, t)
        /\ pc'[t] = "idle"
        /\ \A q \in Threads \ {t} : pc'[q] = pc[q] /\ call'[q] = call[q]
    BY <2>1, <1>t, <1>a DEF Finish, Unlock
  <2>5. /\ account'[c.uid] = id
        /\ \A u \in Uids \ {c.uid} : account'[u] = account[u]
    BY <1>t, <2>1, <2>2
  <2> HIDE DEF c, new, id
  <2>6. Doomed'
    BY <1>s, <1>t, <2>1, <2>4, DoomedKept DEF Release
  <2>7. SameSubject'
    BY <1>s, <2>4 DEF SameSubject, Signing
  <2>8. \A q \in Threads : pc'[q] \in Signing => q # t /\ pc[q] \in Signing /\ call[q].uid \in Uids
    BY <1>t, <2>4 DEF Signing
  <2>9. Own'
    BY <1>s, <2>1, <2>3, <2>4, <2>5, <2>8 DEF Own, SameSubject, Signing, c
  <2>10. ASSUME NEW u \in Uids, account[u] # None, account[u].subject = c.subject
         PROVE  u = c.uid
    BY <1>s, <2>1, <2>2, <2>10 DEF Unique, Own, Claim, Signing, c
  <2>11. Unique(account)'
    BY <1>s, <2>2, <2>3, <2>5, <2>10 DEF Unique
  <2>12. ASSUME NEW q \in Threads, pc'[q] \in {"loginRotate", "loginCommit"}
         PROVE  q # t /\ pc[q] = pc'[q] /\ call'[q] = call[q] /\ call[q].uid # c.uid
                /\ call[q].uid \in Uids /\ call[q].subject \in Subjects
    <3>1. q # t /\ pc[q] = pc'[q] /\ call'[q] = call[q]
      BY <2>4, <2>12
    <3>2. lockUser[call[q].uid] = q /\ lockUser[c.uid] = t
      BY <1>x, <2>1, <2>12, <3>1 DEF c
    <3>3. call[q].uid \in Uids /\ call[q].subject \in Subjects
      BY <1>t, <2>12, <3>1 DEF Signing, LoginPoints, LoginCalls
    <3> QED BY <3>1, <3>2, <3>3
  <2>13. Claim'
    <3> SUFFICES ASSUME NEW q \in Threads, pc'[q] \in {"loginRotate", "loginCommit"},
                        account'[call'[q].uid] = None
                 PROVE  /\ lockSubject'[call'[q].subject] = q
                        /\ \A u \in Uids : account'[u] # None =>
                             account'[u].subject # call'[q].subject
      BY DEF Claim
    <3>1. /\ q # t /\ pc[q] \in {"loginRotate", "loginCommit"} /\ call'[q] = call[q]
          /\ call[q].uid # c.uid /\ call[q].uid \in Uids /\ call[q].subject \in Subjects
      BY <2>12
    <3>2. account[call[q].uid] = None
      BY <2>5, <3>1
    <3>3. /\ lockSubject[call[q].subject] = q
          /\ \A u \in Uids : account[u] # None => account[u].subject # call[q].subject
      BY <1>s, <3>1, <3>2 DEF Claim
    <3>4. lockSubject'[call[q].subject] = q
      BY <1>t, <2>4, <3>1, <3>3 DEF Release
    <3>5. c.subject # call[q].subject
      BY <1>s, <2>1, <2>2, <3>1, <3>3 DEF Own, Claim, Signing, c
    <3> QED BY <2>2, <2>3, <2>5, <3>1, <3>3, <3>4, <3>5
  <2>14. Rotated'
    <3> SUFFICES ASSUME NEW q \in Threads, pc'[q] = "loginCommit", NEW s \in sessions',
                        s.uid = call'[q].uid
                 PROVE  s \in call'[q].old
      BY DEF Rotated
    <3>1. pc[q] = "loginCommit" /\ call'[q] = call[q] /\ call[q].uid # c.uid
      BY <2>12
    <3>2. s \in sessions
      BY <2>1, <2>2, <3>1
    <3> QED BY <1>s, <3>1, <3>2 DEF Rotated
  <2>15. Single(sessions)'
    <3>1. \A s \in sessions : s.uid = c.uid => s \in c.old
      BY <1>s, <2>1 DEF Rotated, c
    <3>2. \A s \in sessions \ c.old : s \in sessions /\ s.uid # new.uid
      BY <2>2, <3>1
    <3> QED BY <1>s, <2>1, <3>2 DEF Single
  <2> QED BY <1>s, <2>1, <2>6, <2>7, <2>9, <2>11, <2>13, <2>14, <2>15 DEF Sound
<1> QED BY <1>1, <1>2, <1>3, <1>4, <1>5, <1>6
LEMMA DeleteSessions ==
  ASSUME SessionInv, DeletionInv', NEW t \in Threads,
         \/ \E u \in Uids : Delete(t, u)
         \/ DeleteUser(t) \/ DeleteRecord(t) \/ DeleteInvite(t) \/ DeleteCommit(t)
         \/ LockTimeout(t) \/ DatabaseError(t)
  PROVE  Sound'
<1> USE AccountsAssumption DEF rows, locks, external, local, replay
<1>s. /\ Doomed /\ SameSubject /\ Own /\ Claim /\ Rotated
      /\ Unique(account) /\ Single(sessions)
      /\ Unique(backup.account) /\ Single(backup.sessions)
  BY DEF SessionInv, Sound
<1>t. /\ pc \in [Actors -> Points] /\ lockUser \in [Uids -> Actors \cup {None}]
      /\ lockSubject \in [Subjects -> Actors \cup {None}]
      /\ call \in [Actors -> LoginCalls \cup DeleteCalls \cup {None}]
      /\ account \in [Uids -> Identities \cup {None}]
      /\ doomed.users \subseteq Uids
      /\ \A q \in Threads : pc[q] \in LoginPoints => call[q] \in LoginCalls
      /\ \A q \in Threads : pc[q] \in Signing => call[q].uid \in Uids
  BY DEF SessionInv, DeletionInv, Tombstones, TypeOK, RowsOK, ThreadsOK, LocksOK, MaintOK, Points,
         Signing
<1>a. t \in Actors /\ Threads \subseteq Actors
  BY DEF Actors
<1>p. {"deleteUser", "deleteRecord", "deleteInvite", "deleteCommit"} \cap Signing = {}
  BY DEF Signing
<1>1. ASSUME NEW u \in Uids, Delete(t, u) PROVE Sound'
  <2>1. /\ pc' = [pc EXCEPT ![t] = "deleteUser"]
        /\ \A q \in Threads \ {t} : call'[q] = call[q]
        /\ UNCHANGED <<lockSubject, lockUser, doomed, account, backup, sessions>>
    BY <1>1, <1>t, <1>a DEF Delete, Goto
  <2>2. Doomed'
    BY <1>s, <2>1, DoomedKept
  <2> QED BY <1>p, <2>1, <2>2, MoveKeeps
<1>2. CASE DeleteUser(t)
  <2>1. CASE Finish(t)
    BY <1>2, <2>1, FinishKeeps DEF DeleteUser
  <2>2. CASE /\ lockUser' = Take(lockUser, call[t].uid, t)
             /\ call' = [call EXCEPT ![t].email = account[call[t].uid].email]
             /\ Goto(t, "deleteRecord") /\ UNCHANGED lockSubject
    <3>1. /\ UNCHANGED <<account, backup, sessions, doomed>> /\ lockUser[call[t].uid] = None
      BY <1>2 DEF DeleteUser, Free
    <3>2. \A u \in doomed.users : lockUser[u] = Maint => lockUser'[u] = Maint
      BY <1>t, <2>2, <3>1 DEF Take, Actors
    <3>3. Doomed'
      BY <1>s, <3>1, <3>2, DoomedKept
    <3>4. \A q \in Threads \ {t} : call'[q] = call[q]
      BY <1>t, <1>a, <2>2
    <3> QED BY <1>p, <2>2, <3>1, <3>3, <3>4, MoveKeeps DEF Goto
  <2> QED BY <1>2, <2>1, <2>2 DEF DeleteUser
<1>3. CASE DeleteRecord(t)
  <2>1. CASE Finish(t)
    BY <1>3, <2>1, FinishKeeps DEF DeleteRecord
  <2>2. CASE Goto(t, "deleteInvite") /\ UNCHANGED <<lockUser, lockSubject, call>>
    <3>1. UNCHANGED <<account, backup, sessions, doomed>>
      BY <1>3 DEF DeleteRecord
    <3>2. Doomed'
      BY <1>s, <2>2, <3>1, DoomedKept
    <3> QED BY <1>p, <2>2, <3>1, <3>2, MoveKeeps DEF Goto
  <2> QED BY <1>3, <2>1, <2>2 DEF DeleteRecord
<1>4. CASE DeleteInvite(t)
  <2>1. /\ UNCHANGED <<account, backup, sessions, doomed, lockUser, lockSubject, call>>
        /\ pc' = [pc EXCEPT ![t] = "deleteCommit"]
    BY <1>4 DEF DeleteInvite, Goto
  <2>2. Doomed'
    BY <1>s, <2>1, DoomedKept
  <2> QED BY <1>p, <2>1, <2>2, MoveKeeps
<1>5. CASE DeleteCommit(t)
  <2> DEFINE d == call[t].uid
  <2>1. /\ pc[t] = "deleteCommit" /\ Finish(t) /\ UNCHANGED <<backup, doomed>>
        /\ account' = [u \in Uids |-> IF u \in {d} THEN None ELSE account[u]]
        /\ sessions' = {s \in sessions : s.uid \notin {d}}
    BY <1>5 DEF DeleteCommit, Remove
  <2>2. /\ lockUser' = Release(lockUser, t) /\ lockSubject' = Release(lockSubject, t)
        /\ pc'[t] = "idle"
        /\ \A q \in Threads \ {t} : pc'[q] = pc[q] /\ call'[q] = call[q]
    BY <2>1, <1>t, <1>a DEF Finish, Unlock
  <2>3. lockUser[d] = t
    BY <2>1 DEF SessionInv, DeletionInv, Exclusive
  <2>4. \A q \in Threads \ {t} :
          pc[q] \in {"loginRotate", "loginCommit"} => call[q].uid # d /\ call[q].uid \in Uids
    BY <1>t, <2>3 DEF SessionInv, DeletionInv, Exclusive, Signing
  <2> HIDE DEF d
  <2>5. Doomed'
    <3>1. \A u \in doomed.users : lockUser[u] = Maint => lockUser'[u] = Maint
      BY <1>t, <2>2 DEF Release
    <3> QED BY <1>s, <2>1, <3>1, DoomedKept
  <2>6. SameSubject'
    BY <1>s, <2>2 DEF SameSubject, Signing
  <2>7. \A u \in Uids : account'[u] = IF u = d THEN None ELSE account[u]
    BY <2>1
  <2>8. Own'
    BY <1>s, <1>t, <2>2, <2>7 DEF Own, Signing
  <2>9. \A q \in Threads : pc[q] \in Signing => call[q].subject \in Subjects
    BY <1>t DEF Signing, LoginPoints, LoginCalls
  <2>10. \A q \in Threads \ {t}, x \in Subjects : lockSubject[x] = q => lockSubject'[x] = q
    BY <1>t, <2>2 DEF Release
  <2>11. Claim'
    BY <1>s, <2>2, <2>4, <2>7, <2>9, <2>10 DEF Claim, Signing
  <2>12. Rotated'
    BY <1>s, <2>1, <2>2 DEF Rotated
  <2>13. Unique(account)' /\ Single(sessions)'
    BY <1>s, <2>1, <2>7 DEF Unique, Single
  <2> QED BY <1>s, <2>1, <2>5, <2>6, <2>8, <2>11, <2>12, <2>13 DEF Sound
<1>6. CASE LockTimeout(t)
  BY <1>6, FinishKeeps DEF LockTimeout
<1>7. CASE DatabaseError(t)
  BY <1>7, FinishKeeps DEF DatabaseError
<1> QED BY <1>1, <1>2, <1>3, <1>4, <1>5, <1>6, <1>7

LEMMA TaskSessions ==
  ASSUME SessionInv, DeletionInv', MaintStep \/ MaintTimeout \/ MaintError
  PROVE  Sound'
<1> USE AccountsAssumption DEF rows, locks, external, local, replay
<1>s. /\ Doomed /\ SameSubject /\ Own /\ Claim /\ Rotated
      /\ Unique(account) /\ Single(sessions)
      /\ Unique(backup.account) /\ Single(backup.sessions)
  BY DEF SessionInv, Sound
<1>t. /\ pc \in [Actors -> Points] /\ lockUser \in [Uids -> Actors \cup {None}]
      /\ lockSubject \in [Subjects -> Actors \cup {None}]
      /\ call \in [Actors -> LoginCalls \cup DeleteCalls \cup {None}]
      /\ doomed \in [invites : SUBSET Emails, users : SUBSET Uids]
      /\ \A q \in Threads : pc[q] \in LoginPoints => call[q] \in LoginCalls
      /\ \A q \in Threads : pc[q] \in Signing => call[q].uid \in Uids
  BY DEF SessionInv, DeletionInv, TypeOK, RowsOK, ThreadsOK, LocksOK, MaintOK, Points, Signing
<1>a. Maint \in Actors /\ Threads \subseteq Actors /\ Maint \notin Threads
  BY DEF Actors
<1>1. ASSUME NEW p, Goto(Maint, p),
             \A q \in Threads : call'[q] = call[q],
             UNCHANGED <<account, backup, lockUser, lockSubject, doomed>>,
             sessions' \subseteq sessions
      PROVE  Sound'
  <2>1. Doomed'
    BY <1>1, <1>s, DoomedKept
  <2>2. \A q \in Threads : pc'[q] = pc[q]
    BY <1>1, <1>t, <1>a DEF Goto
  <2> QED BY <1>1, <2>1, <2>2, TaskKeeps
<1>2. ASSUME MaintFails, UNCHANGED rows, UNCHANGED backup PROVE Sound'
  <2>1. doomed'.users = {}
    BY <1>2 DEF MaintFails, NoRows
  <2>2. Doomed'
    BY <2>1 DEF Doomed
  <2>3. \A q \in Threads : pc'[q] = pc[q] /\ call'[q] = call[q]
    BY <1>2, <1>t, <1>a DEF MaintFails, Finish
  <2>4. \A q \in Threads, s \in Subjects : lockSubject[s] = q => lockSubject'[s] = q
    BY <1>2, <1>t, <1>a DEF MaintFails, Finish, Unlock, Release
  <2> QED BY <1>2, <2>2, <2>3, <2>4, TaskKeeps
<1>3. CASE MaintTimer
  BY <1>1, <1>3 DEF MaintTimer
<1>4. CASE MaintRead
  BY <1>1, <1>2, <1>4 DEF MaintRead
<1>5. CASE MaintPick
  <2>1. /\ UNCHANGED <<account, backup, lockUser, lockSubject, doomed, sessions>>
        /\ \A q \in Threads : pc'[q] = pc[q] /\ call'[q] = call[q]
    BY <1>5, <1>t, <1>a DEF MaintPick, Goto
  <2>2. Doomed'
    BY <1>s, <2>1, DoomedKept
  <2> QED BY <2>1, <2>2, TaskKeeps
<1>6. CASE MaintInvite
  <2>1. /\ UNCHANGED <<account, backup, lockUser, lockSubject, sessions, call>>
        /\ \A q \in Threads : pc'[q] = pc[q]
    BY <1>6, <1>t, <1>a DEF MaintInvite, Goto
  <2>2. doomed'.users = doomed.users
    BY <1>6, <1>t DEF MaintInvite
  <2>3. Doomed'
    BY <1>s, <2>1, <2>2 DEF Doomed
  <2> QED BY <2>1, <2>3, TaskKeeps
<1>7. CASE MaintUser
  <2>1. /\ UNCHANGED <<account, backup, lockSubject, sessions, call>>
        /\ \A q \in Threads : pc'[q] = pc[q]
    BY <1>7, <1>t, <1>a DEF MaintUser, Goto
  <2>2. doomed'.users = doomed.users \cup ({call[Maint].uid} \cap Live)
    BY <1>7, <1>t DEF MaintUser
  <2>3. /\ lockUser' = IF call[Maint].uid \in Live THEN Take(lockUser, call[Maint].uid, Maint)
                       ELSE lockUser
        /\ Live \subseteq Uids
    BY <1>7 DEF MaintUser, Live
  <2>4. Doomed'
    BY <1>s, <1>t, <2>2, <2>3 DEF Doomed, Take
  <2> QED BY <2>1, <2>4, TaskKeeps
<1>8. CASE MaintCommit
  <2> DEFINE D == doomed.users
  <2>1. /\ account' = [u \in Uids |-> IF u \in D THEN None ELSE account[u]]
        /\ sessions' = {s \in sessions : s.uid \notin D}
        /\ backup' = backup /\ doomed' = NoRows
    BY <1>8 DEF MaintCommit, Remove
  <2>2. /\ \A q \in Threads : pc'[q] = pc[q] /\ call'[q] = call[q]
        /\ \A q \in Threads, s \in Subjects : lockSubject[s] = q => lockSubject'[s] = q
    BY <1>8, <1>t, <1>a DEF MaintCommit, Unlock, Release, Goto
  <2>3. \A q \in Threads :
          pc[q] \in {"loginRotate", "loginCommit"} => call[q].uid \notin D /\ call[q].uid \in Uids
    BY <1>s, <1>t, <1>a DEF SessionInv, DeletionInv, Exclusive, Doomed, Signing
  <2> HIDE DEF D
  <2>4. Doomed'
    BY <2>1 DEF Doomed, NoRows
  <2>5. SameSubject'
    BY <1>s, <2>2 DEF SameSubject
  <2>6. \A u \in Uids : account'[u] = IF u \in D THEN None ELSE account[u]
    BY <2>1
  <2>7. Own'
    BY <1>s, <1>t, <2>2, <2>6 DEF Own
  <2>8. \A q \in Threads : pc[q] \in Signing => call[q].subject \in Subjects
    BY <1>t DEF Signing, LoginPoints, LoginCalls
  <2>9. Claim'
    BY <1>s, <2>2, <2>3, <2>6, <2>8 DEF Claim, Signing
  <2>10. Rotated'
    BY <1>s, <2>1, <2>2 DEF Rotated
  <2>11. Unique(account)' /\ Single(sessions)'
    BY <1>s, <2>1, <2>6 DEF Unique, Single
  <2> QED BY <1>s, <2>1, <2>4, <2>5, <2>7, <2>9, <2>10, <2>11 DEF Sound
<1>9. CASE MaintSweep
  BY <1>1, <1>9 DEF MaintSweep
<1>10. CASE MaintTimeout \/ MaintError
  BY <1>2, <1>10 DEF MaintTimeout, MaintError
<1> QED BY <1>3, <1>4, <1>5, <1>6, <1>7, <1>8, <1>9, <1>10 DEF MaintStep

LEMMA HostSessions ==
  ASSUME SessionInv, DeletionInv',
         \/ \E s \in sessions : Logout(s)
         \/ \E e \in Emails : Invite(e)
         \/ Start \/ Crash \/ Backup \/ Restore \/ UNCHANGED vars
  PROVE  Sound'
<1> USE AccountsAssumption DEF rows, locks, external, local, replay
<1>s. /\ Doomed /\ SameSubject /\ Own /\ Claim /\ Rotated
      /\ Unique(account) /\ Single(sessions)
      /\ Unique(backup.account) /\ Single(backup.sessions)
  BY DEF SessionInv, Sound
<1>t. pc \in [Actors -> Points] /\ Threads \subseteq Actors /\ Maint \notin Threads
  BY DEF SessionInv, DeletionInv, TypeOK, ThreadsOK, Points, Actors
<1>1. ASSUME UNCHANGED <<account, backup, lockUser, lockSubject, call, doomed>>,
             sessions' \subseteq sessions, \A q \in Threads : pc'[q] = pc[q]
      PROVE  Sound'
  <2>1. Doomed'
    BY <1>1, <1>s, DoomedKept
  <2> QED BY <1>1, <2>1, TaskKeeps
<1>2. ASSUME NEW s \in sessions, Logout(s) PROVE Sound'
  BY <1>1, <1>2 DEF Logout
<1>3. ASSUME NEW e \in Emails, Invite(e) PROVE Sound'
  BY <1>1, <1>3 DEF Invite
<1>4. CASE Start
  <2>1. \A q \in Threads : pc'[q] = pc[q]
    BY <1>4, <1>t DEF Start, Goto
  <2> QED BY <1>1, <1>4, <2>1 DEF Start
<1>5. CASE Crash
  <2>1. /\ doomed'.users = {} /\ UNCHANGED <<account, backup, sessions>>
        /\ \A q \in Threads : pc'[q] = "idle"
    BY <1>5, <1>t DEF Crash, NoRows
  <2>2. Doomed'
    BY <2>1 DEF Doomed
  <2>3. \A q \in Threads : pc'[q] \notin Signing
    BY <2>1 DEF Signing
  <2>4. {} \in SUBSET Threads /\ Threads \ {} = Threads
    OBVIOUS
  <2> QED BY <2>1, <2>2, <2>3, <2>4, Keeps
<1>6. CASE Backup
  <2>1. /\ backup'.account = account /\ backup'.sessions = sessions
        /\ UNCHANGED <<account, sessions, doomed, lockUser, lockSubject, pc, call>>
    BY <1>6 DEF Backup
  <2>2. Doomed' /\ SameSubject' /\ Own' /\ Claim' /\ Rotated'
    BY <1>s, <2>1 DEF Doomed, SameSubject, Own, Claim, Rotated
  <2> QED BY <1>s, <2>1, <2>2 DEF Sound, Unique, Single
<1>7. CASE Restore
  <2>1. /\ account' = backup.account /\ sessions' = backup.sessions
        /\ UNCHANGED <<backup, doomed, lockUser, lockSubject, pc, call>>
        /\ \A q \in Threads : pc[q] = "idle"
    BY <1>7 DEF Restore, SessionInv, DeletionInv, Quiet
  <2>2. Doomed'
    BY <1>s, <2>1, DoomedKept
  <2>3. SameSubject' /\ Own' /\ Claim' /\ Rotated'
    BY <2>1 DEF SameSubject, Own, Claim, Rotated, Signing
  <2> QED BY <1>s, <2>1, <2>2, <2>3 DEF Sound, Unique, Single
<1>8. CASE UNCHANGED vars
  BY <1>1, <1>8 DEF vars
<1> QED BY <1>2, <1>3, <1>4, <1>5, <1>6, <1>7, <1>8

LEMMA SessionInvariant == Spec => []SessionInv
<1>1. Init => SessionInv
  <2> SUFFICES ASSUME Init PROVE SessionInv
    OBVIOUS
  <2>1. DeletionInv
    BY InitDeletion
  <2>2. Doomed
    BY DEF Init, NoRows, Doomed
  <2>3. \A t \in Threads : pc[t] = "idle"
    BY DEF Init, Actors
  <2>4. SameSubject /\ Own /\ Claim /\ Rotated
    BY <2>3 DEF SameSubject, Own, Claim, Rotated, Signing
  <2>5. /\ Unique(account) /\ Single(sessions)
        /\ Unique(backup.account) /\ Single(backup.sessions)
    BY DEF Init, Unique, Single
  <2> QED BY <2>1, <2>2, <2>4, <2>5 DEF SessionInv, Sound
<1>2. SessionInv /\ [Next]_vars => SessionInv'
  <2> SUFFICES ASSUME SessionInv, [Next]_vars PROVE SessionInv'
    OBVIOUS
  <2>1. DeletionInv'
    BY NextDeletion DEF SessionInv
  <2>2. Sound'
    BY <2>1, LoginSessions, DeleteSessions, TaskSessions, HostSessions DEF Next, ThreadStep
  <2> QED BY <2>1, <2>2 DEF SessionInv
<1> QED BY <1>1, <1>2, PTL DEF Spec

\* However sign-ins, deletions, crashes and restores interleave, a Google account
\* has one user and a user has one session.
THEOREM OneSessionTheorem == Spec => []OneSession
<1>1. SessionInv => OneSession
  <2> SUFFICES ASSUME SessionInv PROVE OneSession
    OBVIOUS
  <2>1. ASSUME NEW s \in Subjects PROVE Cardinality(Owned(s)) <= 1
    <3>1. CASE Owned(s) = {}
      BY <3>1, FS_EmptySet
    <3>2. CASE Owned(s) # {}
      <4>1. PICK u : u \in Owned(s)
        BY <3>2
      <4>2. Owned(s) = {u}
        BY <4>1 DEF SessionInv, Sound, Unique, Owned, Live
      <4> QED BY <4>2, FS_Singleton
    <3> QED BY <3>1, <3>2
  <2>2. \A a, b \in sessions : a.uid = b.uid => a = b
    BY DEF SessionInv, Sound, Single
  <2> QED BY <2>1, <2>2 DEF OneSession
<1> QED BY <1>1, SessionInvariant, PTL
=============================================================================
