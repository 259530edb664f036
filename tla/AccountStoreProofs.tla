-------------------------- MODULE AccountStoreProofs --------------------------
(* Theorems about AccountStore, for every value of its constants: its types, and,
   for ids that are not created again, the refinement of AccountRegister. *)
EXTENDS AccountStore, TLAPS

(* The call of an update names its section; every other kind has none. *)
LEMMA OpKinds ==
  ASSUME TypeOK, NEW c \in Callers
  PROVE  /\ op[c] = Register!NoOp \/ op[c] \in Register!Ops
         /\ op[c].kind \in {"none", "update", "create", "delete", "read", "list"}
         /\ op[c].kind = "none" <=> op[c] = Register!NoOp
         /\ op[c].kind = "update" => op[c].section \in Sections
BY DEF TypeOK, Register!Ops, Register!NoOp

(* What the steps write to the file and hand back is well-formed. *)
LEMMA UpdateType ==
  ASSUME NEW a \in Register!Accounts \cup {None}, NEW s \in Sections, NEW c \in Callers
  PROVE  /\ Register!Update(a, s, c) \in Register!Accounts \cup {None}
         /\ a # None => Register!Update(a, s, c) \in Register!Accounts
BY DEF Register!Update, Register!Accounts

LEMMA ResultTypes ==
  /\ Register!Fresh \in Register!Accounts
  /\ Register!Pending \in Register!Result /\ Register!Ok \in Register!Result
  /\ Register!Error \in Register!Result
  /\ \A a \in Register!Accounts : [is |-> "read", account |-> a] \in Register!Result
BY DEF Register!Fresh, Register!Accounts, Register!Pending, Register!Ok, Register!Error,
       Register!Result

LEMMA InitTyped ==
  ASSUME Init
  PROVE  TypeOK
<1>1. file \in Register!Accounts \cup {None} /\ lockOf \in 0..MaxLocks /\ made \in 0..MaxLocks
  BY ResultTypes, MaxLocksAssumption DEF Init
<1>2. op \in [Callers -> Register!Ops \cup {Register!NoOp}] /\ result \in [Callers -> Register!Result]
  BY ResultTypes DEF Init
<1> QED
  BY <1>1, <1>2, MaxLocksAssumption DEF Init, TypeOK, Locks

(* The variables have their types (and nobody reads under a lock held for writing). *)
LEMMA StoreTyped == Spec => []TypeOK
<1>1. Init => TypeOK
  BY InitTyped
<1>2. TypeOK /\ [Next]_vars => TypeOK'
  <2> SUFFICES ASSUME TypeOK, [Next]_vars
               PROVE  TypeOK'
    OBVIOUS
  <2> USE MaxLocksAssumption, ResultTypes DEF TypeOK, Goto, Answer, Locks, lockVars
  <2>1. CASE Crash
    BY <2>1 DEF Crash
  <2>2. ASSUME NEW c \in Callers, NEW o \in Register!Ops, Call(c, o)
        PROVE  TypeOK'
    BY <2>2 DEF Call
  <2>3. ASSUME NEW c \in Callers, GetLock(c)
        PROVE  TypeOK'
    BY <2>3 DEF GetLock
  <2>4. ASSUME NEW c \in Callers, Acquire(c)
        PROVE  TypeOK'
    <3>1. /\ writer' \in [Locks -> Callers \cup {None}]
          /\ readers' \in [Locks -> SUBSET Callers]
      <4>1. CASE Exclusive(c)
        BY <2>4, <4>1 DEF Acquire
      <4>2. CASE ~Exclusive(c)
        <5>1. writer' = writer /\ readers' = [readers EXCEPT ![on[c]] = @ \cup {c}]
          BY <2>4, <4>2 DEF Acquire
        <5>2. \A k \in Locks : readers'[k] \in SUBSET Callers
          BY <5>1
        <5> QED
          BY <5>1, <5>2
      <4> QED
        BY <4>1, <4>2
    <3>2. \A k \in Locks : writer'[k] # None => readers'[k] = {}
      BY <2>4 DEF Acquire
    <3>3. pc' \in [Callers -> {"idle", "lock", "wait", "read", "open", "fill", "rename", "unlock",
                               "forget", "return"}]
      BY <2>4 DEF Acquire
    <3> QED
      BY <2>4, <3>1, <3>2, <3>3 DEF Acquire
  <2>5. ASSUME NEW c \in Callers, Unlock(c)
        PROVE  TypeOK'
    BY <2>5 DEF Unlock
  <2>6. ASSUME NEW c \in Callers, Forget(c) \/ Return(c)
        PROVE  TypeOK'
    <3>1. CASE Forget(c)
      BY <3>1 DEF Forget
    <3>2. CASE Return(c)
      BY <3>2 DEF Return
    <3> QED
      BY <2>6, <3>1, <3>2
  <2>7. ASSUME NEW c \in Callers, Read(c) \/ New(c) \/ Remove(c)
        PROVE  TypeOK'
    <3>1. CASE Read(c)
      BY <3>1 DEF Read
    <3>2. CASE New(c)
      BY <3>2 DEF New
    <3>3. CASE Remove(c)
      BY ZenonT(60), <3>3 DEF Remove
    <3> QED
      BY <2>7, <3>1, <3>2, <3>3
  <2>8. ASSUME NEW c \in Callers, Modify(c)
        PROVE  TypeOK'
    <3>1. CASE file = None
      BY <2>8, <3>1 DEF Modify
    <3>2. CASE file # None
      <4>1. Register!Update(file, op[c].section, c) \in Register!Accounts
        BY <2>8, <3>2, OpKinds, UpdateType DEF Modify
      <4> QED
        BY SMTT(60), <2>8, <3>2, <4>1 DEF Modify
    <3> QED
      BY <3>1, <3>2
  <2>9. ASSUME NEW c \in Callers, OpenTmp(c) \/ FillTmp(c) \/ Rename(c) \/ WriteFailed(c)
        PROVE  TypeOK'
    <3>1. CASE OpenTmp(c) \/ FillTmp(c)
      BY ZenonT(60), <3>1 DEF OpenTmp, FillTmp
    <3>2. CASE Rename(c)
      BY <3>2 DEF Rename
    <3>3. CASE WriteFailed(c)
      BY <3>3 DEF WriteFailed
    <3> QED
      BY <2>9, <3>1, <3>2, <3>3
  <2>10. CASE UNCHANGED vars
    BY <2>10 DEF vars
  <2> QED
    BY <2>1, <2>2, <2>3, <2>4, <2>5, <2>6, <2>7, <2>8, <2>9, <2>10 DEF Next, Work
<1> QED
  BY <1>1, <1>2, PTL DEF Spec

-----------------------------------------------------------------------------
(* What a caller has reached *)

(* Under the lock for writing; between the check of the file and its replacement *)
Alone(c) == op[c].kind \in {"update", "create", "delete"}
              /\ pc[c] \in {"read", "open", "fill", "rename", "unlock"}
Writing(c) == pc[c] \in {"open", "fill", "rename"}

(* Each caller's locals are those of its place in the call: it has a result once the
   work is done, and a lock from get_lock to the release. *)
PathInv(c) ==
  /\ op[c] = Register!NoOp <=> pc[c] = "idle"
  /\ result[c] = Register!Pending <=> pc[c] \notin {"unlock", "forget", "return"}
  /\ on[c] <= made
  /\ pc[c] = "wait" \/ Alone(c) => on[c] # 0
  /\ pc[c] = "forget" => op[c].kind = "delete" /\ result[c] = Register!Ok
  /\ pc[c] \in {"lock", "wait"} => op[c].kind # "list"

(* Who works on the file for writing holds the write guard of the lock it uses. *)
GuardInv(c) == Alone(c) => writer[on[c]] = c

(* What is about to be written is still the change of what the file holds. *)
CopyInv(c) == Writing(c) =>
  \/ op[c].kind = "create" /\ file = None /\ copy[c] = Register!Fresh
  \/ /\ op[c].kind = "update" /\ file # None
     /\ copy[c] = Register!Update(file, op[c].section, c)

(* Without Recreate, no call creates an id while another one deletes it or after a lock
   of it has been forgotten, and then there is no file. *)
Gone == made >= 2 \/ lockOf # made
DeletedInv ==
  /\ lockOf \in {0, made}
  /\ Gone => file = None /\ Nobody("create")
  /\ \A c \in Callers : op[c].kind = "delete" /\ result[c] = Register!Ok => file = None
  /\ Nobody("create") \/ Nobody("delete")

CallerInv(c) == PathInv(c) /\ GuardInv(c) /\ CopyInv(c)
StoreInv == TypeOK /\ DeletedInv /\ \A c \in Callers : CallerInv(c)

(* The results a call may have are not the pending one. *)
LEMMA Results ==
  /\ \A a : [is |-> "read", account |-> a] # Register!Pending
            /\ [is |-> "read", account |-> a] # Register!Ok
  /\ Register!Pending # Register!Ok /\ Register!Pending # Register!Error
  /\ Register!Ok # Register!Error
BY DEF Register!Pending, Register!Ok, Register!Error

(* Mutual exclusion: while one caller has checked the file and not yet replaced it,
   nobody else is under a lock for writing, not even an older or a newer one. *)
LEMMA WritesAlone ==
  ASSUME StoreInv, NEW c \in Callers, Writing(c), NEW d \in Callers, Alone(d)
  PROVE  c = d /\ ~Gone
<1>1. CallerInv(c) /\ CallerInv(d) /\ DeletedInv /\ TypeOK
  BY DEF StoreInv
<1>2. ~Gone
  BY <1>1 DEF CallerInv, CopyInv, DeletedInv, Nobody
<1>3. Alone(c)
  BY <1>1 DEF CallerInv, CopyInv, Alone, Writing
<1>4. /\ on[c] \in 1..made /\ on[d] \in 1..made
      /\ made \in Nat
  BY <1>1, <1>3, MaxLocksAssumption DEF CallerInv, PathInv, TypeOK
<1>5. on[c] = on[d]
  BY <1>2, <1>4 DEF Gone
<1> QED
  BY <1>1, <1>2, <1>3, <1>5 DEF CallerInv, GuardInv

-----------------------------------------------------------------------------
(* The steps *)

(* A create begins only while no lock has been forgotten and nobody deletes. *)
LEMMA CallStep ==
  ASSUME StoreInv, TypeOK', ~Recreate, NEW c \in Callers, NEW o \in Register!Ops, Call(c, o)
  PROVE  StoreInv'
<1>1. DeletedInv'
  BY Results DEF StoreInv, DeletedInv, Call, Gone, Nobody, lockVars, TypeOK, Register!Ops,
    CallerInv, PathInv
<1>2. \A d \in Callers : CallerInv(d)'
  <2> SUFFICES ASSUME NEW d \in Callers
               PROVE  CallerInv(d)'
    OBVIOUS
  <2>1. CASE d = c
    BY <2>1 DEF StoreInv, CallerInv, PathInv, GuardInv, CopyInv, Alone, Writing, Call, Goto,
      lockVars, TypeOK, Register!Ops, Register!NoOp
  <2>2. CASE d # c
    BY <2>2 DEF StoreInv, CallerInv, PathInv, GuardInv, CopyInv, Alone, Writing, Call, Goto,
      lockVars, TypeOK
  <2> QED
    BY <2>1, <2>2
<1> QED
  BY <1>1, <1>2 DEF StoreInv

(* get_lock makes the next lock or finds the last one. *)
LEMMA GetLockStep ==
  ASSUME StoreInv, TypeOK', NEW c \in Callers, GetLock(c)
  PROVE  StoreInv'
<1>1. DeletedInv'
  BY MaxLocksAssumption DEF StoreInv, DeletedInv, Gone, Nobody, lockVars, TypeOK, GetLock, Goto
<1>2. \A d \in Callers : CallerInv(d)'
  <2> SUFFICES ASSUME NEW d \in Callers
               PROVE  CallerInv(d)'
    OBVIOUS
  <2>1. CASE d = c
    BY MaxLocksAssumption, <2>1 DEF StoreInv, CallerInv, PathInv, GuardInv, CopyInv, Alone,
      Writing, Goto, Answer, lockVars, TypeOK, GetLock, DeletedInv
  <2>2. CASE d # c
    BY MaxLocksAssumption, <2>2 DEF StoreInv, CallerInv, PathInv, GuardInv, CopyInv, Alone,
      Writing, Goto, Answer, lockVars, TypeOK, GetLock, DeletedInv
  <2> QED
    BY <2>1, <2>2
<1> QED
  BY <1>1, <1>2 DEF StoreInv

(* The write guard is given to one caller at a time. *)
LEMMA AcquireStep ==
  ASSUME StoreInv, TypeOK', NEW c \in Callers, Acquire(c)
  PROVE  StoreInv'
<1>1. DeletedInv'
  BY DEF StoreInv, DeletedInv, Gone, Nobody, lockVars, TypeOK, Acquire
<1>2. \A d \in Callers : CallerInv(d)'
  <2> SUFFICES ASSUME NEW d \in Callers
               PROVE  CallerInv(d)'
    OBVIOUS
  <2>1. CASE d = c
    BY MaxLocksAssumption, OpKinds, <2>1 DEF StoreInv, CallerInv, PathInv, GuardInv, CopyInv,
      Alone, Writing, Goto, Answer, lockVars, TypeOK, Acquire, Exclusive, Locks
  <2>2. CASE d # c
    BY MaxLocksAssumption, CallersAssumption, OpKinds, <2>2 DEF StoreInv, CallerInv, PathInv,
      GuardInv, CopyInv, Alone, Writing, Goto, Answer, lockVars, TypeOK, Acquire, Exclusive,
      Locks
  <2> QED
    BY <2>1, <2>2
<1> QED
  BY <1>1, <1>2 DEF StoreInv

(* The release takes back the caller's own guards only. *)
LEMMA UnlockStep ==
  ASSUME StoreInv, TypeOK', NEW c \in Callers, Unlock(c)
  PROVE  StoreInv'
<1>1. DeletedInv'
  BY DEF StoreInv, DeletedInv, Gone, Nobody, lockVars, TypeOK, Unlock
<1>2. \A d \in Callers : CallerInv(d)'
  <2> SUFFICES ASSUME NEW d \in Callers
               PROVE  CallerInv(d)'
    OBVIOUS
  <2>1. CASE d = c
    BY MaxLocksAssumption, CallersAssumption, Results, <2>1 DEF StoreInv, CallerInv, PathInv,
      GuardInv, CopyInv, Alone, Writing, Goto, Answer, lockVars, TypeOK, Unlock, Locks
  <2>2. CASE d # c
    BY MaxLocksAssumption, CallersAssumption, Results, <2>2 DEF StoreInv, CallerInv, PathInv,
      GuardInv, CopyInv, Alone, Writing, Goto, Answer, lockVars, TypeOK, Unlock, Locks
  <2> QED
    BY <2>1, <2>2
<1> QED
  BY <1>1, <1>2 DEF StoreInv

(* A lock is forgotten once its file is gone. *)
LEMMA ForgetStep ==
  ASSUME StoreInv, TypeOK', NEW c \in Callers, Forget(c)
  PROVE  StoreInv'
<1>1. DeletedInv'
  BY DEF StoreInv, DeletedInv, Gone, Nobody, lockVars, TypeOK, Forget, CallerInv, PathInv
<1>2. \A d \in Callers : CallerInv(d)'
  <2> SUFFICES ASSUME NEW d \in Callers
               PROVE  CallerInv(d)'
    OBVIOUS
  <2>1. CASE d = c
    BY <2>1 DEF StoreInv, CallerInv, PathInv, GuardInv, CopyInv, Alone, Writing, Goto, Answer,
      lockVars, TypeOK, Forget
  <2>2. CASE d # c
    BY <2>2 DEF StoreInv, CallerInv, PathInv, GuardInv, CopyInv, Alone, Writing, Goto, Answer,
      lockVars, TypeOK, Forget
  <2> QED
    BY <2>1, <2>2
<1> QED
  BY <1>1, <1>2 DEF StoreInv

(* A call that has returned is over. *)
LEMMA ReturnStep ==
  ASSUME StoreInv, TypeOK', NEW c \in Callers, Return(c)
  PROVE  StoreInv'
<1>1. DeletedInv'
  BY Results, OpKinds DEF StoreInv, DeletedInv, Gone, Nobody, lockVars, TypeOK, Return,
    Answer, Register!NoOp
<1>2. \A d \in Callers : CallerInv(d)'
  <2> SUFFICES ASSUME NEW d \in Callers
               PROVE  CallerInv(d)'
    OBVIOUS
  <2>1. CASE d = c
    BY Results, <2>1 DEF StoreInv, CallerInv, PathInv, GuardInv, CopyInv, Alone, Writing,
      Goto, Answer, lockVars, TypeOK, Return
  <2>2. CASE d # c
    BY Results, <2>2 DEF StoreInv, CallerInv, PathInv, GuardInv, CopyInv, Alone, Writing,
      Goto, Answer, lockVars, TypeOK, Return
  <2> QED
    BY <2>1, <2>2
<1> QED
  BY <1>1, <1>2 DEF StoreInv

(* A read or a list changes nothing but its own result. *)
LEMMA ReadStep ==
  ASSUME StoreInv, TypeOK', NEW c \in Callers, Read(c)
  PROVE  StoreInv'
<1>1. DeletedInv'
  BY Results DEF StoreInv, DeletedInv, Gone, Nobody, lockVars, TypeOK, Read, Answer
<1>2. \A d \in Callers : CallerInv(d)'
  <2> SUFFICES ASSUME NEW d \in Callers
               PROVE  CallerInv(d)'
    OBVIOUS
  <2>1. CASE d = c
    BY Results, OpKinds, <2>1 DEF StoreInv, CallerInv, PathInv, GuardInv, CopyInv, Alone,
      Writing, Goto, Answer, lockVars, TypeOK, Read
  <2>2. CASE d # c
    BY Results, OpKinds, <2>2 DEF StoreInv, CallerInv, PathInv, GuardInv, CopyInv, Alone,
      Writing, Goto, Answer, lockVars, TypeOK, Read
  <2> QED
    BY <2>1, <2>2
<1> QED
  BY <1>1, <1>2 DEF StoreInv

(* An update takes its copy of the file under the write guard. *)
LEMMA ModifyStep ==
  ASSUME StoreInv, TypeOK', NEW c \in Callers, Modify(c)
  PROVE  StoreInv'
<1>1. DeletedInv'
  BY Results DEF StoreInv, DeletedInv, Gone, Nobody, lockVars, TypeOK, Modify, Answer
<1>2. \A d \in Callers : CallerInv(d)'
  <2> SUFFICES ASSUME NEW d \in Callers
               PROVE  CallerInv(d)'
    OBVIOUS
  <2>1. CASE d = c
    BY Results, OpKinds, <2>1 DEF StoreInv, CallerInv, PathInv, GuardInv, CopyInv, Alone,
      Writing, Goto, Answer, lockVars, TypeOK, Modify
  <2>2. CASE d # c
    BY Results, OpKinds, <2>2 DEF StoreInv, CallerInv, PathInv, GuardInv, CopyInv, Alone,
      Writing, Goto, Answer, lockVars, TypeOK, Modify
  <2> QED
    BY <2>1, <2>2
<1> QED
  BY <1>1, <1>2 DEF StoreInv

(* write_new checks that there is no file under the write guard. *)
LEMMA NewStep ==
  ASSUME StoreInv, TypeOK', NEW c \in Callers, New(c)
  PROVE  StoreInv'
<1>1. DeletedInv'
  BY Results DEF StoreInv, DeletedInv, Gone, Nobody, lockVars, TypeOK, New, Answer
<1>2. \A d \in Callers : CallerInv(d)'
  <2> SUFFICES ASSUME NEW d \in Callers
               PROVE  CallerInv(d)'
    OBVIOUS
  <2>1. CASE d = c
    BY Results, OpKinds, <2>1 DEF StoreInv, CallerInv, PathInv, GuardInv, CopyInv, Alone,
      Writing, Goto, Answer, lockVars, TypeOK, New
  <2>2. CASE d # c
    BY Results, OpKinds, <2>2 DEF StoreInv, CallerInv, PathInv, GuardInv, CopyInv, Alone,
      Writing, Goto, Answer, lockVars, TypeOK, New
  <2> QED
    BY <2>1, <2>2
<1> QED
  BY <1>1, <1>2 DEF StoreInv

(* A delete that removes the file finds nobody about to replace it. *)
LEMMA RemoveStep ==
  ASSUME StoreInv, TypeOK', NEW c \in Callers, Remove(c)
  PROVE  StoreInv'
<1>1. Alone(c) /\ ~Writing(c)
  BY DEF Remove, Alone, Writing
<1>2. \A d \in Callers : ~Writing(d)
  BY <1>1, WritesAlone
<1>3. DeletedInv'
  BY Results DEF StoreInv, DeletedInv, Gone, Nobody, lockVars, TypeOK, Remove, Answer
<1>4. \A d \in Callers : CallerInv(d)'
  <2> SUFFICES ASSUME NEW d \in Callers
               PROVE  CallerInv(d)'
    OBVIOUS
  <2>1. CASE d = c
    BY Results, <2>1 DEF StoreInv, CallerInv, PathInv, GuardInv, CopyInv, Alone, Writing, Goto,
      Answer, lockVars, TypeOK, Remove
  <2>2. CASE d # c
    BY <1>2, <2>2 DEF StoreInv, CallerInv, PathInv, GuardInv, CopyInv, Alone, Writing, Goto,
      Answer, lockVars, TypeOK, Remove
  <2> QED
    BY <2>1, <2>2
<1> QED
  BY <1>3, <1>4 DEF StoreInv

(* The temporary file is the caller's own; its steps and their failures change no other
   caller's account. *)
LEMMA TmpStep ==
  ASSUME StoreInv, TypeOK', NEW c \in Callers, OpenTmp(c) \/ FillTmp(c) \/ WriteFailed(c)
  PROVE  StoreInv'
<1>1. DeletedInv'
  BY Results DEF StoreInv, DeletedInv, Gone, Nobody, lockVars, TypeOK, Answer, OpenTmp, FillTmp,
    WriteFailed
<1>2. \A d \in Callers : CallerInv(d)'
  <2> SUFFICES ASSUME NEW d \in Callers
               PROVE  CallerInv(d)'
    OBVIOUS
  <2> USE DEF StoreInv, CallerInv, PathInv, GuardInv, CopyInv, Alone, Writing, Goto, Answer,
      lockVars, TypeOK
  <2>1. CASE OpenTmp(c)
    BY <2>1 DEF OpenTmp
  <2>2. CASE FillTmp(c)
    BY <2>2 DEF FillTmp
  <2>3. CASE WriteFailed(c)
    BY <2>3, Results DEF WriteFailed
  <2> QED
    BY <2>1, <2>2, <2>3
<1> QED
  BY <1>1, <1>2 DEF StoreInv

(* The rename replaces the file that was read: no other caller is between its check
   and its own rename. *)
LEMMA RenameStep ==
  ASSUME StoreInv, TypeOK', NEW c \in Callers, Rename(c)
  PROVE  StoreInv'
<1>1. Writing(c)
  BY DEF Rename, Writing
<1>2. ~Gone /\ \A d \in Callers : Writing(d) => d = c
  <2>1. Alone(c)
    BY <1>1 DEF StoreInv, CallerInv, CopyInv, Alone, Writing
  <2> QED
    BY <1>1, <2>1, WritesAlone
<1>3. DeletedInv'
  <2>1. ~Gone'
    BY <1>2 DEF Rename, Gone, lockVars
  <2>2. op[c].kind # "delete"
    BY <1>1 DEF StoreInv, CallerInv, CopyInv
  <2>3. \A d \in Callers : op[d].kind = "delete" => result[d] # Register!Ok
    <3> SUFFICES ASSUME NEW d \in Callers, op[d].kind = "delete", result[d] = Register!Ok
                 PROVE  FALSE
      OBVIOUS
    <3>1. file = None
      BY DEF StoreInv, DeletedInv
    <3>2. op[c].kind = "create"
      BY <1>1, <3>1 DEF StoreInv, CallerInv, CopyInv
    <3> QED
      BY <3>2 DEF StoreInv, DeletedInv, Nobody
  <2>4. /\ op' = op /\ lockOf' = lockOf /\ made' = made
        /\ result' = [result EXCEPT ![c] = Register!Ok]
    BY DEF Rename, Answer, lockVars
  <2>5. \A d \in Callers : op'[d].kind = "delete" => result'[d] # Register!Ok
    BY <2>2, <2>3, <2>4 DEF StoreInv, TypeOK
  <2> QED
    BY <2>1, <2>4, <2>5 DEF StoreInv, DeletedInv, Nobody
<1>4. \A d \in Callers : CallerInv(d)'
  <2> SUFFICES ASSUME NEW d \in Callers
               PROVE  CallerInv(d)'
    OBVIOUS
  <2>1. CASE d = c
    BY Results, <2>1 DEF StoreInv, CallerInv, PathInv, GuardInv, CopyInv, Alone, Writing, Goto,
      Answer, lockVars, TypeOK, Rename
  <2>2. CASE d # c
    BY <1>2, <2>2 DEF StoreInv, CallerInv, PathInv, GuardInv, CopyInv, Alone, Writing, Goto,
      Answer, lockVars, TypeOK, Rename
  <2> QED
    BY <2>1, <2>2
<1> QED
  BY <1>3, <1>4 DEF StoreInv

(* After a crash nobody holds anything; the file is as it was. *)
LEMMA CrashStep ==
  ASSUME StoreInv, TypeOK', Crash
  PROVE  StoreInv'
<1>1. DeletedInv'
  BY DEF Crash, DeletedInv, Gone, Nobody, Register!NoOp
<1>2. \A d \in Callers : CallerInv(d)'
  BY DEF Crash, CallerInv, PathInv, GuardInv, CopyInv, Alone, Writing, Register!NoOp
<1> QED
  BY <1>1, <1>2 DEF StoreInv

(* For an id that is not created again, the callers exclude one another: what is about
   to be written is the change of the file as it is, and a deleted file stays away. *)
THEOREM WritersExclude ==
  ASSUME ~Recreate
  PROVE  Spec => []StoreInv
<1>1. Init => StoreInv
  <2> SUFFICES ASSUME Init
               PROVE  StoreInv
    OBVIOUS
  <2>1. TypeOK
    BY InitTyped
  <2>2. DeletedInv
    BY DEF Init, DeletedInv, Gone, Nobody, Register!NoOp
  <2>3. \A d \in Callers : CallerInv(d)
    BY DEF Init, CallerInv, PathInv, GuardInv, CopyInv, Alone, Writing, Register!NoOp
  <2> QED
    BY <2>1, <2>2, <2>3 DEF StoreInv
<1>2. StoreInv /\ TypeOK' /\ [Next]_vars => StoreInv'
  <2> SUFFICES ASSUME StoreInv, TypeOK', [Next]_vars
               PROVE  StoreInv'
    OBVIOUS
  <2>1. CASE Crash
    BY <2>1, CrashStep
  <2>2. ASSUME NEW c \in Callers, NEW o \in Register!Ops, Call(c, o)
        PROVE  StoreInv'
    BY <2>2, CallStep
  <2>3. ASSUME NEW c \in Callers, Work(c) \/ Acquire(c)
        PROVE  StoreInv'
    BY <2>3, GetLockStep, AcquireStep, UnlockStep, ForgetStep, ReturnStep, ReadStep, ModifyStep,
      NewStep, RemoveStep, TmpStep, RenameStep DEF Work
  <2>4. CASE UNCHANGED vars
    BY <2>4 DEF vars, lockVars, StoreInv, DeletedInv, Gone, Nobody, CallerInv, PathInv,
      GuardInv,
      CopyInv, Alone, Writing
  <2> QED
    BY <2>1, <2>2, <2>3, <2>4 DEF Next
<1> QED
  BY <1>1, <1>2, StoreTyped, PTL DEF Spec

-----------------------------------------------------------------------------
(* The refinement: each step is one of the promise's or leaves its variables alone. *)

LEMMA StepImplements ==
  ASSUME StoreInv, StoreInv', [Next]_vars
  PROVE  [Register!Next]_(Register!regVars)
<1>1. CASE Crash
  BY <1>1 DEF Crash, Register!Next, Register!Crash
<1>2. ASSUME NEW c \in Callers, NEW o \in Register!Ops, Call(c, o)
      PROVE  Register!Next
  <2>1. Register!Call(c, o)
    BY <1>2 DEF Call, Register!Call, StoreInv, CallerInv, PathInv
  <2> QED
    BY <2>1 DEF Register!Next
<1>3. ASSUME NEW c \in Callers, Return(c)
      PROVE  Register!Next
  <2>1. Register!Return(c)
    BY <1>3 DEF Return, Answer, Register!Return, StoreInv, CallerInv, PathInv
  <2> QED
    BY <2>1 DEF Register!Next
<1>4. ASSUME NEW c \in Callers, NEW r \in Register!Result, r # Register!Pending,
             op[c] # Register!NoOp, result[c] = Register!Pending, UNCHANGED op,
             result' = [result EXCEPT ![c] = r],
             \/ Register!Effect(op[c], c, file', r)
             \/ r = Register!Error /\ file' = file
      PROVE  Register!Next
  <2>1. Register!Apply(c)
    BY <1>4 DEF Register!Apply
  <2> QED
    BY <2>1 DEF Register!Next
<1>5. ASSUME NEW c \in Callers, Read(c)
      PROVE  Register!Next
  <2>1. /\ op[c] # Register!NoOp /\ result[c] = Register!Pending
        /\ op' = op /\ file' = file
    BY <1>5 DEF Read, StoreInv, CallerInv, PathInv
  <2>2. CASE file = None
    BY <1>4, <1>5, <2>1, <2>2, Results, ResultTypes DEF Read, Answer
  <2>3. CASE file # None
    <3>1. Register!Effect(op[c], c, file', [is |-> "read", account |-> file])
      BY <1>5, <2>1, <2>3 DEF Read, Register!Effect
    <3>2. [is |-> "read", account |-> file] \in Register!Result
      BY <2>3, ResultTypes DEF StoreInv, TypeOK
    <3> QED
      BY <1>4, <1>5, <2>1, <2>3, <3>1, <3>2, Results DEF Read, Answer
  <2> QED
    BY <2>2, <2>3
<1>6. ASSUME NEW c \in Callers, Remove(c)
      PROVE  Register!Next
  <2>1. /\ op[c] # Register!NoOp /\ result[c] = Register!Pending /\ op' = op
        /\ op[c].kind = "delete"
    BY <1>6 DEF Remove, StoreInv, CallerInv, PathInv
  <2>2. CASE file # None /\ file' = None /\ Answer(c, Register!Ok)
    <3>1. Register!Effect(op[c], c, file', Register!Ok)
      BY <2>1, <2>2 DEF Register!Effect
    <3> QED
      BY <1>4, <2>1, <2>2, <3>1, Results, ResultTypes DEF Answer
  <2>3. CASE Answer(c, Register!Error) /\ file' = file
    BY <1>4, <2>1, <2>3, Results, ResultTypes DEF Answer
  <2> QED
    BY <1>6, <2>2, <2>3 DEF Remove
<1>7. ASSUME NEW c \in Callers, Rename(c)
      PROVE  Register!Next
  <2>1. /\ op[c] # Register!NoOp /\ result[c] = Register!Pending /\ op' = op
        /\ result' = [result EXCEPT ![c] = Register!Ok]
    BY <1>7 DEF Rename, Answer, StoreInv, CallerInv, PathInv
  <2>2. Register!Effect(op[c], c, file', Register!Ok)
    <3>1. CASE op[c].kind = "create"
      BY <1>7, <3>1 DEF Rename, Register!Effect, StoreInv, CallerInv, CopyInv, Writing
    <3>2. CASE op[c].kind = "update"
      BY <1>7, <3>2 DEF Rename, Register!Effect, StoreInv, CallerInv, CopyInv, Writing
    <3> QED
      BY <1>7, <3>1, <3>2 DEF Rename, StoreInv, CallerInv, CopyInv, Writing
  <2> QED
    BY <1>4, <2>1, <2>2, Results, ResultTypes
<1>8. ASSUME NEW c \in Callers, WriteFailed(c)
      PROVE  Register!Next
  <2>1. op[c] # Register!NoOp /\ result[c] = Register!Pending
    BY <1>8 DEF WriteFailed, StoreInv, CallerInv, PathInv
  <2> QED
    BY <1>4, <1>8, <2>1, Results, ResultTypes DEF WriteFailed, Answer
<1>9. ASSUME NEW c \in Callers, Modify(c) \/ New(c)
      PROVE  [Register!Next]_(Register!regVars)
  <2>1. /\ op[c] # Register!NoOp /\ result[c] = Register!Pending
        /\ op' = op /\ file' = file
    BY <1>9 DEF Modify, New, StoreInv, CallerInv, PathInv
  <2>2. CASE Answer(c, Register!Error)
    BY <1>4, <2>1, <2>2, Results, ResultTypes DEF Answer
  <2>3. CASE UNCHANGED result
    BY <2>1, <2>3 DEF Register!regVars
  <2> QED
    BY <1>9, <2>2, <2>3 DEF Modify, New
<1>10. ASSUME NEW c \in Callers,
              GetLock(c) \/ Acquire(c) \/ Unlock(c) \/ Forget(c) \/ OpenTmp(c) \/ FillTmp(c)
       PROVE  UNCHANGED Register!regVars
  BY <1>10 DEF GetLock, Acquire, Unlock, Forget, OpenTmp, FillTmp, Register!regVars
<1>11. CASE UNCHANGED vars
  BY <1>11 DEF vars, Register!regVars
<1> QED
  BY <1>1, <1>2, <1>3, <1>5, <1>6, <1>7, <1>8, <1>9, <1>10, <1>11 DEF Next, Work

(* For an id that is not created again, every call takes effect at once or not at all,
   whatever calls, failures and crashes interleave: AccountStore implements
   AccountRegister with the file for the value (account_manager.rs:182-205, 580-610). *)
THEOREM StoreImplementsRegister ==
  ASSUME ~Recreate
  PROVE  Spec => ImplementsRegister
<1>1. Init => Register!Init
  BY DEF Init, Register!Init
<1>2. StoreInv /\ StoreInv' /\ [Next]_vars => [Register!Next]_(Register!regVars)
  BY StepImplements
<1> QED
  BY <1>1, <1>2, WritersExclude, PTL DEF Spec, ImplementsRegister, Register!Spec
=============================================================================
