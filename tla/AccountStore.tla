----------------------------- MODULE AccountStore -----------------------------
(***************************************************************************)
(* How AccountManager keeps one account's file: get_lock's map of          *)
(* read-write locks, the read-modify-write of `update', write_new and      *)
(* delete, and secure_write, which fills a temporary file and renames it   *)
(* over the old one.  `list' takes no lock.  The process may crash.        *)
(*                                                                         *)
(* delete forgets the account's lock after it has released it.  A caller   *)
(* that got the lock before then still waits for it while the next one     *)
(* makes a new lock, so two of them can work on the file at the same time: *)
(* this matters only when the id is created again (Recreate).              *)
(***************************************************************************)
EXTENDS Naturals, FiniteSets

CONSTANTS
  Callers, Sections, None,
  Recreate,     \* a deleted id may be created again before the next restart
  MaxLocks      \* bound: locks made for the id

ASSUME CallersAssumption == IsFiniteSet(Callers) /\ None \notin Callers
ASSUME RecreateAssumption == Recreate \in BOOLEAN
ASSUME MaxLocksAssumption == MaxLocks \in Nat \ {0}

VARIABLES
  file,         \* the account's file
  lockOf,       \* the lock in the map, 0 if there is none
  made,         \* locks made
  writer,       \* who holds each lock for writing
  readers,      \* who holds it for reading
  pc, op, result,
  on,           \* the lock each caller uses
  copy,         \* the account in its memory
  tmp,          \* its temporary file
  litter        \* a crash has left a temporary file behind

lockVars == <<lockOf, made, writer, readers>>
vars == <<file, lockVars, pc, op, result, on, copy, tmp, litter>>

(* The promise, with the file for the value *)
Register == INSTANCE AccountRegister WITH value <- file

Locks == 1..MaxLocks
Goto(c, l) == pc' = [pc EXCEPT ![c] = l]
Exclusive(c) == op[c].kind \in {"update", "create", "delete"}

Answer(c, r) == result' = [result EXCEPT ![c] = r]

-----------------------------------------------------------------------------
(* A call, and the lock it takes *)

(* With ~Recreate an id is not created again after a lock of it has been forgotten. *)
Nobody(k) == \A d \in Callers : op[d].kind # k

Call(c, o) ==
  /\ pc[c] = "idle"
  /\ Recreate \/ CASE o.kind = "create" -> made < 2 /\ lockOf = made /\ Nobody("delete")
                    [] o.kind = "delete" -> Nobody("create")
                    [] OTHER             -> TRUE
  /\ op' = [op EXCEPT ![c] = o]
  /\ Goto(c, IF o.kind = "list" THEN "read" ELSE "lock")
  /\ UNCHANGED <<file, lockVars, result, on, copy, tmp, litter>>

(* get_lock *)
GetLock(c) ==
  /\ pc[c] = "lock"
  /\ \/ /\ lockOf # 0
        /\ on' = [on EXCEPT ![c] = lockOf]
        /\ UNCHANGED <<lockOf, made>>
     \/ /\ lockOf = 0 /\ made < MaxLocks
        /\ made' = made + 1
        /\ lockOf' = made + 1
        /\ on' = [on EXCEPT ![c] = made + 1]
  /\ Goto(c, "wait")
  /\ UNCHANGED <<file, writer, readers, op, result, copy, tmp, litter>>

\* Mutant: an update takes the lock for reading.
AcquireShared(c) ==
  /\ pc[c] = "wait" /\ writer[on[c]] = None
  /\ readers' = [readers EXCEPT ![on[c]] = @ \cup {c}]
  /\ Goto(c, "read")
  /\ UNCHANGED <<file, lockOf, made, writer, op, result, on, copy, tmp, litter>>

Acquire(c) ==
  /\ pc[c] = "wait" /\ writer[on[c]] = None
  /\ \/ /\ Exclusive(c) /\ readers[on[c]] = {}
        /\ writer' = [writer EXCEPT ![on[c]] = c]
        /\ UNCHANGED readers
     \/ /\ ~Exclusive(c)
        /\ readers' = [readers EXCEPT ![on[c]] = @ \cup {c}]
        /\ UNCHANGED writer
  /\ Goto(c, "read")
  /\ UNCHANGED <<file, lockOf, made, op, result, on, copy, tmp, litter>>

\* Mutant: a reader's guard outlives its call.
UnlockWriter(c) ==
  /\ pc[c] = "unlock"
  /\ writer' = [k \in Locks |-> IF writer[k] = c THEN None ELSE writer[k]]
  /\ on' = [on EXCEPT ![c] = 0]
  /\ copy' = [copy EXCEPT ![c] = None]
  /\ Goto(c, "return")
  /\ UNCHANGED <<file, lockOf, made, readers, op, result, tmp, litter>>

Unlock(c) ==
  /\ pc[c] = "unlock"
  /\ writer' = [k \in Locks |-> IF writer[k] = c THEN None ELSE writer[k]]
  /\ readers' = [k \in Locks |-> readers[k] \ {c}]
  /\ on' = [on EXCEPT ![c] = 0]
  /\ copy' = [copy EXCEPT ![c] = None]
  /\ Goto(c, IF op[c].kind = "delete" /\ result[c] = Register!Ok THEN "forget" ELSE "return")
  /\ UNCHANGED <<file, lockOf, made, op, result, tmp, litter>>

(* delete: the lock leaves the map after its guard is dropped. *)
Forget(c) ==
  /\ pc[c] = "forget"
  /\ lockOf' = 0
  /\ Goto(c, "return")
  /\ UNCHANGED <<file, made, writer, readers, op, result, on, copy, tmp, litter>>

Return(c) ==
  /\ pc[c] = "return"
  /\ op' = [op EXCEPT ![c] = Register!NoOp]
  /\ Answer(c, Register!Pending)
  /\ Goto(c, "idle")
  /\ UNCHANGED <<file, lockVars, on, copy, tmp, litter>>

-----------------------------------------------------------------------------
(* The work under the lock *)

(* read and list *)
Read(c) ==
  /\ pc[c] = "read" /\ op[c].kind \in {"read", "list"}
  /\ Answer(c, IF file = None THEN Register!Error ELSE [is |-> "read", account |-> file])
  /\ Goto(c, "unlock")
  /\ UNCHANGED <<file, lockVars, op, on, copy, tmp, litter>>

(* update: read_from_file and the closure *)
Modify(c) ==
  /\ pc[c] = "read" /\ op[c].kind = "update"
  /\ IF file = None
       THEN Answer(c, Register!Error) /\ Goto(c, "unlock") /\ UNCHANGED copy
       ELSE /\ copy' = [copy EXCEPT ![c] = Register!Update(file, op[c].section, c)]
            /\ Goto(c, "open")
            /\ UNCHANGED result
  /\ UNCHANGED <<file, lockVars, op, on, tmp, litter>>

(* write_new *)
New(c) ==
  /\ pc[c] = "read" /\ op[c].kind = "create"
  /\ IF file # None
       THEN Answer(c, Register!Error) /\ Goto(c, "unlock") /\ UNCHANGED copy
       ELSE /\ copy' = [copy EXCEPT ![c] = Register!Fresh]
            /\ Goto(c, "open")
            /\ UNCHANGED result
  /\ UNCHANGED <<file, lockVars, op, on, tmp, litter>>

(* delete: the file is removed, if it is there and can be. *)
Remove(c) ==
  /\ pc[c] = "read" /\ op[c].kind = "delete"
  /\ \/ file # None /\ file' = None /\ Answer(c, Register!Ok)
     \/ Answer(c, Register!Error) /\ UNCHANGED file
  /\ Goto(c, "unlock")
  /\ UNCHANGED <<lockVars, op, on, copy, tmp, litter>>

-----------------------------------------------------------------------------
(* secure_write *)

OpenTmp(c) ==
  /\ pc[c] = "open"
  /\ tmp' = [tmp EXCEPT ![c] = "partial"]
  /\ Goto(c, "fill")
  /\ UNCHANGED <<file, lockVars, op, result, on, copy, litter>>

FillTmp(c) ==
  /\ pc[c] = "fill"
  /\ tmp' = [tmp EXCEPT ![c] = "full"]
  /\ Goto(c, "rename")
  /\ UNCHANGED <<file, lockVars, op, result, on, copy, litter>>

Rename(c) ==
  /\ pc[c] = "rename"
  /\ file' = copy[c]
  /\ tmp' = [tmp EXCEPT ![c] = "none"]
  /\ Answer(c, Register!Ok)
  /\ Goto(c, "unlock")
  /\ UNCHANGED <<lockVars, op, on, copy, litter>>

(* Any of the three steps may fail; the temporary file is removed. *)
WriteFailed(c) ==
  /\ pc[c] \in {"open", "fill", "rename"}
  /\ tmp' = [tmp EXCEPT ![c] = "none"]
  /\ Answer(c, Register!Error)
  /\ Goto(c, "unlock")
  /\ UNCHANGED <<file, lockVars, op, on, copy, litter>>

Crash ==
  /\ litter' = (litter \/ \E c \in Callers : tmp[c] # "none")
  /\ lockOf' = 0 /\ made' = 0
  /\ writer' = [k \in Locks |-> None]
  /\ readers' = [k \in Locks |-> {}]
  /\ pc' = [c \in Callers |-> "idle"]
  /\ op' = [c \in Callers |-> Register!NoOp]
  /\ result' = [c \in Callers |-> Register!Pending]
  /\ on' = [c \in Callers |-> 0]
  /\ copy' = [c \in Callers |-> None]
  /\ tmp' = [c \in Callers |-> "none"]
  /\ UNCHANGED file

-----------------------------------------------------------------------------
Init ==
  /\ file \in {None, Register!Fresh}
  /\ lockOf = 0 /\ made = 0
  /\ writer = [k \in Locks |-> None]
  /\ readers = [k \in Locks |-> {}]
  /\ pc = [c \in Callers |-> "idle"]
  /\ op = [c \in Callers |-> Register!NoOp]
  /\ result = [c \in Callers |-> Register!Pending]
  /\ on = [c \in Callers |-> 0]
  /\ copy = [c \in Callers |-> None]
  /\ tmp = [c \in Callers |-> "none"]
  /\ litter = FALSE

Work(c) == \/ GetLock(c) \/ Unlock(c) \/ Forget(c) \/ Return(c)
           \/ Read(c) \/ Modify(c) \/ New(c) \/ Remove(c)
           \/ OpenTmp(c) \/ FillTmp(c) \/ Rename(c) \/ WriteFailed(c)

Next == \/ Crash
        \/ \E c \in Callers : Work(c) \/ Acquire(c) \/ \E o \in Register!Ops : Call(c, o)

Spec == Init /\ [][Next]_vars

(* Every thread runs on, and tokio's RwLock queues those who wait for it, so none of
   them is passed over for ever. *)
FairSpec == Spec /\ \A c \in Callers : WF_vars(Work(c)) /\ SF_vars(Acquire(c))

-----------------------------------------------------------------------------
(* Properties *)

(* Every variable has its type, the file is never a partial one, and nobody reads under
   a lock that is held for writing. *)
TypeOK ==
  /\ file \in Register!Accounts \cup {None}
  /\ lockOf \in 0..MaxLocks /\ made \in 0..MaxLocks
  /\ writer \in [Locks -> Callers \cup {None}]
  /\ readers \in [Locks -> SUBSET Callers]
  /\ pc \in [Callers -> {"idle", "lock", "wait", "read", "open", "fill", "rename", "unlock",
                         "forget", "return"}]
  /\ op \in [Callers -> Register!Ops \cup {Register!NoOp}]
  /\ result \in [Callers -> Register!Result]
  /\ on \in [Callers -> 0..MaxLocks]
  /\ copy \in [Callers -> Register!Accounts \cup {None}]
  /\ tmp \in [Callers -> {"none", "partial", "full"}]
  /\ litter \in BOOLEAN
  /\ \A k \in Locks : writer[k] # None => readers[k] = {}

(* Every call on an account takes effect at once or not at all: no update is lost, no
   reader sees half of one, nothing that returned is undone by a crash
   (account_manager.rs:182-205, 580-610, secure_fs.rs:34-106). *)
ImplementsRegister == Register!Spec

(* Every call returns, whatever the others do and whichever steps fail. *)
CallsReturn == Register!Terminates

(* Only a crash leaves temporary files behind (secure_fs.rs:27-29). *)
NoLitter == litter \/ \A c \in Callers : tmp[c] # "none" => pc[c] \in {"fill", "rename"}
=============================================================================
