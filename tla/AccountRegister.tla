--------------------------- MODULE AccountRegister ---------------------------
(***************************************************************************)
(* What AccountManager promises of one account's file: every call takes    *)
(* effect at one moment between its start and its end, or fails and        *)
(* changes nothing, and a crash loses only calls that had not taken        *)
(* effect.  AccountStore implements it.                                    *)
(***************************************************************************)
CONSTANTS
  Callers,      \* calls under way at a time
  Sections,     \* the sections of an account that calls change
  None          \* no file

VARIABLES
  value,        \* the account, a value for each section, or None
  op,           \* the call of each caller
  result        \* what it is going to return

regVars == <<value, op, result>>

NoOp == [kind |-> "none"]
Ops == [kind : {"update"}, section : Sections] \cup [kind : {"create", "delete", "read", "list"}]

Fresh == [s \in Sections |-> None]
Accounts == [Sections -> Callers \cup {None}]

Pending == [is |-> "pending"]
Ok == [is |-> "ok"]
Error == [is |-> "error"]
Result == {Pending, Ok, Error} \cup [is : {"read"}, account : Accounts]

Call(c, o) ==
  /\ op[c] = NoOp
  /\ op' = [op EXCEPT ![c] = o]
  /\ UNCHANGED <<value, result>>

(* What a call makes of the account, and what it returns *)
Update(a, s, c) == IF a = None THEN a ELSE [a EXCEPT ![s] = c]

Effect(o, c, v, r) ==
  CASE o.kind = "update" -> value # None /\ v = Update(value, o.section, c) /\ r = Ok
    [] o.kind = "create" -> value = None /\ v = Fresh /\ r = Ok
    [] o.kind = "delete" -> value # None /\ v = None /\ r = Ok
    [] OTHER             -> value # None /\ v = value /\ r = [is |-> "read", account |-> value]

Apply(c) ==
  /\ op[c] # NoOp /\ result[c] = Pending
  /\ \E r \in Result \ {Pending} :
       /\ \/ Effect(op[c], c, value', r)
          \/ r = Error /\ value' = value
       /\ result' = [result EXCEPT ![c] = r]
  /\ UNCHANGED op

Return(c) ==
  /\ result[c] # Pending
  /\ op' = [op EXCEPT ![c] = NoOp]
  /\ result' = [result EXCEPT ![c] = Pending]
  /\ UNCHANGED value

Crash ==
  /\ op' = [c \in Callers |-> NoOp]
  /\ result' = [c \in Callers |-> Pending]
  /\ UNCHANGED value

Init ==
  /\ value \in {None, Fresh}
  /\ op = [c \in Callers |-> NoOp]
  /\ result = [c \in Callers |-> Pending]

Next == Crash \/ \E c \in Callers : Apply(c) \/ Return(c) \/ \E o \in Ops : Call(c, o)

Spec == Init /\ [][Next]_regVars

(* Every call ends. *)
Terminates == \A c \in Callers : WF_regVars(Apply(c)) /\ WF_regVars(Return(c))
=============================================================================
