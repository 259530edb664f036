------------------------------ MODULE Subprocess ------------------------------
(***************************************************************************)
(* One task of SubprocessManager (subprocess.rs): the helper processes     *)
(* that are spawned for a task id one after the other, the reader of each  *)
(* process's output, and the commands of subprocess_cmd.rs that start,     *)
(* pause, resume and abort the task or kill everything at shutdown.        *)
(*                                                                         *)
(* Tasks of different ids share nothing but the generation counter, so one *)
(* id is the general case; kill_all's loop over the ids is its step for    *)
(* this one.  Spawns are numbered by the generation they get.  A process   *)
(* may say anything, in any order, and may ignore what it is told; what it *)
(* has written before it exits is still read.  Of what the readers write   *)
(* to the account only who wrote last is kept.                             *)
(***************************************************************************)
EXTENDS Naturals, FiniteSets

CONSTANTS
  Callers,      \* frontend calls under way at a time
  May,          \* the commands that each of them may be
  MaxGen        \* bound: spawns in a behaviour

Commands == {"start", "pause", "resume", "abort", "killAll"}

ASSUME CallersAssumption == IsFiniteSet(Callers)
ASSUME MayAssumption == May \in [Callers -> SUBSET Commands]
ASSUME MaxGenAssumption == MaxGen \in Nat \ {0}

VARIABLES
  current,      \* generation of the Task in the map, 0 if there was none
  task,         \* the Task of each generation; readers and senders keep theirs
  child,        \* the process of each generation
  reader,       \* where the reader of each generation stands
  late,         \* the last write to the account was by a replaced process's reader
  pc,           \* where each call stands
  op,           \* the command it executes
  on            \* generation of the Task it writes to

taskVars == <<current, task>>
processVars == <<child, reader, late>>
vars == <<taskVars, processVars, pc, op, on>>

Gens == 1..MaxGen

Open == {"Running", "Paused"}
Ended == {"Done", "Failed", "Aborted"}

\* `process' is ProcessHandle's presence, `stdin' its handle: "in" the Task,
\* "out" with a sender, or dropped for good.
Task == [status : Open \cup Ended, process : BOOLEAN, stdin : {"in", "out", "gone"}]

NewTask == [status |-> "Running", process |-> TRUE, stdin |-> "in"]
NoTask == [status |-> "Done", process |-> FALSE, stdin |-> "gone"]

IsRunning == current # 0 /\ task[current].process

Change(g, t) == task' = [task EXCEPT ![g] = t]
Read(g, l) == reader' = [reader EXCEPT ![g] = l]

Call(c, l) ==
  /\ pc' = [pc EXCEPT ![c] = l]
  /\ op' = IF l = "idle" THEN [op EXCEPT ![c] = "none"] ELSE op

-----------------------------------------------------------------------------
(* Commands *)

(* A command, up to its first send or change; abort_if_running and kill_all ask
   is_running first. *)
Begin(c, o) ==
  /\ pc[c] = "idle"
  /\ \E l \in CASE o = "start"   -> {IF IsRunning THEN "abort" ELSE "spawn"}
              [] o = "killAll" -> IF IsRunning THEN {"take"} ELSE {}
              [] o = "abort"   -> {"abort"}
              [] OTHER         -> {"take"} :
       pc' = [pc EXCEPT ![c] = l]
  /\ op' = [op EXCEPT ![c] = o]
  /\ UNCHANGED <<taskVars, processVars, on>>

(* The loop that waits for the old process: it is gone, ... *)
PollFree(c) ==
  /\ pc[c] = "poll" /\ ~IsRunning
  /\ Call(c, IF op[c] = "start" THEN "spawn" ELSE "idle")
  /\ UNCHANGED <<taskVars, processVars, on>>

(* ... or the attempts are used up: start gives up, kill_all kills. *)
PollTimeout(c) ==
  /\ pc[c] = "poll" /\ IsRunning
  /\ Call(c, IF op[c] = "start" THEN "idle" ELSE "kill")
  /\ UNCHANGED <<taskVars, processVars, on>>

(* spawn_and_watch: the new Task replaces whatever is in the map. *)
Spawn(c) ==
  /\ pc[c] = "spawn"
  /\ \E g \in Gens :
       /\ child[g] = "none" /\ \A h \in Gens : h < g => child[h] # "none"
       /\ current' = g
       /\ Change(g, NewTask)
       /\ child' = [child EXCEPT ![g] = "running"]
       /\ Read(g, "read")
  /\ Call(c, "idle")
  /\ UNCHANGED <<late, on>>

SpawnFailed(c) ==
  /\ pc[c] = "spawn"
  /\ Call(c, "idle")
  /\ UNCHANGED <<taskVars, processVars, on>>

(* abort: the status first, then the best-effort message. *)
Abort(c) ==
  /\ pc[c] = "abort"
  /\ IF current # 0 /\ task[current].status \in Open
       THEN Change(current, [task[current] EXCEPT !.status = "Aborted"])
       ELSE UNCHANGED task
  /\ Call(c, "take")
  /\ UNCHANGED <<current, processVars, on>>

(* Where a call goes on after send_stdin: only pause and resume return its error. *)
AfterSend(o, sent) ==
  IF o \in {"start", "killAll"} THEN "poll"
  ELSE IF o \in {"pause", "resume"} /\ sent THEN "mark" ELSE "idle"

(* send_stdin, first half: the handle is taken out of the Task, if it is there. *)
TakeStdin(c) ==
  /\ pc[c] = "take"
  /\ IF IsRunning /\ task[current].stdin = "in"
       THEN /\ Change(current, [task[current] EXCEPT !.stdin = "out"])
            /\ on' = [on EXCEPT ![c] = current]
            /\ Call(c, "write")
       ELSE /\ Call(c, AfterSend(op[c], FALSE))
            /\ UNCHANGED <<task, on>>
  /\ UNCHANGED <<current, processVars>>

(* The write outside the lock; the handle is put back if there still is a process
   to talk to ... *)
WriteStdin(c) ==
  /\ pc[c] = "write"
  /\ LET t == task[on[c]]
     IN Change(on[c], [t EXCEPT !.stdin = IF t.process THEN "in" ELSE "gone"])
  /\ on' = [on EXCEPT ![c] = 0]
  /\ Call(c, AfterSend(op[c], TRUE))
  /\ UNCHANGED <<current, processVars>>

(* ... and dropped after a broken pipe. *)
WriteFailed(c) ==
  /\ pc[c] = "write"
  /\ Change(on[c], [task[on[c]] EXCEPT !.stdin = "gone"])
  /\ on' = [on EXCEPT ![c] = 0]
  /\ Call(c, AfterSend(op[c], FALSE))
  /\ UNCHANGED <<current, processVars>>

\* Mutant: the pause is recorded whatever happened since it was sent.
MarkUnchecked(c) ==
  /\ pc[c] = "mark"
  /\ Change(current, [task[current] EXCEPT !.status = IF op[c] = "pause" THEN "Paused" ELSE "Running"])
  /\ Call(c, "idle")
  /\ UNCHANGED <<current, processVars, on>>

(* mark_paused and mark_resumed, on the Task that is in the map by now *)
Mark(c) ==
  /\ pc[c] = "mark"
  /\ LET from == IF op[c] = "pause" THEN "Running" ELSE "Paused"
         to   == IF op[c] = "pause" THEN "Paused" ELSE "Running"
     IN IF task[current].status = from
          THEN Change(current, [task[current] EXCEPT !.status = to])
          ELSE UNCHANGED task
  /\ Call(c, "idle")
  /\ UNCHANGED <<current, processVars, on>>

\* Mutant: a task that the user has aborted is left to itself.
KillUnlessAborted(c) ==
  /\ pc[c] = "kill"
  /\ child' = IF IsRunning /\ child[current] = "running" /\ task[current].status # "Aborted"
                THEN [child EXCEPT ![current] = "failed"] ELSE child
  /\ Call(c, "idle")
  /\ UNCHANGED <<taskVars, reader, late, on>>

(* SIGKILL to the process that the Task in the map names *)
Kill(c) ==
  /\ pc[c] = "kill"
  /\ child' = IF IsRunning /\ child[current] = "running"
                THEN [child EXCEPT ![current] = "failed"] ELSE child
  /\ Call(c, "idle")
  /\ UNCHANGED <<taskVars, reader, late, on>>

-----------------------------------------------------------------------------
(* The process and the reader of its output *)

Exit(g) ==
  /\ child[g] = "running"
  /\ \E s \in {"ok", "failed"} : child' = [child EXCEPT ![g] = s]
  /\ UNCHANGED <<taskVars, reader, late, pc, op, on>>

(* Cookies, Profile, Error with a ban, or a successful Result: the reader writes to
   the account; the task stays Running until the process exits. *)
ReadMessage(g) ==
  /\ reader[g] = "read"
  /\ late' = (g # current)
  /\ UNCHANGED <<taskVars, child, reader, pc, op, on>>

(* A Result without success ends the task while the process goes on. *)
ReadFailure(g) ==
  /\ reader[g] = "read"
  /\ Change(g, [task[g] EXCEPT !.status = "Failed"])
  /\ UNCHANGED <<current, processVars, pc, op, on>>

(* End of the output *)
ReadEnd(g) ==
  /\ reader[g] = "read" /\ child[g] # "running"
  /\ Read(g, "wait")
  /\ UNCHANGED <<taskVars, child, late, pc, op, on>>

(* The Task after the exit of process g *)
Reaped(t, g) ==
  [t EXCEPT !.process = FALSE, !.stdin = IF @ = "in" THEN "gone" ELSE @,
            !.status = IF @ \in Ended THEN @ ELSE IF child[g] = "ok" THEN "Done" ELSE "Failed"]

\* Mutant: the generation is not compared.
WaitAnyGeneration(g) ==
  /\ reader[g] = "wait"
  /\ Change(current, Reaped(task[current], g))
  /\ Read(g, "done")
  /\ UNCHANGED <<current, child, late, pc, op, on>>

\* Mutant: an aborted task is taken for ended and keeps its handle.
WaitSkipsAborted(g) ==
  /\ reader[g] = "wait"
  /\ IF task[current].process /\ (current # g \/ task[current].status = "Aborted")
       THEN UNCHANGED task
       ELSE Change(current, Reaped(task[current], g))
  /\ Read(g, "done")
  /\ UNCHANGED <<current, child, late, pc, op, on>>

(* wait() returns: the Task in the map is finished, unless it belongs to a newer
   process that still runs. *)
Wait(g) ==
  /\ reader[g] = "wait"
  /\ IF task[current].process /\ current # g
       THEN UNCHANGED task
       ELSE Change(current, Reaped(task[current], g))
  /\ Read(g, "done")
  /\ UNCHANGED <<current, child, late, pc, op, on>>

-----------------------------------------------------------------------------
Init ==
  /\ current = 0
  /\ task = [g \in Gens |-> NoTask]
  /\ child = [g \in Gens |-> "none"]
  /\ reader = [g \in Gens |-> "off"]
  /\ late = FALSE
  /\ pc = [c \in Callers |-> "idle"]
  /\ op = [c \in Callers |-> "none"]
  /\ on = [c \in Callers |-> 0]

Work(c) == \/ PollFree(c) \/ PollTimeout(c) \/ Spawn(c) \/ SpawnFailed(c) \/ Abort(c)
           \/ TakeStdin(c) \/ WriteStdin(c) \/ WriteFailed(c) \/ Mark(c) \/ Kill(c)

Watch(g) == ReadMessage(g) \/ ReadFailure(g) \/ ReadEnd(g) \/ Wait(g)

Next == \/ \E c \in Callers : Work(c) \/ \E o \in May[c] : Begin(c, o)
        \/ \E g \in Gens : Exit(g) \/ Watch(g)

Spec == Init /\ [][Next]_vars

(* Tokio polls the calls and the readers; what a process wrote before its exit
   is finite, so its reader comes to the end of it.  A process need not exit, and
   nobody need issue a command. *)
FairSpec == /\ Spec
            /\ \A c \in Callers : WF_vars(Work(c))
            /\ \A g \in Gens : WF_vars(ReadEnd(g)) /\ WF_vars(Wait(g))

-----------------------------------------------------------------------------
(* Properties *)

(* Every variable has its type; a stdin handle is out with exactly one sender. *)
TypeOK ==
  /\ current \in 0..MaxGen
  /\ task \in [Gens -> Task]
  /\ child \in [Gens -> {"none", "running", "ok", "failed"}]
  /\ reader \in [Gens -> {"off", "read", "wait", "done"}]
  /\ late \in BOOLEAN
  /\ pc \in [Callers -> {"idle", "abort", "take", "write", "mark", "poll", "spawn", "kill"}]
  /\ op \in [Callers -> Commands \cup {"none"}]
  /\ on \in [Callers -> 0..MaxGen]
  /\ \A g \in Gens : task[g].stdin = "out" <=> Cardinality({c \in Callers : on[c] = g}) = 1

(* The Task in the map has a process handle exactly as long as the reader of its
   own process has not seen the exit (is_running), whatever older processes, late
   senders and repeated starts do (subprocess.rs:464-487). *)
HandleUntilExit == current # 0 => (task[current].process <=> reader[current] # "done")

(* A task that has ended is never shown as running or paused again: not by a late
   pause or resume, nor by the exit of its process (subprocess.rs:482, 618, 637). *)
EndedStaysEnded == [][\A g \in Gens : child[g] # "none" /\ task[g].status \in Ended
                                        => task'[g].status \in Ended]_vars

(* A process that was replaced writes nothing to the account any more: it was already
   aborted by abort_if_running, so its reader is through (subprocess.rs:187-188). *)
NoLateWriter == ~late

(* kill_all leaves no process alive that it found, whoever holds its stdin, unless
   a start has replaced it meanwhile (subprocess.rs:651-690). *)
KillAllKills ==
  \A g \in Gens :
    current = g /\ task[g].process /\ (\E c \in Callers : op[c] = "killAll" /\ pc[c] = "take")
      ~> child[g] # "running" \/ current # g

(* The exit of the current process is noticed: the task ends and can be restarted,
   whether or not it was aborted or a sender holds its stdin (subprocess.rs:460-495). *)
ExitNoticed ==
  current # 0 /\ child[current] # "running"
    ~> /\ current # 0
       /\ \/ task[current].status \in Ended /\ ~IsRunning
          \/ child[current] = "running"
=============================================================================
