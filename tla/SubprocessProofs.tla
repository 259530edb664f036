--------------------------- MODULE SubprocessProofs ---------------------------
(* Theorems about Subprocess, for every value of its constants: its types, the one
   sender that has a stdin handle, and what the map shows of a task. *)
EXTENDS Subprocess, FiniteSetTheorems, TLAPS

(* The types without the count of senders *)
Typed ==
  /\ current \in 0..MaxGen
  /\ task \in [Gens -> Task]
  /\ child \in [Gens -> {"none", "running", "ok", "failed"}]
  /\ reader \in [Gens -> {"off", "read", "wait", "done"}]
  /\ late \in BOOLEAN
  /\ pc \in [Callers -> {"idle", "abort", "take", "write", "mark", "poll", "spawn", "kill"}]
  /\ op \in [Callers -> Commands \cup {"none"}]
  /\ on \in [Callers -> 0..MaxGen]

(* The Task in the map is that of the last spawn: generations are given out in order. *)
SpawnInv ==
  \A g \in Gens : /\ child[g] # "none" <=> g <= current
                  /\ reader[g] = "off" <=> child[g] = "none"
                  /\ child[g] = "none" => task[g].stdin # "out"

(* A stdin handle that has left its Task is with one sender, which is writing. *)
HandInv ==
  /\ \A c \in Callers : on[c] # 0 <=> pc[c] = "write"
  /\ \A c \in Callers : on[c] # 0 => task[on[c]].stdin = "out"
  /\ \A c, d \in Callers : on[c] # 0 /\ on[c] = on[d] => c = d
  /\ \A g \in Gens : task[g].stdin = "out" => \E c \in Callers : on[c] = g

(* A call that has anything to do with the map's Task has found one there. *)
CallInv == \A c \in Callers : pc[c] = "mark" => current # 0

TaskInv == Typed /\ SpawnInv /\ HandInv /\ CallInv /\ HandleUntilExit

LEMMA InitTask ==
  ASSUME Init
  PROVE  TaskInv
<1>1. NoTask \in Task /\ NoTask.stdin = "gone"
  BY DEF NoTask, Task, Ended
<1>2. Typed
  <2>1. current \in 0..MaxGen /\ on \in [Callers -> 0..MaxGen]
    BY MaxGenAssumption DEF Init
  <2>2. op \in [Callers -> Commands \cup {"none"}]
    BY DEF Init
  <2> QED
    BY <1>1, <2>1, <2>2 DEF Init, Typed
<1> QED
  BY <1>1, <1>2 DEF Init, TaskInv, SpawnInv, HandInv, CallInv, HandleUntilExit, Gens

-----------------------------------------------------------------------------
(* The steps *)

(* A change of the status alone *)
LEMMA StatusChange ==
  ASSUME Typed, NEW g \in Gens, NEW s \in Open \cup Ended,
         Change(g, [task[g] EXCEPT !.status = s])
  PROVE  /\ task' \in [Gens -> Task]
         /\ \A h \in Gens : task'[h].stdin = task[h].stdin /\ task'[h].process = task[h].process
BY DEF Typed, Change, Task

(* What the exit of a process leaves of the Task in the map *)
LEMMA ReapedType ==
  ASSUME NEW t \in Task, NEW g \in Gens
  PROVE  /\ Reaped(t, g) \in Task
         /\ Reaped(t, g).stdin = "out" <=> t.stdin = "out"
         /\ Reaped(t, g).process = FALSE
         /\ Reaped(t, g).status \in Ended
<1> DEFINE exited == [t EXCEPT !.process = FALSE]
           closed == [exited EXCEPT !.stdin = IF exited.stdin = "in" THEN "gone" ELSE exited.stdin]
           status == IF closed.status \in Ended THEN closed.status
                     ELSE IF child[g] = "ok" THEN "Done" ELSE "Failed"
<1>1. exited \in Task /\ exited.process = FALSE /\ exited.stdin = t.stdin
  BY DEF Task
<1> HIDE DEF exited
<1>2. /\ closed \in Task /\ closed.process = FALSE
      /\ closed.stdin = "out" <=> t.stdin = "out"
  BY <1>1 DEF Task
<1> HIDE DEF closed
<1>3. status \in Ended
  BY DEF Ended
<1> HIDE DEF status
<1>4. LET r == [closed EXCEPT !.status = status]
      IN  /\ r \in Task /\ r.process = FALSE /\ r.status \in Ended
          /\ r.stdin = "out" <=> t.stdin = "out"
  BY <1>2, <1>3 DEF Task
<1>5. Reaped(t, g) = [closed EXCEPT !.status = status]
  BY DEF Reaped, exited, closed, status, Task
<1> QED
  BY <1>4, <1>5

(* A step that moves no handle, starts no process and ends no reader *)
LEMMA Unmoved ==
  ASSUME TaskInv, Typed', current' = current, reader' = reader, on' = on,
         \A g \in Gens : /\ child'[g] = "none" <=> child[g] = "none"
                         /\ task'[g].stdin = task[g].stdin
                         /\ task'[g].process = task[g].process,
         \A c \in Callers : /\ pc'[c] = "write" <=> pc[c] = "write"
                            /\ pc'[c] = "mark" => pc[c] = "mark"
  PROVE  TaskInv'
<1>1. SpawnInv' /\ CallInv'
  BY DEF TaskInv, SpawnInv, CallInv
<1>2. HandInv'
  <2>1. \A c \in Callers : on[c] # 0 => on[c] \in Gens
    BY MaxGenAssumption DEF TaskInv, Typed, Gens
  <2> QED
    BY <2>1 DEF TaskInv, HandInv
<1>3. HandleUntilExit'
  BY MaxGenAssumption DEF TaskInv, Typed, HandleUntilExit, Gens
<1> QED
  BY <1>1, <1>2, <1>3 DEF TaskInv

(* A call that goes on at l *)
LEMMA CallChange ==
  ASSUME Typed, NEW c \in Callers,
         NEW l \in {"idle", "abort", "take", "write", "mark", "poll", "spawn", "kill"}, Call(c, l)
  PROVE  /\ pc' = [pc EXCEPT ![c] = l]
         /\ pc' \in [Callers -> {"idle", "abort", "take", "write", "mark", "poll", "spawn", "kill"}]
         /\ op' \in [Callers -> Commands \cup {"none"}]
BY DEF Typed, Call

(* A command begins where is_running sends it. *)
LEMMA BeginStep ==
  ASSUME TaskInv, NEW c \in Callers, NEW o \in May[c], Begin(c, o)
  PROVE  TaskInv'
<1>1. o \in Commands
  BY MayAssumption
<1>2. PICK l \in {"abort", "spawn", "take"} : pc' = [pc EXCEPT ![c] = l]
  BY <1>1, Zenon DEF Begin, Commands
<1>3. /\ UNCHANGED <<taskVars, processVars, on>>
      /\ op' = [op EXCEPT ![c] = o] /\ pc[c] = "idle"
  BY DEF Begin
<1>4. Typed'
  BY <1>1, <1>2, <1>3 DEF TaskInv, Typed, taskVars, processVars
<1> QED
  BY <1>2, <1>3, <1>4, Unmoved DEF TaskInv, Typed, taskVars, processVars

(* What a command does to the Task changes neither its handle nor the process. *)
LEMMA OwnStep ==
  ASSUME TaskInv, NEW c \in Callers,
         \/ PollFree(c) \/ PollTimeout(c) \/ SpawnFailed(c) \/ Abort(c) \/ Mark(c) \/ Kill(c)
  PROVE  TaskInv'
<1>1. Typed
  BY DEF TaskInv
<1>2. ASSUME NEW l \in {"idle", "spawn", "kill", "take"}, Call(c, l), pc[c] # "write",
             current' = current, reader' = reader, late' = late, on' = on,
             child' \in [Gens -> {"none", "running", "ok", "failed"}],
             \A g \in Gens : child'[g] = "none" <=> child[g] = "none",
             task' \in [Gens -> Task],
             \A g \in Gens : /\ task'[g].stdin = task[g].stdin
                             /\ task'[g].process = task[g].process
      PROVE  TaskInv'
  <2>1. Typed'
    BY <1>1, <1>2, CallChange DEF Typed
  <2>2. \A d \in Callers : /\ pc'[d] = "write" <=> pc[d] = "write"
                           /\ pc'[d] = "mark" => pc[d] = "mark"
    BY <1>1, <1>2, CallChange DEF Typed
  <2> QED
    BY <1>2, <2>1, <2>2, Unmoved
<1> USE DEF Typed, taskVars, processVars
<1>3. CASE PollFree(c) \/ PollTimeout(c) \/ SpawnFailed(c)
  BY <1>1, <1>2, <1>3 DEF PollFree, PollTimeout, SpawnFailed
<1>4. CASE Abort(c)
  <2>1. CASE current # 0 /\ task[current].status \in Open
    <3>1. current \in Gens
      BY <1>1, <2>1, MaxGenAssumption DEF Gens
    <3>2. Change(current, [task[current] EXCEPT !.status = "Aborted"])
      BY <1>4, <2>1 DEF Abort
    <3> QED
      BY <1>1, <1>2, <1>4, <3>1, <3>2, StatusChange DEF Abort, Ended
  <2>2. CASE ~(current # 0 /\ task[current].status \in Open)
    BY <1>1, <1>2, <1>4, <2>2 DEF Abort
  <2> QED
    BY <2>1, <2>2
<1>5. CASE Mark(c)
  <2>1. current \in Gens
    BY <1>1, <1>5, MaxGenAssumption DEF TaskInv, CallInv, Mark, Gens
  <2>2. CASE task' = task
    BY <1>1, <1>2, <1>5, <2>2 DEF Mark
  <2>3. CASE task' # task
    <3>1. PICK to \in Open : Change(current, [task[current] EXCEPT !.status = to])
      BY <1>5, <2>3 DEF Mark, Open
    <3> QED
      BY <1>1, <1>2, <1>5, <2>1, <3>1, StatusChange DEF Mark
  <2> QED
    BY <2>2, <2>3
<1>6. CASE Kill(c)
  BY <1>1, <1>2, <1>6 DEF Kill
<1> QED
  BY <1>3, <1>4, <1>5, <1>6

(* A spawn takes the next generation, whose Task has its handle and a reader. *)
LEMMA SpawnStep ==
  ASSUME TaskInv, NEW c \in Callers, Spawn(c)
  PROVE  TaskInv'
<1>1. PICK g \in Gens : /\ child[g] = "none" /\ \A h \in Gens : h < g => child[h] # "none"
                        /\ current' = g
                        /\ Change(g, NewTask)
                        /\ child' = [child EXCEPT ![g] = "running"]
                        /\ Read(g, "read")
  BY DEF Spawn
<1>2. /\ Call(c, "idle") /\ late' = late /\ on' = on
      /\ pc[c] = "spawn"
  BY DEF Spawn
<1>3. current \in 0..MaxGen /\ MaxGen \in Nat /\ Typed
  BY MaxGenAssumption DEF TaskInv, Typed
<1>4. g = current + 1
  <2>1. g > current
    BY <1>1, <1>3 DEF TaskInv, SpawnInv, Gens
  <2>2. ~(current + 1 < g)
    BY <1>1, <1>3 DEF TaskInv, SpawnInv, Gens
  <2> QED
    BY <1>3, <2>1, <2>2 DEF Gens
<1>5. NewTask \in Task /\ NewTask.stdin = "in" /\ NewTask.process = TRUE
  BY DEF NewTask, Task, Open
<1>6. Typed'
  BY <1>1, <1>2, <1>3, <1>5, CallChange DEF Typed, Change, Read, Gens
<1>7. SpawnInv'
  <2> SUFFICES ASSUME NEW h \in Gens
               PROVE  /\ child'[h] # "none" <=> h <= current'
                      /\ reader'[h] = "off" <=> child'[h] = "none"
                      /\ child'[h] = "none" => task'[h].stdin # "out"
    BY DEF SpawnInv
  <2>1. CASE h = g
    BY <1>1, <1>3, <2>1 DEF Typed, Read, Gens
  <2>2. CASE h # g
    <3>1. child'[h] = child[h] /\ reader'[h] = reader[h] /\ task'[h] = task[h]
      BY <1>1, <1>3, <2>2 DEF Typed, Read, Change
    <3>2. h <= current' <=> h <= current
      BY <1>1, <1>3, <1>4, <2>2 DEF Gens
    <3> QED
      BY <3>1, <3>2 DEF TaskInv, SpawnInv
  <2> QED
    BY <2>1, <2>2
<1>8. /\ pc'[c] = "idle"
      /\ \A d \in Callers : d # c => pc'[d] = pc[d]
  BY <1>2, <1>3, CallChange DEF Typed
<1>9. CallInv'
  BY <1>1, <1>3, <1>8 DEF TaskInv, CallInv, Gens
<1>10. HandleUntilExit'
  BY <1>1, <1>3, <1>5 DEF Typed, HandleUntilExit, Change, Read
<1>11. HandInv'
  <2>1. task[g].stdin # "out" /\ \A d \in Callers : on[d] # g
    BY <1>1, <1>3 DEF TaskInv, SpawnInv, HandInv, Gens
  <2>2. \A h \in Gens : h # g => task'[h] = task[h]
    BY <1>1, <1>3 DEF Typed, Change
  <2>3. task'[g] = NewTask
    BY <1>1, <1>3 DEF Typed, Change
  <2>4. \A d \in Callers : on[d] # 0 => on[d] \in Gens \ {g}
    BY <1>3, <2>1 DEF Typed, Gens
  <2> QED
    BY <1>2, <1>5, <1>8, <2>1, <2>2, <2>3, <2>4 DEF TaskInv, HandInv
<1> QED
  BY <1>6, <1>7, <1>9, <1>10, <1>11 DEF TaskInv

(* A move of a stdin handle between its Task, which has been spawned, and a sender *)
LEMMA HandMoved ==
  ASSUME TaskInv, NEW c \in Callers, NEW g \in Gens, child[g] # "none",
         NEW t \in Task, t.process = task[g].process, Change(g, t),
         NEW k \in 0..MaxGen, on' = [on EXCEPT ![c] = k],
         NEW l \in {"idle", "write", "mark", "poll"}, Call(c, l),
         UNCHANGED <<current, processVars>>,
         HandInv'
  PROVE  TaskInv'
<1>1. Typed /\ current \in 0..MaxGen /\ MaxGen \in Nat /\ current # 0
  BY MaxGenAssumption DEF TaskInv, Typed, SpawnInv, Gens
<1>2. Typed'
  BY <1>1, CallChange DEF Typed, Change, processVars
<1>3. /\ \A h \in Gens : h # g => task'[h] = task[h]
      /\ task'[g] = t
  BY <1>1 DEF Typed, Change
<1>4. SpawnInv'
  BY <1>3 DEF TaskInv, SpawnInv, processVars
<1>5. CallInv'
  BY <1>1 DEF CallInv
<1>6. HandleUntilExit'
  BY <1>1, <1>3 DEF TaskInv, HandleUntilExit, processVars, Gens
<1> QED
  BY <1>2, <1>4, <1>5, <1>6 DEF TaskInv

(* send_stdin: the handle goes to the caller that finds it in the Task, and leaves it
   with the end of the write. *)
LEMMA SendStep ==
  ASSUME TaskInv, NEW c \in Callers, TakeStdin(c) \/ WriteStdin(c) \/ WriteFailed(c)
  PROVE  TaskInv'
<1>1. Typed /\ MaxGen \in Nat
  BY MaxGenAssumption DEF TaskInv
<1>2. \A o : \A b \in BOOLEAN : AfterSend(o, b) \in {"idle", "mark", "poll"}
  BY DEF AfterSend
<1>3. CASE TakeStdin(c) /\ IsRunning /\ task[current].stdin = "in"
  <2> DEFINE t == [task[current] EXCEPT !.stdin = "out"]
  <2>1. /\ current \in Gens /\ pc[c] = "take"
        /\ Change(current, t)
        /\ on' = [on EXCEPT ![c] = current]
        /\ Call(c, "write")
        /\ UNCHANGED <<current, processVars>>
    BY <1>1, <1>3 DEF TakeStdin, IsRunning, Typed, Gens
  <2>2. t \in Task /\ t.process = task[current].process /\ t.stdin = "out"
    BY <1>1, <2>1 DEF Typed, Task
  <2>3. child[current] # "none" /\ current \in 0..MaxGen
    BY <1>1, <2>1 DEF TaskInv, SpawnInv, Gens
  <2>4. \A d \in Callers : on[d] # current
    BY <1>3, <2>1, <1>1 DEF TaskInv, HandInv, Gens
  <2>5. /\ \A h \in Gens : h # current => task'[h] = task[h]
        /\ task'[current] = t
    BY <1>1, <2>1 DEF Typed, Change
  <2>6. /\ pc'[c] = "write" /\ on'[c] = current
        /\ \A d \in Callers : d # c => pc'[d] = pc[d] /\ on'[d] = on[d]
    BY <1>1, <2>1, CallChange DEF Typed
  <2>7. \A d \in Callers : on[d] # 0 => on[d] \in Gens
    BY <1>1 DEF Typed, Gens
  <2>8. current # 0
    BY <2>1 DEF Gens
  <2> HIDE DEF t
  <2>9. HandInv'
    <3>1. \A d \in Callers : /\ on'[d] # 0 <=> pc'[d] = "write"
                             /\ on'[d] # 0 => task'[on'[d]].stdin = "out"
      BY <2>2, <2>4, <2>5, <2>6, <2>7, <2>8 DEF TaskInv, HandInv
    <3>2. \A d, e \in Callers : on'[d] # 0 /\ on'[d] = on'[e] => d = e
      BY <2>4, <2>6, <2>8 DEF TaskInv, HandInv
    <3>3. \A h \in Gens : task'[h].stdin = "out" => \E d \in Callers : on'[d] = h
      <4> SUFFICES ASSUME NEW h \in Gens, h # current, task[h].stdin = "out"
                   PROVE  \E d \in Callers : on'[d] = h
        BY <2>5, <2>6
      <4>1. PICK d \in Callers : on[d] = h
        BY DEF TaskInv, HandInv
      <4>2. on[c] = 0
        BY <2>1 DEF TaskInv, HandInv
      <4> QED
        BY <2>6, <4>1, <4>2 DEF Gens
    <3> QED
      BY <3>1, <3>2, <3>3 DEF HandInv
  <2> QED
    BY <2>1, <2>2, <2>3, <2>9, HandMoved
<1>4. CASE TakeStdin(c) /\ ~(IsRunning /\ task[current].stdin = "in")
  <2>1. /\ pc[c] = "take" /\ UNCHANGED <<current, task, on, processVars>>
    BY <1>4 DEF TakeStdin
  <2>2. PICK l \in {"idle", "poll"} : Call(c, l)
    BY <1>4 DEF TakeStdin, AfterSend
  <2>3. Typed'
    BY <1>1, <2>1, <2>2, CallChange DEF Typed, processVars
  <2>4. \A d \in Callers : /\ pc'[d] = "write" <=> pc[d] = "write"
                           /\ pc'[d] = "mark" => pc[d] = "mark"
    BY <1>1, <2>1, <2>2, CallChange DEF Typed
  <2> QED
    BY <2>1, <2>3, <2>4, Unmoved DEF processVars
<1>5. CASE WriteStdin(c) \/ WriteFailed(c)
  <2> DEFINE g == on[c]
  <2>1. g \in Gens /\ pc[c] = "write" /\ task[g].stdin = "out"
    <3>1. pc[c] = "write"
      BY <1>5 DEF WriteStdin, WriteFailed
    <3> QED
      BY <1>1, <3>1 DEF TaskInv, Typed, HandInv, Gens
  <2>2. PICK s \in {"in", "gone"}, l \in {"idle", "mark", "poll"} :
          /\ Change(g, [task[g] EXCEPT !.stdin = s])
          /\ on' = [on EXCEPT ![c] = 0]
          /\ Call(c, l)
          /\ UNCHANGED <<current, processVars>>
    BY <1>2, <1>5 DEF WriteStdin, WriteFailed
  <2> DEFINE t == [task[g] EXCEPT !.stdin = s]
  <2>3. t \in Task /\ t.process = task[g].process /\ t.stdin = s
    BY <1>1, <2>1 DEF Typed, Task
  <2>4. child[g] # "none" /\ 0 \in 0..MaxGen
    BY <1>1, <2>1 DEF TaskInv, SpawnInv
  <2>5. \A d \in Callers : d # c => on[d] # g
    BY <2>1, <1>1 DEF TaskInv, HandInv, Gens
  <2>6. /\ \A h \in Gens : h # g => task'[h] = task[h]
        /\ task'[g] = t
    BY <1>1, <2>1, <2>2 DEF Typed, Change
  <2>7. /\ pc'[c] # "write" /\ on'[c] = 0
        /\ \A d \in Callers : d # c => pc'[d] = pc[d] /\ on'[d] = on[d]
    BY <1>1, <2>2, CallChange DEF Typed
  <2>8. \A d \in Callers : on[d] # 0 => on[d] \in Gens
    BY <1>1 DEF Typed, Gens
  <2>9. Change(g, t)
    BY <2>2
  <2> HIDE DEF t
  <2>10. HandInv'
    BY <2>3, <2>5, <2>6, <2>7, <2>8 DEF TaskInv, HandInv
  <2> QED
    BY <2>1, <2>2, <2>3, <2>4, <2>9, <2>10, HandMoved
<1> QED
  BY <1>3, <1>4, <1>5

(* The process and its reader: only the exit of the map's own process, or of an older
   one when the map's Task has no process either, ends the handle. *)
LEMMA WatchStep ==
  ASSUME TaskInv, NEW g \in Gens, Exit(g) \/ Watch(g)
  PROVE  TaskInv'
<1>1. Typed /\ current \in 0..MaxGen /\ MaxGen \in Nat
  BY MaxGenAssumption DEF TaskInv, Typed
<1>2. CASE Exit(g)
  <2>1. Typed' /\ child[g] # "none" /\ \A h \in Gens : child'[h] = "none" <=> child[h] = "none"
    BY <1>1, <1>2 DEF Exit, Typed, taskVars
  <2> QED
    BY <1>2, <2>1, Unmoved DEF Exit, taskVars
<1>3. CASE ReadMessage(g)
  <2>1. Typed'
    BY <1>1, <1>3 DEF ReadMessage, Typed, taskVars
  <2> QED
    BY <1>3, <2>1, Unmoved DEF ReadMessage, taskVars
<1>4. CASE ReadFailure(g)
  <2>1. Change(g, [task[g] EXCEPT !.status = "Failed"]) /\ UNCHANGED <<current, processVars, pc, op, on>>
    BY <1>4 DEF ReadFailure
  <2>2. Typed'
    BY <1>1, <2>1, StatusChange DEF Typed, Ended, processVars
  <2> QED
    BY <1>1, <2>1, <2>2, StatusChange, Unmoved DEF Ended, processVars
<1>5. CASE ReadEnd(g)
  <2>1. /\ reader[g] = "read" /\ reader' = [reader EXCEPT ![g] = "wait"]
        /\ UNCHANGED <<taskVars, child, late, pc, op, on>>
    BY <1>5 DEF ReadEnd, Read
  <2> QED
    BY <1>1, <2>1 DEF TaskInv, Typed, SpawnInv, HandInv, CallInv, HandleUntilExit, taskVars,
      Gens
<1>6. CASE Wait(g)
  <2>1. reader[g] = "wait" /\ current \in Gens /\ reader' = [reader EXCEPT ![g] = "done"]
        /\ UNCHANGED <<current, child, late, pc, op, on>>
    BY <1>1, <1>6 DEF Wait, Read, TaskInv, Typed, SpawnInv, Gens
  <2>2. CASE task[current].process /\ current # g
    <3>1. task' = task
      BY <1>6, <2>2 DEF Wait
    <3> QED
      BY <1>1, <2>1, <2>2, <3>1 DEF TaskInv, Typed, SpawnInv, HandInv, CallInv, HandleUntilExit,
        Gens
  <2>3. CASE ~(task[current].process /\ current # g)
    <3> DEFINE t == Reaped(task[current], g)
    <3>1. /\ t \in Task
          /\ t.stdin = "out" <=> task[current].stdin = "out"
          /\ t.process = FALSE
      BY <1>1, <2>1, ReapedType DEF Typed
    <3>2. task' = [task EXCEPT ![current] = t]
      BY <1>6, <2>3 DEF Wait, Change
    <3> HIDE DEF t
    <3>3. /\ \A h \in Gens : h # current => task'[h] = task[h]
          /\ task'[current] = t
          /\ task' \in [Gens -> Task]
      BY <1>1, <2>1, <3>1, <3>2 DEF Typed
    <3>4. Typed' /\ SpawnInv' /\ CallInv'
      BY <1>1, <2>1, <3>1, <3>3 DEF TaskInv, Typed, SpawnInv, CallInv
    <3>5. HandInv'
      <4>1. \A h \in Gens : task'[h].stdin = "out" <=> task[h].stdin = "out"
        BY <2>1, <3>1, <3>3
      <4>2. \A c \in Callers : on[c] # 0 => on[c] \in Gens
        BY <1>1 DEF Typed, Gens
      <4> QED
        BY <2>1, <4>1, <4>2 DEF TaskInv, HandInv
    <3>6. reader'[current] = "done"
      BY <1>1, <2>1, <2>3 DEF TaskInv, Typed, HandleUntilExit, Gens
    <3>7. HandleUntilExit'
      BY <2>1, <3>1, <3>3, <3>6 DEF HandleUntilExit
    <3> QED
      BY <3>4, <3>5, <3>7 DEF TaskInv
  <2> QED
    BY <2>2, <2>3
<1> QED
  BY <1>2, <1>3, <1>4, <1>5, <1>6 DEF Watch

LEMMA TaskInvariant == Spec => []TaskInv
<1>1. TaskInv /\ [Next]_vars => TaskInv'
  <2> SUFFICES ASSUME TaskInv, [Next]_vars
               PROVE  TaskInv'
    OBVIOUS
  <2>1. ASSUME NEW c \in Callers, Work(c)
        PROVE  TaskInv'
    <3>1. CASE Spawn(c)
      BY <3>1, SpawnStep
    <3>2. CASE TakeStdin(c) \/ WriteStdin(c) \/ WriteFailed(c)
      BY <3>2, SendStep
    <3> QED
      BY <2>1, <3>1, <3>2, OwnStep DEF Work
  <2>2. ASSUME NEW c \in Callers, NEW o \in May[c], Begin(c, o)
        PROVE  TaskInv'
    BY <2>2, BeginStep
  <2>3. ASSUME NEW g \in Gens, Exit(g) \/ Watch(g)
        PROVE  TaskInv'
    BY <2>3, WatchStep
  <2>4. CASE UNCHANGED vars
    BY <2>4 DEF vars, taskVars, processVars, TaskInv, Typed, SpawnInv, HandInv, CallInv,
      HandleUntilExit
  <2> QED
    BY <2>1, <2>2, <2>3, <2>4 DEF Next
<1> QED
  BY <1>1, InitTask, PTL DEF Spec

-----------------------------------------------------------------------------
(* The variables have their types, and a stdin handle that has left its Task is with
   exactly one sender: two commands never write to the process at the same time. *)
THEOREM TaskTyped == Spec => []TypeOK
<1>1. TaskInv => TypeOK
  <2> SUFFICES ASSUME TaskInv
               PROVE  TypeOK
    OBVIOUS
  <2>1. ASSUME NEW g \in Gens
        PROVE  task[g].stdin = "out" <=> Cardinality({c \in Callers : on[c] = g}) = 1
    <3>1. CASE \E c \in Callers : on[c] = g
      <4>1. PICK c \in Callers : on[c] = g
        BY <3>1
      <4>2. {d \in Callers : on[d] = g} = {c}
        BY <4>1, MaxGenAssumption DEF TaskInv, HandInv, Gens
      <4>3. task[g].stdin = "out"
        BY <4>1, MaxGenAssumption DEF TaskInv, HandInv, Gens
      <4> QED
        BY <4>2, <4>3, FS_Singleton
    <3>2. CASE ~\E c \in Callers : on[c] = g
      <4>1. {d \in Callers : on[d] = g} = {}
        BY <3>2
      <4>2. task[g].stdin # "out"
        BY <3>2 DEF TaskInv, HandInv
      <4> QED
        BY <4>1, <4>2, FS_EmptySet
    <3> QED
      BY <3>1, <3>2
  <2> QED
    BY <2>1 DEF TaskInv, Typed, TypeOK
<1> QED
  BY <1>1, TaskInvariant, PTL

(* The Task in the map has a process handle exactly as long as the reader of its own
   process has not seen the exit, for any number of callers and spawns
   (subprocess.rs:464-487). *)
THEOREM HandleKeptUntilExit == Spec => []HandleUntilExit
<1>1. TaskInv => HandleUntilExit
  BY DEF TaskInv
<1> QED
  BY <1>1, TaskInvariant, PTL

(* No step makes a task that has ended run again: late pauses and resumes, repeated
   starts, exits of its own and of older processes (subprocess.rs:482, 618, 637). *)
THEOREM EndedForGood == Spec => EndedStaysEnded
<1> DEFINE Stays == \A g \in Gens : child[g] # "none" /\ task[g].status \in Ended
                                      => task'[g].status \in Ended
<1>1. TaskInv /\ [Next]_vars => [Stays]_vars
  <2> SUFFICES ASSUME TaskInv, [Next]_vars, NEW g \in Gens, child[g] # "none",
                      task[g].status \in Ended
               PROVE  task'[g].status \in Ended
    BY DEF vars
  <2> USE MaxGenAssumption
  <2> USE DEF TaskInv, Typed, Gens, Task, Open, Ended, taskVars, processVars, Change
  <2>1. ASSUME NEW c \in Callers, Work(c)
        PROVE  task'[g].status \in Ended
    <3>1. CASE PollFree(c) \/ PollTimeout(c) \/ SpawnFailed(c) \/ Kill(c)
      BY <3>1 DEF PollFree, PollTimeout, SpawnFailed, Kill
    <3>2. CASE Spawn(c)
      BY <3>2 DEF Spawn
    <3>3. CASE Abort(c)
      BY <3>3 DEF Abort
    <3>4. CASE TakeStdin(c)
      BY ZenonT(60), <3>4 DEF TakeStdin, IsRunning
    <3>5. CASE WriteStdin(c) \/ WriteFailed(c)
      <4>1. PICK s \in {"in", "gone"} : task' = [task EXCEPT ![on[c]] = [task[on[c]] EXCEPT !.stdin = s]]
        BY <3>5 DEF WriteStdin, WriteFailed
      <4>2. [task[g] EXCEPT !.stdin = s].status = task[g].status
        OBVIOUS
      <4> QED
        BY <4>1, <4>2
    <3>6. CASE Mark(c)
      BY <3>6 DEF Mark
    <3> QED
      BY <2>1, <3>1, <3>2, <3>3, <3>4, <3>5, <3>6 DEF Work
  <2>2. ASSUME NEW c \in Callers, NEW o \in May[c], Begin(c, o)
        PROVE  task'[g].status \in Ended
    BY <2>2 DEF Begin
  <2>3. ASSUME NEW h \in Gens, Exit(h) \/ Watch(h)
        PROVE  task'[g].status \in Ended
    <3>1. CASE Exit(h) \/ ReadMessage(h) \/ ReadEnd(h)
      BY <3>1 DEF Exit, ReadMessage, ReadEnd
    <3>2. CASE ReadFailure(h)
      BY <3>2 DEF ReadFailure
    <3>3. CASE Wait(h)
      <4>1. current \in Gens
        BY <3>3 DEF Wait, SpawnInv
      <4>2. task' = task \/ task' = [task EXCEPT ![current] = Reaped(task[current], h)]
        BY <3>3 DEF Wait
      <4> HIDE DEF Task, Ended
      <4>3. Reaped(task[current], h).status \in Ended
        BY <4>1, ReapedType
      <4> QED
        BY <4>1, <4>2, <4>3
    <3> QED
      BY <2>3, <3>1, <3>2, <3>3 DEF Watch
  <2>4. CASE UNCHANGED vars
    BY <2>4 DEF vars
  <2> QED
    BY <2>1, <2>2, <2>3, <2>4 DEF Next
<1> QED
  BY <1>1, TaskInvariant, PTL DEF Spec, EndedStaysEnded
=============================================================================
