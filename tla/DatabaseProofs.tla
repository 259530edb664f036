----------------------------- MODULE DatabaseProofs ----------------------------
(* Theorems about the two users of the gateway's database, for every value of their
   constants. AccessControl: the lists and the mode in memory agree with the tables when
   commands under way touch different things (~Overlap), LAN sharing admits the whole subnet
   it is turned on in, and what it adds stays in that subnet. RequestLog: the row of a
   request says what was answered when its jobs are not late (Prompt). *)
EXTENDS AccessControl, RequestLog, TLAPS

Things == (Lists \X Entries) \cup {<<"mode">>, <<"bind">>}
Ops == {"none", "add", "remove", "config", "enable", "disable"}
LanOf == {<< >>, Loopback} \cup Lans

AddSteps == [do : {"add"}, list : Lists, entry : Entries, expires : {"never", "due"},
             lan : LanOf]
MemSteps == [do : {"insert", "erase"}, list : Lists, entry : Entries]
RemoveSteps == [do : {"remove"}, list : Lists, entry : Entries, id : Nat]
ModeStep == [do : {"mode", "apply"}, to : Modes]
BindSteps == [do : {"bind"}, to : {"127.0.0.1", "0.0.0.0"}]
Step == AddSteps \cup MemSteps \cup RemoveSteps \cup ModeStep \cup BindSteps

(* Types, with what the tables guarantee: an id and an entry name at most one row. *)
WellTyped ==
  /\ TypeOK
  /\ rows \in [Lists -> SUBSET Row] /\ mem \in [Lists -> SUBSET Entries] /\ ids \in [Lists -> Nat]
  /\ todo \in [Calls -> Seq(Step)]
  /\ job \in [Calls -> [op : Ops, lan : LanOf, on : SUBSET Things]]

(* An automatic entry is the loopback or the one of the network it was made for. *)
Automatic(e, lan) ==
  \/ lan = << >>
  \/ lan = Loopback /\ e = <<Loopback, Exact>>
  \/ lan \in Lans \ {<< >>} /\ e = LanEntry(lan)

(* The row that x, a row of a page or a remove, names has the entry x says, if it is
   still in the table: no id the table has given is used again. *)
Names(x, given, table) ==
  x.id <= given[x.list] /\ \A r \in table[x.list] : r.id = x.id => r.entry = x.entry

StepInv(s, given, table) ==
  /\ s.do = "add" => (s.list = "white" => s.expires = "never") /\ Automatic(s.entry, s.lan)
  /\ s.do = "remove" => Names(s, given, table)

RowInv ==
  /\ \A r \in rows["white"] : r.expires = "never"
  /\ \A l \in Lists : \A r \in rows[l] : Automatic(r.entry, r.lan)
  /\ \A x \in shown : Names(x, ids, rows)
  /\ \A c \in Calls : \A i \in DOMAIN todo[c] : StepInv(todo[c][i], ids, rows)

(* The order of a command's steps: memory right after its table, the mode last. *)
Ordered(steps) ==
  \A i \in DOMAIN steps :
    /\ steps[i].do \in {"insert", "erase"} => i = 1
    /\ steps[i].do = "mode" => i + 1 \in DOMAIN steps /\ steps[i + 1].do = "apply"
                                                      /\ steps[i + 1].to = steps[i].to
    /\ steps[i].do = "apply" => i = Len(steps) /\ (i > 1 => steps[i - 1].do = "mode")

OrderInv == \A c \in Calls : Ordered(todo[c])

(* A command has claimed what its steps will touch, and nobody else has. *)
ClaimInv ==
  \A c \in Calls :
    /\ todo[c] = << >> => job[c] = NoJob
    /\ \A i \in DOMAIN todo[c] : Touches(todo[c][i]) \subseteq job[c].on
    /\ \A d \in Calls : c # d => job[c].on \cap job[d].on = {}

(* What stands between a table and the memory: an insert whose row is there, an erase whose
   row is not, an apply of the mode in the table. *)
PendingInv ==
  \A c \in Calls :
    /\ At(c, "insert") => \E r \in rows[Head(todo[c]).list] : r.entry = Head(todo[c]).entry
    /\ At(c, "erase") => \A r \in rows[Head(todo[c]).list] : r.entry # Head(todo[c]).entry
    /\ At(c, "apply") => Head(todo[c]).to = mode

(* LAN sharing's command has put its entries in memory or still will, and ends with the
   mode that reads them. *)
LanEntries(lan) == {<<Loopback, Exact>>} \cup (IF lan = << >> THEN {} ELSE {LanEntry(lan)})

EnableInv ==
  \A c \in Calls : job[c].op = "enable" =>
    /\ \A i \in DOMAIN todo[c] :
         /\ todo[c][i].do \notin {"remove", "erase"}
         /\ todo[c][i].do \in {"mode", "apply"} => todo[c][i].to = "whitelist"
    /\ \A e \in LanEntries(job[c].lan) :
         /\ <<"white", e>> \in job[c].on
         /\ \/ e \in mem["white"]
            \/ \E i \in DOMAIN todo[c] : /\ todo[c][i].do \in {"add", "insert"}
                                         /\ todo[c][i].list = "white" /\ todo[c][i].entry = e

-----------------------------------------------------------------------------
(* Steps and sequences of steps. *)

LEMMA Hosted ==
  /\ << >> # Loopback /\ Loopback \in LanOf /\ << >> \in LanOf
  /\ <<Loopback, Exact>> \in Entries
  /\ \A lan \in Lans \ {<< >>} : LanEntry(lan) \in Entries /\ lan \in LanOf
BY DEF Loopback, LanOf, Entries, Hosts

(* What each step touches. *)
LEMMA StepTouches ==
  ASSUME NEW s \in Step
  PROVE  /\ s.do \in {"add", "insert", "remove", "erase"} =>
              /\ s.list \in Lists /\ s.entry \in Entries /\ Touches(s) = {<<s.list, s.entry>>}
         /\ s.do \in {"mode", "apply"} => s.to \in Modes /\ Touches(s) = {<<"mode">>}
         /\ s.do = "bind" => s.to \in {"127.0.0.1", "0.0.0.0"} /\ Touches(s) = {<<"bind">>}
         /\ s.do \in {"add", "insert", "remove", "erase", "mode", "apply", "bind"}
         /\ s.do = "add" => s.expires \in {"never", "due"} /\ s.lan \in LanOf
         /\ s.do = "remove" => s.id \in Nat
         /\ Touches(s) \subseteq Things
<1>1. CASE s \in AddSteps
  BY <1>1 DEF AddSteps, Touches, Things
<1>2. CASE s \in MemSteps
  BY <1>2 DEF MemSteps, Touches, Things
<1>3. CASE s \in RemoveSteps
  BY <1>3 DEF RemoveSteps, Touches, Things
<1>4. CASE s \in ModeStep
  BY <1>4 DEF ModeStep, Touches, Things
<1>5. CASE s \in BindSteps
  BY <1>5 DEF BindSteps, Touches, Things
<1> QED
  BY <1>1, <1>2, <1>3, <1>4, <1>5 DEF Step

(* The steps that commands are made of. *)
LEMMA StepsMade ==
  /\ \A l \in Lists, e \in Entries, x \in {"never", "due"}, lan \in LanOf :
       AddStep(l, e, x, lan) \in Step
  /\ \A l \in Lists, e \in Entries, do \in {"insert", "erase"} : MemStep(do, l, e) \in Step
  /\ \A r \in Listed : RemoveStep(r) \in Step
  /\ \A m \in Modes : [do |-> "mode", to |-> m] \in Step /\ [do |-> "apply", to |-> m] \in Step
  /\ \A to \in {"127.0.0.1", "0.0.0.0"} : BindStep(to) \in Step
BY DEF AddStep, MemStep, RemoveStep, BindStep, Step, AddSteps, MemSteps, RemoveSteps, ModeStep,
       BindSteps, Listed

EnableSteps(lan) ==
  <<BindStep("0.0.0.0"), AddStep("white", <<Loopback, Exact>>, "never", Loopback)>>
  \o (IF lan = << >> THEN << >> ELSE <<AddStep("white", LanEntry(lan), "never", lan)>>)
  \o ModeSteps("whitelist")

DisableSteps == <<BindStep("127.0.0.1")>> \o ModeSteps("off")

LEMMA EnableStepsAre ==
  ASSUME NEW lan \in Lans
  PROVE  /\ EnableSteps(lan) \in Seq(Step)
         /\ EnableSteps(lan)[1] = BindStep("0.0.0.0")
         /\ EnableSteps(lan)[2] = AddStep("white", <<Loopback, Exact>>, "never", Loopback)
         /\ lan = << >> =>
              /\ Len(EnableSteps(lan)) = 4
              /\ EnableSteps(lan)[3] = [do |-> "mode", to |-> "whitelist"]
              /\ EnableSteps(lan)[4] = [do |-> "apply", to |-> "whitelist"]
         /\ lan # << >> =>
              /\ Len(EnableSteps(lan)) = 5
              /\ EnableSteps(lan)[3] = AddStep("white", LanEntry(lan), "never", lan)
              /\ EnableSteps(lan)[4] = [do |-> "mode", to |-> "whitelist"]
              /\ EnableSteps(lan)[5] = [do |-> "apply", to |-> "whitelist"]
<1> DEFINE b == BindStep("0.0.0.0")
           a == AddStep("white", <<Loopback, Exact>>, "never", Loopback)
           n == AddStep("white", LanEntry(lan), "never", lan)
           m == [do |-> "mode", to |-> "whitelist"]
           p == [do |-> "apply", to |-> "whitelist"]
<1>1. b \in Step /\ a \in Step /\ m \in Step /\ p \in Step
  BY StepsMade, Hosted DEF Modes, Lists
<1>2. lan # << >> => n \in Step
  BY StepsMade, Hosted DEF Lists
<1>3. EnableSteps(lan) = <<b, a>> \o (IF lan = << >> THEN << >> ELSE <<n>>) \o <<m, p>>
  BY DEF EnableSteps, ModeSteps
<1> HIDE DEF b, a, n, m, p
<1>4. CASE lan = << >>
  <2>1. <<b, a>> \o << >> = <<b, a>>
    BY <1>1
  <2>2. EnableSteps(lan) = <<b, a>> \o <<m, p>>
    BY <1>3, <1>4, <2>1
  <2>3. /\ EnableSteps(lan) \in Seq(Step) /\ Len(EnableSteps(lan)) = 4
        /\ EnableSteps(lan)[1] = b /\ EnableSteps(lan)[2] = a
        /\ EnableSteps(lan)[3] = m /\ EnableSteps(lan)[4] = p
    BY <1>1, <2>2
  <2> QED
    BY <2>3, <1>4 DEF b, a, m, p
<1>5. CASE lan # << >>
  <2>1. EnableSteps(lan) = <<b, a>> \o <<n>> \o <<m, p>>
    BY <1>3, <1>5
  <2>2. /\ EnableSteps(lan) \in Seq(Step) /\ Len(EnableSteps(lan)) = 5
        /\ EnableSteps(lan)[1] = b /\ EnableSteps(lan)[2] = a
        /\ EnableSteps(lan)[3] = n
        /\ EnableSteps(lan)[4] = m /\ EnableSteps(lan)[5] = p
    BY <1>1, <1>2, <1>5, <2>1
  <2> QED
    BY <2>2, <1>5 DEF b, a, n, m, p
<1> QED
  BY <1>4, <1>5

LEMMA DisableStepsAre ==
  /\ DisableSteps \in Seq(Step) /\ Len(DisableSteps) = 3
  /\ DisableSteps[1] = BindStep("127.0.0.1")
  /\ DisableSteps[2] = [do |-> "mode", to |-> "off"]
  /\ DisableSteps[3] = [do |-> "apply", to |-> "off"]
<1> DEFINE b == BindStep("127.0.0.1")
           m == [do |-> "mode", to |-> "off"]
           p == [do |-> "apply", to |-> "off"]
<1>1. b \in Step /\ m \in Step /\ p \in Step
  BY StepsMade DEF Modes
<1>2. DisableSteps = <<b>> \o <<m, p>>
  BY DEF DisableSteps, ModeSteps
<1> HIDE DEF b, m, p
<1>3. /\ DisableSteps \in Seq(Step) /\ Len(DisableSteps) = 3
      /\ DisableSteps[1] = b /\ DisableSteps[2] = m /\ DisableSteps[3] = p
  BY <1>1, <1>2
<1> QED
  BY <1>3 DEF b, m, p

(* A command that starts has its steps, and has claimed what they touch. *)
LEMMA Started ==
  ASSUME WellTyped, NEW c \in Calls, NEW op \in Ops, NEW lan \in LanOf,
         NEW steps \in Seq(Step), Start(c, op, lan, steps)
  PROVE  /\ todo' \in [Calls -> Seq(Step)]
         /\ job' \in [Calls -> [op : Ops, lan : LanOf, on : SUBSET Things]]
         /\ todo[c] = << >> /\ todo'[c] = steps
         /\ job'[c] = [op |-> op, lan |-> lan, on |-> TouchedBy(steps)]
         /\ \A d \in Calls \ {c} : todo'[d] = todo[d] /\ job'[d] = job[d]
         /\ \A i \in DOMAIN steps : Touches(steps[i]) \subseteq TouchedBy(steps)
         /\ ~Overlap => \A d \in Calls : job[d].on \cap TouchedBy(steps) = {}
<1>1. \A i \in DOMAIN steps : steps[i] \in Step
  OBVIOUS
<1>2. TouchedBy(steps) \subseteq Things
  BY <1>1, StepTouches DEF TouchedBy
<1>3. \A i \in DOMAIN steps : Touches(steps[i]) \subseteq TouchedBy(steps)
  BY DEF TouchedBy
<1> HIDE DEF TouchedBy
<1> QED
  BY <1>2, <1>3 DEF Start, WellTyped

(* A step that is followed by nothing new. *)
LEMMA StepDone ==
  ASSUME WellTyped, NEW c \in Calls, todo[c] # << >>, Then(c, << >>)
  PROVE  /\ todo' \in [Calls -> Seq(Step)]
         /\ job' \in [Calls -> [op : Ops, lan : LanOf, on : SUBSET Things]]
         /\ \A d \in Calls \ {c} : todo'[d] = todo[d] /\ job'[d] = job[d]
         /\ Head(todo[c]) = todo[c][1] /\ 1 \in DOMAIN todo[c] /\ todo[c][1] \in Step
         /\ Len(todo'[c]) = Len(todo[c]) - 1
         /\ \A i \in DOMAIN todo'[c] : i + 1 \in DOMAIN todo[c] /\ todo'[c][i] = todo[c][i + 1]
         /\ \A i \in DOMAIN todo[c] : i = 1 \/ i - 1 \in DOMAIN todo'[c]
         /\ IF todo'[c] = << >> THEN job'[c] = NoJob ELSE job'[c] = job[c]
<1>1. todo'[c] = Tail(todo[c]) /\ Tail(todo[c]) \in Seq(Step)
  BY DEF Then, WellTyped
<1>2. NoJob \in [op : Ops, lan : LanOf, on : SUBSET Things]
  BY Hosted DEF NoJob, Ops
<1> QED
  BY <1>1, <1>2 DEF Then, WellTyped

(* A step on a table that is followed by one on the memory. *)
LEMMA StepReplaced ==
  ASSUME WellTyped, NEW c \in Calls, todo[c] # << >>, NEW s \in Step, Then(c, <<s>>)
  PROVE  /\ todo' \in [Calls -> Seq(Step)]
         /\ job' = job
         /\ \A d \in Calls \ {c} : todo'[d] = todo[d]
         /\ Head(todo[c]) = todo[c][1] /\ 1 \in DOMAIN todo[c] /\ todo[c][1] \in Step
         /\ DOMAIN todo'[c] = DOMAIN todo[c] /\ Len(todo'[c]) = Len(todo[c])
         /\ todo'[c] # << >>
         /\ todo'[c][1] = s /\ Head(todo'[c]) = s
         /\ \A i \in DOMAIN todo[c] : i # 1 => todo'[c][i] = todo[c][i]
<1>1. todo'[c] = <<s>> \o Tail(todo[c]) /\ <<s>> \o Tail(todo[c]) \in Seq(Step)
  BY DEF Then, WellTyped
<1> QED
  BY <1>1 DEF Then, WellTyped

-----------------------------------------------------------------------------
(* What holds whatever commands overlap: the types, and what rows and pages say. *)

LEMMA InitTyped ==
  ASSUME Init
  PROVE  WellTyped /\ RowInv
<1>1. NoJob \in [op : Ops, lan : LanOf, on : SUBSET Things]
  BY Hosted DEF NoJob, Ops
<1>2. << >> \in Seq(Step)
  OBVIOUS
<1> QED
  BY <1>1, <1>2, MaxIdsAssumption
  DEF Init, WellTyped, TypeOK, RowInv, Modes, Lists, Ops, NoJob

(* A command that starts, with steps that fit the tables. *)
LEMMA StartTyped ==
  ASSUME WellTyped, RowInv, NEW c \in Calls, NEW op \in Ops, NEW lan \in LanOf,
         NEW steps \in Seq(Step), Start(c, op, lan, steps),
         \A i \in DOMAIN steps : StepInv(steps[i], ids, rows),
         shown' \subseteq shown, UNCHANGED <<rows, ids, mode, mem, memMode, bind>>
  PROVE  WellTyped' /\ RowInv'
<1>1. WellTyped'
  BY ZenonT(60), Started DEF WellTyped, TypeOK, Ops
<1>2. \A d \in Calls : \A i \in DOMAIN todo'[d] : StepInv(todo'[d][i], ids, rows)
  <2> SUFFICES ASSUME NEW d \in Calls, NEW i \in DOMAIN todo'[d]
               PROVE  StepInv(todo'[d][i], ids, rows)
    OBVIOUS
  <2>1. CASE d = c
    BY <2>1, Started
  <2>2. CASE d # c
    <3>1. todo'[d] = todo[d]
      BY <2>2, Started
    <3> QED
      BY <3>1 DEF RowInv
  <2> QED
    BY <2>1, <2>2
<1>3. \A d \in Calls : \A i \in DOMAIN todo'[d] : StepInv(todo'[d][i], ids', rows')
  BY <1>2 DEF StepInv, Names
<1>4. \A x \in shown' : Names(x, ids', rows')
  BY DEF RowInv, Names
<1> QED
  BY <1>1, <1>3, <1>4 DEF RowInv

LEMMA AddTyped ==
  ASSUME WellTyped, RowInv, NEW c \in Calls, Add(c)
  PROVE  WellTyped' /\ RowInv'
<1>1. PICK l \in Lists, e \in Typed, x \in {"never", "due"} :
        /\ l = "white" => x = "never"
        /\ Start(c, "add", << >>, <<AddStep(l, e, x, << >>)>>)
  BY DEF Add
<1>2. e \in Entries
  BY DEF Entries
<1> DEFINE s == AddStep(l, e, x, << >>)
<1>3. s \in Step
  BY <1>2, StepsMade, Hosted
<1>4. StepInv(s, ids, rows)
  BY <1>1 DEF StepInv, AddStep, Automatic
<1> HIDE DEF s
<1>5. <<s>> \in Seq(Step) /\ \A i \in DOMAIN <<s>> : StepInv(<<s>>[i], ids, rows)
  BY <1>3, <1>4
<1> QED
  BY <1>1, <1>5, StartTyped, Hosted DEF Add, Ops, s

LEMMA RemoveTyped ==
  ASSUME WellTyped, RowInv, NEW c \in Calls, Remove(c)
  PROVE  WellTyped' /\ RowInv'
<1>1. PICK r \in shown :
        Start(c, "remove", << >>, <<RemoveStep(r)>>) /\ shown' = shown \ {r}
  BY DEF Remove
<1> DEFINE s == RemoveStep(r)
<1>3. s \in Step
  BY StepsMade DEF WellTyped, TypeOK
<1>4. StepInv(s, ids, rows)
  BY <1>1 DEF StepInv, RemoveStep, RowInv, Names
<1> HIDE DEF s
<1>5. <<s>> \in Seq(Step) /\ \A i \in DOMAIN <<s>> : StepInv(<<s>>[i], ids, rows)
  BY <1>3, <1>4
<1> QED
  BY <1>1, <1>5, StartTyped, Hosted DEF Remove, Ops, s

LEMMA UpdateConfigTyped ==
  ASSUME WellTyped, RowInv, NEW c \in Calls, UpdateConfig(c)
  PROVE  WellTyped' /\ RowInv'
<1>1. PICK m \in Modes : Start(c, "config", << >>, ModeSteps(m))
  BY DEF UpdateConfig
<1>2. /\ ModeSteps(m) \in Seq(Step) /\ Len(ModeSteps(m)) = 2
      /\ ModeSteps(m)[1] = [do |-> "mode", to |-> m] /\ ModeSteps(m)[2] = [do |-> "apply", to |-> m]
  BY StepsMade DEF ModeSteps
<1>3. \A i \in DOMAIN ModeSteps(m) : StepInv(ModeSteps(m)[i], ids, rows)
  BY <1>2 DEF StepInv
<1> QED
  BY <1>1, <1>2, <1>3, StartTyped, Hosted DEF UpdateConfig, Ops

LEMMA EnableTyped ==
  ASSUME WellTyped, RowInv, NEW c \in Calls, EnableLanSharing(c)
  PROVE  WellTyped' /\ RowInv'
<1>1. PICK lan \in Lans : Start(c, "enable", lan, EnableSteps(lan))
  BY DEF EnableLanSharing, EnableSteps
<1>2. \A i \in DOMAIN EnableSteps(lan) : StepInv(EnableSteps(lan)[i], ids, rows)
  <2> SUFFICES ASSUME NEW i \in DOMAIN EnableSteps(lan)
               PROVE  StepInv(EnableSteps(lan)[i], ids, rows)
    OBVIOUS
  <2>1. /\ StepInv(BindStep("0.0.0.0"), ids, rows)
        /\ StepInv(AddStep("white", <<Loopback, Exact>>, "never", Loopback), ids, rows)
        /\ lan # << >> => StepInv(AddStep("white", LanEntry(lan), "never", lan), ids, rows)
        /\ StepInv([do |-> "mode", to |-> "whitelist"], ids, rows)
        /\ StepInv([do |-> "apply", to |-> "whitelist"], ids, rows)
    BY DEF StepInv, AddStep, BindStep, Automatic
  <2>2. CASE lan = << >>
    <3>1. i \in 1..4
      BY <2>2, EnableStepsAre
    <3> QED
      BY <2>1, <2>2, <3>1, EnableStepsAre
  <2>3. CASE lan # << >>
    <3>1. i \in 1..5
      BY <2>3, EnableStepsAre
    <3> QED
      BY <2>1, <2>3, <3>1, EnableStepsAre
  <2> QED
    BY <2>2, <2>3
<1> QED
  BY <1>1, <1>2, StartTyped, EnableStepsAre DEF EnableLanSharing, Ops, LanOf

LEMMA DisableTyped ==
  ASSUME WellTyped, RowInv, NEW c \in Calls, DisableLanSharing(c)
  PROVE  WellTyped' /\ RowInv'
<1>1. Start(c, "disable", << >>, DisableSteps)
  BY DEF DisableLanSharing, DisableSteps
<1>2. \A i \in DOMAIN DisableSteps : StepInv(DisableSteps[i], ids, rows)
  BY DisableStepsAre DEF StepInv, BindStep
<1> QED
  BY <1>1, <1>2, StartTyped, DisableStepsAre, Hosted DEF DisableLanSharing, Ops

(* A step done leaves what the others have to do. *)
LEMMA DoneSteps ==
  ASSUME WellTyped, RowInv, NEW c \in Calls, todo[c] # << >>, Then(c, << >>)
  PROVE  \A d \in Calls : \A i \in DOMAIN todo'[d] : StepInv(todo'[d][i], ids, rows)
<1> QED
  BY StepDone DEF RowInv

LEMMA ReplacedSteps ==
  ASSUME WellTyped, RowInv, NEW c \in Calls, todo[c] # << >>, NEW s \in Step,
         StepInv(s, ids, rows), Then(c, <<s>>)
  PROVE  \A d \in Calls : \A i \in DOMAIN todo'[d] : StepInv(todo'[d][i], ids, rows)
<1> SUFFICES ASSUME NEW d \in Calls, NEW i \in DOMAIN todo'[d]
             PROVE  StepInv(todo'[d][i], ids, rows)
  OBVIOUS
<1>1. CASE d = c /\ i = 1
  BY <1>1, StepReplaced
<1>2. CASE d = c /\ i # 1
  <2>1. i \in DOMAIN todo[c] /\ todo'[c][i] = todo[c][i]
    BY <1>2, StepReplaced
  <2> QED
    BY <1>2, <2>1 DEF RowInv
<1>3. CASE d # c
  <2>1. todo'[d] = todo[d]
    BY <1>3, StepReplaced
  <2> QED
    BY <2>1 DEF RowInv
<1> QED
  BY <1>1, <1>2, <1>3

LEMMA PlainTyped ==
  ASSUME WellTyped, RowInv, NEW c \in Calls,
         Bind(c) \/ Insert(c) \/ Erase(c) \/ WriteMode(c) \/ ApplyMode(c)
  PROVE  WellTyped' /\ RowInv'
<1>1. todo[c] # << >> /\ Then(c, << >>) /\ UNCHANGED <<rows, ids, shown>>
  BY DEF Bind, Insert, Erase, WriteMode, ApplyMode, At
<1>2. WellTyped'
  <2>1. /\ todo' \in [Calls -> Seq(Step)]
        /\ job' \in [Calls -> [op : Ops, lan : LanOf, on : SUBSET Things]]
        /\ Head(todo[c]) \in Step
    BY <1>1, StepDone
  <2>2. bind' \in {"127.0.0.1", "0.0.0.0"} /\ mode' \in Modes /\ memMode' \in Modes
    BY <2>1, StepTouches
    DEF Bind, Insert, Erase, WriteMode, ApplyMode, At, WellTyped, TypeOK
  <2>3. mem' \in [Lists -> SUBSET Entries]
    <3>1. CASE Insert(c) \/ Erase(c)
      <4>1. Head(todo[c]).list \in Lists /\ Head(todo[c]).entry \in Entries
        BY <2>1, <3>1, StepTouches DEF Insert, Erase, At
      <4>2. \/ mem' = [mem EXCEPT ![Head(todo[c]).list] = @ \cup {Head(todo[c]).entry}]
            \/ mem' = [mem EXCEPT ![Head(todo[c]).list] = @ \ {Head(todo[c]).entry}]
        BY <3>1 DEF Insert, Erase
      <4> DEFINE l == Head(todo[c]).list
                 e == Head(todo[c]).entry
      <4> HIDE DEF l, e
      <4>3. l \in Lists /\ e \in Entries
        BY <4>1 DEF l, e
      <4>4. \/ mem' = [mem EXCEPT ![l] = @ \cup {e}]
            \/ mem' = [mem EXCEPT ![l] = @ \ {e}]
        BY <4>2 DEF l, e
      <4>5. mem \in [Lists -> SUBSET Entries] /\ mem[l] \subseteq Entries
        BY <4>3 DEF WellTyped
      <4> QED
        BY <4>3, <4>4, <4>5
    <3>2. CASE Bind(c) \/ WriteMode(c) \/ ApplyMode(c)
      BY <3>2 DEF Bind, WriteMode, ApplyMode, WellTyped
    <3> QED
      BY <3>1, <3>2
  <2> QED
    BY <1>1, <2>1, <2>2, <2>3 DEF WellTyped, TypeOK, Ops
<1>3. \A d \in Calls : \A i \in DOMAIN todo'[d] : StepInv(todo'[d][i], ids', rows')
  BY <1>1, DoneSteps DEF StepInv, Names
<1> QED
  BY <1>1, <1>2, <1>3 DEF RowInv, Names

LEMMA AddRowTyped ==
  ASSUME WellTyped, RowInv, NEW c \in Calls, AddRow(c)
  PROVE  WellTyped' /\ RowInv'
<1> DEFINE s == Head(todo[c])
<1>1. todo[c] # << >> /\ s.do = "add"
  BY DEF AddRow, At
<1>2. s \in Step /\ StepInv(s, ids, rows) /\ s = todo[c][1] /\ 1 \in DOMAIN todo[c]
  BY <1>1 DEF WellTyped, RowInv
<1> HIDE DEF s
<1>3. CASE \E r \in rows[s.list] : r.entry = s.entry
  <2>1. Then(c, << >>) /\ UNCHANGED <<rows, ids, mode, mem, memMode, bind, shown>>
    BY <1>3 DEF AddRow, s
  <2>2. WellTyped'
    BY <1>1, <2>1, StepDone DEF WellTyped, TypeOK, Ops
  <2>3. \A d \in Calls : \A i \in DOMAIN todo'[d] : StepInv(todo'[d][i], ids', rows')
    BY <1>1, <2>1, DoneSteps DEF StepInv, Names
  <2> QED
    BY <2>1, <2>2, <2>3 DEF RowInv, Names
<1>4. CASE ~ \E r \in rows[s.list] : r.entry = s.entry
  <2> DEFINE new == [id |-> ids[s.list] + 1, entry |-> s.entry, expires |-> s.expires,
                     lan |-> s.lan]
             t == MemStep("insert", s.list, s.entry)
  <2>1. /\ ids[s.list] < MaxIds[s.list]
        /\ ids' = [ids EXCEPT ![s.list] = @ + 1]
        /\ rows' = [rows EXCEPT ![s.list] = @ \cup {new}]
        /\ Then(c, <<t>>)
        /\ UNCHANGED <<mode, mem, memMode, bind, shown>>
    BY <1>4 DEF AddRow, s
  <2>2. s.list \in Lists /\ s.entry \in Entries /\ s.expires \in {"never", "due"} /\ s.lan \in LanOf
    BY <1>1, <1>2, StepTouches
  <2>3. t \in Step /\ StepInv(t, ids, rows)
    BY <2>2, StepsMade DEF MemStep, StepInv
  <2>4. ids[s.list] \in Nat /\ MaxIds[s.list] \in Nat
    BY <2>2, MaxIdsAssumption DEF WellTyped, Lists
  <2>5. new \in Row /\ new.id = ids[s.list] + 1 /\ new.entry = s.entry /\ new.expires = s.expires
        /\ new.lan = s.lan
    BY <2>2, <2>4 DEF Row, LanOf
  <2> HIDE DEF new, t
  <2>6. /\ todo' \in [Calls -> Seq(Step)] /\ job' = job
        /\ \A d \in Calls : \A i \in DOMAIN todo'[d] : StepInv(todo'[d][i], ids, rows)
    BY <1>1, <2>1, <2>3, ReplacedSteps, StepReplaced
  <2>7. \A l \in Lists : \A r \in rows[l] : r \in Row /\ r.id \in Nat /\ r.id <= ids[l]
    BY DEF WellTyped, TypeOK, Row
  <2>8. WellTyped'
    <3>1. \A l \in Lists : ids'[l] \in 0..MaxIds[l]
      BY <2>1, <2>2, <2>4 DEF WellTyped, TypeOK
    <3>2. \A l \in Lists : \A r, q \in rows'[l] : (r.id = q.id \/ r.entry = q.entry) => r = q
      BY <2>1, <2>2, <2>4, <2>5, <2>7, <1>4 DEF WellTyped, TypeOK
    <3>3. \A l \in Lists : \A r \in rows'[l] : r.id <= ids'[l]
      BY <2>1, <2>2, <2>4, <2>5, <2>7 DEF WellTyped, TypeOK
    <3>4. ids' \in [Lists -> Nat] /\ rows' \in [Lists -> SUBSET Row]
      BY <2>1, <2>2, <2>4, <2>5 DEF WellTyped
    <3> QED
      BY <3>1, <3>2, <3>3, <3>4, <2>1, <2>6 DEF WellTyped, TypeOK
  <2>9. ASSUME NEW x, x.list \in Lists, x.id \in Nat, Names(x, ids, rows)
        PROVE  Names(x, ids', rows')
    BY <2>9, <2>1, <2>2, <2>4, <2>5, <2>7 DEF Names, WellTyped
  <2>10. \A d \in Calls : \A i \in DOMAIN todo'[d] : StepInv(todo'[d][i], ids', rows')
    <3> SUFFICES ASSUME NEW d \in Calls, NEW i \in DOMAIN todo'[d]
                 PROVE  StepInv(todo'[d][i], ids', rows')
      OBVIOUS
    <3>1. StepInv(todo'[d][i], ids, rows) /\ todo'[d][i] \in Step
      BY <2>6
    <3> QED
      BY <3>1, <2>9, StepTouches DEF StepInv
  <2>11. \A x \in shown' : Names(x, ids', rows')
    BY <2>1, <2>9 DEF RowInv, WellTyped, TypeOK, Listed
  <2>12. /\ \A r \in rows'["white"] : r.expires = "never"
         /\ \A l \in Lists : \A r \in rows'[l] : Automatic(r.entry, r.lan)
    BY <2>1, <2>2, <2>5, <1>1, <1>2 DEF RowInv, StepInv, WellTyped, Lists
  <2> QED
    BY <2>8, <2>10, <2>11, <2>12 DEF RowInv
<1> QED
  BY <1>3, <1>4

LEMMA RemoveRowTyped ==
  ASSUME WellTyped, RowInv, NEW c \in Calls, RemoveRow(c)
  PROVE  WellTyped' /\ RowInv'
<1> DEFINE s == Head(todo[c])
           dropped == {r \in rows[s.list] : r.id = s.id}
           t == MemStep("erase", s.list, s.entry)
<1>1. todo[c] # << >> /\ s.do = "remove"
  BY DEF RemoveRow, At
<1>2. s \in Step /\ StepInv(s, ids, rows)
  BY <1>1 DEF WellTyped, RowInv
<1>3. /\ rows' = [rows EXCEPT ![s.list] = @ \ dropped]
      /\ UNCHANGED <<ids, mode, mem, memMode, bind, shown>>
      /\ Then(c, IF dropped = {} THEN << >> ELSE <<t>>)
  BY DEF RemoveRow
<1>4. s.list \in Lists /\ s.entry \in Entries
  BY <1>1, <1>2, StepTouches
<1>5. t \in Step /\ StepInv(t, ids, rows)
  BY <1>4, StepsMade DEF MemStep, StepInv
<1> HIDE DEF s, dropped, t
<1>6. \A l \in Lists : rows'[l] \subseteq rows[l]
  BY <1>3, <1>4 DEF WellTyped
<1>7. /\ todo' \in [Calls -> Seq(Step)]
      /\ job' \in [Calls -> [op : Ops, lan : LanOf, on : SUBSET Things]]
      /\ \A d \in Calls : \A i \in DOMAIN todo'[d] : StepInv(todo'[d][i], ids, rows)
  <2>1. CASE dropped = {}
    BY <1>1, <1>3, <2>1, StepDone, DoneSteps
  <2>2. CASE dropped # {}
    BY <1>1, <1>3, <1>5, <2>2, ReplacedSteps, StepReplaced DEF WellTyped
  <2> QED
    BY <2>1, <2>2
<1>8. WellTyped'
  <2>1. rows' \in [Lists -> SUBSET Row]
    BY <1>3, <1>4 DEF WellTyped
  <2> QED
    BY <1>3, <1>6, <1>7, <2>1 DEF WellTyped, TypeOK, Ops
<1>9. ASSUME NEW x, x.list \in Lists, Names(x, ids, rows)
      PROVE  Names(x, ids', rows')
  BY <1>9, <1>3, <1>6 DEF Names
<1>10. \A d \in Calls : \A i \in DOMAIN todo'[d] : StepInv(todo'[d][i], ids', rows')
  <2> SUFFICES ASSUME NEW d \in Calls, NEW i \in DOMAIN todo'[d]
               PROVE  StepInv(todo'[d][i], ids', rows')
    OBVIOUS
  <2>1. StepInv(todo'[d][i], ids, rows) /\ todo'[d][i] \in Step
    BY <1>7
  <2> QED
    BY <2>1, <1>9, StepTouches DEF StepInv
<1>11. \A x \in shown' : Names(x, ids', rows')
  BY <1>3, <1>9 DEF RowInv, WellTyped, TypeOK, Listed
<1>12. \A r \in rows'["white"] : r.expires = "never"
  BY <1>6 DEF RowInv, Lists
<1>13. \A l \in Lists : \A r \in rows'[l] : Automatic(r.entry, r.lan)
  BY <1>6 DEF RowInv
<1> QED
  BY <1>8, <1>10, <1>11, <1>12, <1>13 DEF RowInv

LEMMA TypedStep ==
  ASSUME WellTyped, RowInv, [Next]_vars
  PROVE  WellTyped' /\ RowInv'
<1>1. ASSUME NEW l \in Lists, List(l)
      PROVE  WellTyped' /\ RowInv'
  <2>1. PICK r \in rows[l] :
          /\ shown' = shown \cup {[list |-> l, id |-> r.id, entry |-> r.entry]}
          /\ UNCHANGED <<rows, ids, mode, mem, memMode, bind, todo, job>>
    BY <1>1 DEF List
  <2>2. r \in Row /\ r.id <= ids[l]
    BY DEF WellTyped, TypeOK
  <2>3. [list |-> l, id |-> r.id, entry |-> r.entry] \in Listed
    BY <2>2 DEF Listed, Row
  <2>4. Names([list |-> l, id |-> r.id, entry |-> r.entry], ids, rows)
    BY <2>2 DEF Names, WellTyped, TypeOK
  <2>5. WellTyped'
    BY <2>1, <2>3 DEF WellTyped, TypeOK
  <2>6. \A x \in shown' : Names(x, ids', rows')
    BY <2>1, <2>4 DEF RowInv
  <2> QED
    BY <2>1, <2>5, <2>6 DEF RowInv
<1>2. ASSUME Expire
      PROVE  WellTyped' /\ RowInv'
  <2>1. PICK r \in rows["black"] :
          /\ r.expires = "due"
          /\ rows' = [rows EXCEPT !["black"] = (@ \ {r}) \cup {[r EXCEPT !.expires = "past"]}]
          /\ UNCHANGED <<ids, mode, mem, memMode, bind, shown, todo, job>>
    BY <1>2 DEF Expire
  <2> DEFINE p == [r EXCEPT !.expires = "past"]
  <2>2. r \in Row
    BY DEF WellTyped, Lists
  <2>3. p \in Row /\ p.id = r.id /\ p.entry = r.entry /\ p.lan = r.lan
    BY <2>2 DEF Row
  <2> HIDE DEF p
  <2>4. rows'["black"] = (rows["black"] \ {r}) \cup {p} /\ rows'["white"] = rows["white"]
    BY <2>1 DEF WellTyped, Lists, p
  <2>5. \A l \in Lists : \A q \in rows'[l] :
          \E o \in rows[l] : q.id = o.id /\ q.entry = o.entry /\ q.lan = o.lan
    BY <2>3, <2>4 DEF Lists
  <2>6. WellTyped'
    <3>1. rows' \in [Lists -> SUBSET Row]
      BY <2>1, <2>3 DEF WellTyped, p
    <3>2. \A l \in Lists : \A q, o \in rows'[l] : (q.id = o.id \/ q.entry = o.entry) => q = o
      <4>1. \A l \in Lists : \A q, o \in rows[l] : (q.id = o.id \/ q.entry = o.entry) => q = o
        BY DEF WellTyped, TypeOK
      <4>2. ASSUME NEW q \in rows'["black"], NEW o \in rows'["black"],
                   q.id = o.id \/ q.entry = o.entry
            PROVE  q = o
        <5>1. q \in rows["black"] \/ q = p
          BY <4>2, <2>4
        <5>2. o \in rows["black"] \/ o = p
          BY <4>2, <2>4
        <5>3. ASSUME NEW x \in rows'["black"], x # p
              PROVE  x \in rows["black"] /\ x.id # p.id /\ x.entry # p.entry
          BY <5>3, <4>1, <2>3, <2>4 DEF Lists
        <5> QED
          BY <5>1, <5>2, <5>3, <4>1, <4>2 DEF Lists
      <4> QED
        BY <4>1, <4>2, <2>4 DEF Lists
    <3>3. \A l \in Lists : \A q \in rows'[l] : q.id <= ids[l]
      BY <2>3, <2>4 DEF WellTyped, TypeOK, Lists
    <3> QED
      BY <2>1, <3>1, <3>2, <3>3 DEF WellTyped, TypeOK
  <2>7. ASSUME NEW x, x.list \in Lists, Names(x, ids, rows)
        PROVE  Names(x, ids', rows')
    BY <2>7, <2>1, <2>5 DEF Names
  <2>8. \A x \in shown' : Names(x, ids', rows')
    BY <2>1, <2>7 DEF RowInv, WellTyped, TypeOK, Listed
  <2>9. ASSUME NEW d \in Calls, NEW i \in DOMAIN todo'[d]
        PROVE  StepInv(todo'[d][i], ids', rows')
    <3>1. todo' = todo /\ todo[d][i] \in Step
      BY <2>1, <2>9 DEF WellTyped
    <3>2. StepInv(todo[d][i], ids, rows)
      BY <3>1, <2>9 DEF RowInv
    <3> QED
      BY <3>1, <3>2, <2>7, StepTouches DEF StepInv
  <2>10. /\ \A q \in rows'["white"] : q.expires = "never"
         /\ \A l \in Lists : \A q \in rows'[l] : Automatic(q.entry, q.lan)
    BY <2>4, <2>5 DEF RowInv
  <2> QED
    BY <2>6, <2>8, <2>9, <2>10 DEF RowInv
<1>3. ASSUME Restart
      PROVE  WellTyped' /\ RowInv'
  <2>1. \A l \in Lists : Reload(l) \in SUBSET Entries
    BY DEF Reload, WellTyped, Row
  <2>2. mem' \in [Lists -> SUBSET Entries]
    BY <1>3, <2>1 DEF Restart
  <2>3. NoJob \in [op : Ops, lan : LanOf, on : SUBSET Things] /\ NoJob.op = "none"
    BY Hosted DEF NoJob, Ops
  <2>4. /\ todo' \in [Calls -> Seq(Step)] /\ \A c \in Calls : todo'[c] = << >>
        /\ job' \in [Calls -> [op : Ops, lan : LanOf, on : SUBSET Things]]
    BY <1>3, <2>3 DEF Restart
  <2>5. WellTyped'
    BY <1>3, <2>2, <2>4 DEF Restart, WellTyped, TypeOK, Ops
  <2>6. \A c \in Calls : DOMAIN todo'[c] = {}
    BY <2>4
  <2> QED
    BY <1>3, <2>5, <2>6 DEF Restart, RowInv
<1>4. CASE UNCHANGED vars
  BY <1>4 DEF vars, WellTyped, TypeOK, RowInv
<1> QED
  BY <1>1, <1>2, <1>3, <1>4, AddTyped, RemoveTyped, UpdateConfigTyped, EnableTyped,
     DisableTyped, PlainTyped, AddRowTyped, RemoveRowTyped DEF Next

LEMMA TypedInvariant == Spec => [](WellTyped /\ RowInv)
BY InitTyped, TypedStep, PTL DEF Spec

-----------------------------------------------------------------------------
(* Addresses. *)

(* An address of RFC 1918 is one in its three ranges. *)
LEMMA PrivateRanges ==
  ASSUME NEW a \in [1..4 -> Octets]
  PROVE  Private(a) <=> IsRfc1918(a)
<1>1. 2 ^ (8 - 8) = 1 /\ 2 ^ (8 - 4) = 16
  OBVIOUS
<1>2. a[1] \in 0..255 /\ a[2] \in 0..255
  BY DEF Octets
<1>3. \A i \in 1..4 : <<10, 0, 0, 0>>[i] = IF i = 1 THEN 10 ELSE 0
  OBVIOUS
<1>4. InCidr(a, <<10, 0, 0, 0>>, 8) <=> a[1] = 10
  <2>1. InCidr(a, <<10, 0, 0, 0>>, 8) <=> SameBits(a[1], 10, 8)
    BY DEF InCidr
  <2> QED
    BY <2>1, <1>1, <1>2 DEF SameBits
<1>5. InCidr(a, <<172, 16, 0, 0>>, 12) <=> a[1] = 172 /\ a[2] \in 16..31
  <2>1. InCidr(a, <<172, 16, 0, 0>>, 12) <=> SameBits(a[1], 172, 8) /\ SameBits(a[2], 16, 4)
    BY DEF InCidr
  <2> QED
    BY <2>1, <1>1, <1>2 DEF SameBits
<1>6. InCidr(a, <<192, 168, 0, 0>>, 16) <=> a[1] = 192 /\ a[2] = 168
  <2>1. InCidr(a, <<192, 168, 0, 0>>, 16) <=> SameBits(a[1], 192, 8) /\ SameBits(a[2], 168, 8)
    BY DEF InCidr
  <2> QED
    BY <2>1, <1>1, <1>2 DEF SameBits
<1> QED
  BY <1>4, <1>5, <1>6 DEF Private, IsRfc1918

(* A /24 holds the addresses that agree in three octets. *)
LEMMA SubnetOf ==
  ASSUME NEW a \in [1..4 -> Octets], NEW lan \in [1..4 -> Octets]
  PROVE  InCidr(a, <<lan[1], lan[2], lan[3], 0>>, 24) <=> \A i \in 1..3 : a[i] = lan[i]
<1>1. 2 ^ (8 - 8) = 1
  OBVIOUS
<1>2. InCidr(a, <<lan[1], lan[2], lan[3], 0>>, 24) <=> \A i \in 1..3 : SameBits(a[i], lan[i], 8)
  BY DEF InCidr
<1>3. ASSUME NEW i \in 1..3
      PROVE  SameBits(a[i], lan[i], 8) <=> a[i] = lan[i]
  <2>1. a[i] \in 0..255 /\ lan[i] \in 0..255
    BY DEF Octets
  <2> QED
    BY SMTT(60), <1>1, <2>1 DEF SameBits
<1> QED
  BY <1>2, <1>3

(* What the entry of a network admits: this machine, and on a private network those that
   share its first three octets. *)
LEMMA LanCovers ==
  ASSUME NEW lan \in [1..4 -> Octets], NEW a \in Addresses
  PROVE  Covers(LanEntry(lan), a) <=>
           \/ a = lan
           \/ Private(a) /\ Private(lan) /\ \A i \in 1..3 : a[i] = lan[i]
<1>1. a \in [1..4 -> Octets]
  BY AddressesAssumption
<1>2. CASE IsRfc1918(lan)
  <2>1. LanEntry(lan) = <<<<lan[1], lan[2], lan[3], 0>>, 24>>
    BY <1>2 DEF LanEntry
  <2>2. Covers(LanEntry(lan), a) <=> InCidr(a, <<lan[1], lan[2], lan[3], 0>>, 24)
    BY <2>1 DEF Covers, Exact
  <2>3. (\A i \in 1..3 : a[i] = lan[i]) => IsRfc1918(a)
    BY <1>2 DEF IsRfc1918
  <2> QED
    BY <1>1, <1>2, <2>2, <2>3, SubnetOf, PrivateRanges
<1>3. CASE ~IsRfc1918(lan)
  <2>1. Covers(LanEntry(lan), a) <=> lan = a
    BY <1>3 DEF LanEntry, Covers
  <2> QED
    BY <1>1, <1>3, <2>1, PrivateRanges
<1> QED
  BY <1>2, <1>3

(* Whatever commands overlap, wherever the machine was when LAN sharing was turned on and
   whatever was removed and entered since: a row that LAN sharing added admits this machine
   and, if the network was private, its subnet; nothing else (security.rs:166-200,
   commands/security.rs). *)
THEOREM AutomaticStaysLocal == Spec => []AutoEntriesStayLocal
<1>1. WellTyped /\ RowInv => AutoEntriesStayLocal
  <2> SUFFICES ASSUME WellTyped, RowInv, NEW r \in rows["white"], r.lan # << >>,
                      NEW a \in Addresses, Covers(r.entry, a)
               PROVE  \/ a = r.lan
                      \/ Private(a) /\ Private(r.lan) /\ \A i \in 1..3 : a[i] = r.lan[i]
    BY DEF AutoEntriesStayLocal
  <2>1. Automatic(r.entry, r.lan)
    BY DEF RowInv, Lists
  <2>2. CASE r.lan = Loopback /\ r.entry = <<Loopback, Exact>>
    BY <2>2 DEF Covers
  <2>3. CASE r.lan \in Lans \ {<< >>} /\ r.entry = LanEntry(r.lan)
    <3>1. r.lan \in [1..4 -> Octets]
      BY <2>3, LansAssumption, AddressesAssumption
    <3> QED
      BY <2>3, <3>1, LanCovers
  <2> QED
    BY <2>1, <2>2, <2>3 DEF Automatic
<1> QED
  BY <1>1, TypedInvariant, PTL

-----------------------------------------------------------------------------
(* Commands that do not overlap: their order, their claims, and what is pending. *)

CommandInv == OrderInv /\ ClaimInv /\ PendingInv /\ EnableInv

LEMMA InitCommand ==
  ASSUME Init
  PROVE  CommandInv /\ MemoryMatchesTables /\ BansInForce
<1>1. \A c \in Calls : todo[c] = << >> /\ DOMAIN todo[c] = {} /\ job[c] = NoJob
  BY DEF Init
<1>2. NoJob.on = {} /\ NoJob.op = "none"
  BY DEF NoJob
<1> QED
  BY <1>1, <1>2
  DEF Init, CommandInv, OrderInv, Ordered, ClaimInv, PendingInv, EnableInv, At,
      MemoryMatchesTables, BansInForce, Lists

(* The two halves of MemoryMatchesTables. *)
Pending(l, e) == Between(<<l, e>>, "insert") \/ Between(<<l, e>>, "erase")
InTable(l, e) == \E r \in rows[l] : r.entry = e
WhiteMatches ==
  \A e \in Entries : ~Pending("white", e) => (e \in mem["white"] <=> InTable("white", e))
BlackMatches ==
  \A e \in Entries : ~Pending("black", e) =>
    /\ (\E r \in rows["black"] : r.entry = e /\ r.expires # "past") => e \in mem["black"]
    /\ e \in mem["black"] => InTable("black", e)
ModeMatches == ~Between(<<"mode">>, "apply") => memMode = mode
Matches == WhiteMatches /\ BlackMatches /\ ModeMatches

LEMMA MatchesAre == Matches <=> MemoryMatchesTables /\ BansInForce
BY DEF Matches, WhiteMatches, BlackMatches, ModeMatches, Pending, InTable, MemoryMatchesTables,
       BansInForce

(* No two commands touch the same thing. *)
LEMMA Apart ==
  ASSUME ClaimInv, NEW c \in Calls, NEW d \in Calls, c # d, NEW i \in DOMAIN todo[c],
         NEW j \in DOMAIN todo[d]
  PROVE  Touches(todo[c][i]) \cap Touches(todo[d][j]) = {}
BY DEF ClaimInv

(* A command that starts changes nothing but its own claim. *)
LEMMA StartKept ==
  ASSUME ~Overlap, WellTyped, CommandInv, Matches,
         NEW c \in Calls, NEW op \in Ops, NEW lan \in LanOf,
         NEW steps \in Seq(Step), Start(c, op, lan, steps), steps # << >>,
         Ordered(steps), steps[1].do \notin {"insert", "erase", "apply"},
         op = "enable" =>
           /\ \A i \in DOMAIN steps :
                /\ steps[i].do \notin {"remove", "erase"}
                /\ steps[i].do \in {"mode", "apply"} => steps[i].to = "whitelist"
           /\ \A e \in LanEntries(lan) :
                \E i \in DOMAIN steps : /\ steps[i].do \in {"add", "insert"}
                                        /\ steps[i].list = "white" /\ steps[i].entry = e,
         UNCHANGED <<rows, ids, mode, mem, memMode>>
  PROVE  CommandInv' /\ Matches'
<1>1. /\ todo[c] = << >> /\ todo'[c] = steps
      /\ job'[c] = [op |-> op, lan |-> lan, on |-> TouchedBy(steps)]
      /\ \A d \in Calls \ {c} : todo'[d] = todo[d] /\ job'[d] = job[d]
      /\ \A i \in DOMAIN steps : Touches(steps[i]) \subseteq TouchedBy(steps)
      /\ \A d \in Calls : job[d].on \cap TouchedBy(steps) = {}
  BY Started
<1>2. /\ job'[c].op = op /\ job'[c].lan = lan /\ job'[c].on = TouchedBy(steps)
  BY <1>1
<1>3. Head(steps) = steps[1]
  OBVIOUS
<1> HIDE DEF TouchedBy
<1>4. OrderInv'
  BY <1>1 DEF CommandInv, OrderInv
<1>5. ClaimInv'
  BY <1>1, <1>2 DEF CommandInv, ClaimInv
<1>6. PendingInv'
  BY <1>1, <1>3 DEF CommandInv, PendingInv, At
<1>7. EnableInv'
  <2>1. ASSUME NEW d \in Calls, d # c, job'[d].op = "enable"
        PROVE  /\ \A i \in DOMAIN todo'[d] :
                    /\ todo'[d][i].do \notin {"remove", "erase"}
                    /\ todo'[d][i].do \in {"mode", "apply"} => todo'[d][i].to = "whitelist"
               /\ \A e \in LanEntries(job'[d].lan) :
                    /\ <<"white", e>> \in job'[d].on
                    /\ \/ e \in mem'["white"]
                       \/ \E i \in DOMAIN todo'[d] :
                            /\ todo'[d][i].do \in {"add", "insert"}
                            /\ todo'[d][i].list = "white" /\ todo'[d][i].entry = e
    <3>1. todo'[d] = todo[d] /\ job'[d] = job[d] /\ mem' = mem
      BY <2>1, <1>1
    <3> QED
      BY <2>1, <3>1 DEF CommandInv, EnableInv
  <2>2. ASSUME op = "enable", NEW e \in LanEntries(lan)
        PROVE  <<"white", e>> \in TouchedBy(steps)
    <3>1. PICK i \in DOMAIN steps : /\ steps[i].do \in {"add", "insert"}
                                    /\ steps[i].list = "white" /\ steps[i].entry = e
      BY <2>2
    <3>2. Touches(steps[i]) = {<<"white", e>>}
      BY <3>1, StepTouches
    <3> QED
      BY <3>2, <1>1
  <2> QED
    BY <1>1, <1>2, <2>1, <2>2 DEF EnableInv
<1>8. \A what, do : do \in {"insert", "erase", "apply"} =>
                     (Between(what, do)' <=> Between(what, do))
  BY <1>1, <1>3 DEF Between, At
<1>9. \A l, e : Pending(l, e)' <=> Pending(l, e)
  BY <1>8 DEF Pending
<1>10. WhiteMatches' /\ BlackMatches' /\ ModeMatches'
  BY <1>8, <1>9 DEF Matches, WhiteMatches, BlackMatches, ModeMatches, InTable
<1> QED
  BY <1>4, <1>5, <1>6, <1>7, <1>10 DEF CommandInv, Matches

(* What a command comes to when its first step is done. *)
LEMMA DoneHeads ==
  ASSUME WellTyped, OrderInv, NEW c \in Calls, todo[c] # << >>, Then(c, << >>)
  PROVE  /\ ~At(c, "insert")' /\ ~At(c, "erase")'
         /\ At(c, "apply")' => todo[c][1].do = "mode" /\ Head(todo'[c]).to = todo[c][1].to
         /\ todo[c][1].do = "mode" => At(c, "apply")' /\ Head(todo'[c]).to = todo[c][1].to
         /\ \A d \in Calls \ {c} : todo'[d] = todo[d] /\ job'[d] = job[d]
<1>1. /\ \A d \in Calls \ {c} : todo'[d] = todo[d] /\ job'[d] = job[d]
      /\ 1 \in DOMAIN todo[c]
      /\ \A i \in DOMAIN todo'[c] : i + 1 \in DOMAIN todo[c] /\ todo'[c][i] = todo[c][i + 1]
      /\ \A i \in DOMAIN todo[c] : i = 1 \/ i - 1 \in DOMAIN todo'[c]
      /\ todo' \in [Calls -> Seq(Step)] /\ todo \in [Calls -> Seq(Step)]
  BY StepDone DEF WellTyped
<1>2. Ordered(todo[c])
  BY DEF OrderInv
<1>3. todo'[c] # << >> => /\ 1 \in DOMAIN todo'[c] /\ 2 \in DOMAIN todo[c]
                          /\ Head(todo'[c]) = todo[c][2]
  <2>1. ASSUME todo'[c] # << >>
        PROVE  1 \in DOMAIN todo'[c] /\ Head(todo'[c]) = todo'[c][1]
    BY <1>1, <2>1
  <2> QED
    BY <1>1, <2>1
<1>4. 2 \in DOMAIN todo[c] => todo'[c] # << >>
  BY <1>1
<1> QED
  <2>1. ~At(c, "insert")' /\ ~At(c, "erase")'
    BY <1>2, <1>3 DEF Ordered, At
  <2>2. At(c, "apply")' => todo[c][1].do = "mode" /\ Head(todo'[c]).to = todo[c][1].to
    <3> SUFFICES ASSUME At(c, "apply")'
                 PROVE  todo[c][1].do = "mode" /\ Head(todo'[c]).to = todo[c][1].to
      OBVIOUS
    <3>1. 2 \in DOMAIN todo[c] /\ Head(todo'[c]) = todo[c][2] /\ todo[c][2].do = "apply"
      BY <1>3 DEF At
    <3>2. todo[c][2 - 1].do = "mode" /\ 2 - 1 = 1
      BY <1>2, <3>1 DEF Ordered
    <3>3. todo[c][1].do = "mode"
      BY <3>2
    <3>4. todo[c][1 + 1].to = todo[c][1].to /\ 1 + 1 = 2
      BY <1>1, <1>2, <3>3 DEF Ordered
    <3> QED
      BY <3>1, <3>3, <3>4
  <2>3. todo[c][1].do = "mode" => At(c, "apply")' /\ Head(todo'[c]).to = todo[c][1].to
    <3> SUFFICES ASSUME todo[c][1].do = "mode"
                 PROVE  At(c, "apply")' /\ Head(todo'[c]).to = todo[c][1].to
      OBVIOUS
    <3>1. /\ 1 + 1 \in DOMAIN todo[c] /\ todo[c][1 + 1].do = "apply"
          /\ todo[c][1 + 1].to = todo[c][1].to /\ 1 + 1 = 2
      BY <1>1, <1>2 DEF Ordered
    <3> QED
      BY <1>3, <1>4, <3>1 DEF At
  <2> QED
    BY <1>1, <2>1, <2>2, <2>3

LEMMA DoneOrdered ==
  ASSUME WellTyped, OrderInv, NEW c \in Calls, todo[c] # << >>, Then(c, << >>)
  PROVE  OrderInv'
<1>1. /\ \A d \in Calls \ {c} : todo'[d] = todo[d]
      /\ Len(todo'[c]) = Len(todo[c]) - 1
      /\ \A i \in DOMAIN todo'[c] : i + 1 \in DOMAIN todo[c] /\ todo'[c][i] = todo[c][i + 1]
      /\ \A i \in DOMAIN todo[c] : i = 1 \/ i - 1 \in DOMAIN todo'[c]
      /\ todo'[c] \in Seq(Step) /\ todo[c] \in Seq(Step)
  BY StepDone DEF WellTyped
<1>2. Ordered(todo[c])
  BY DEF OrderInv
<1>3. Ordered(todo'[c])
  <2> SUFFICES ASSUME NEW i \in DOMAIN todo'[c]
               PROVE  /\ todo'[c][i].do \in {"insert", "erase"} => i = 1
                      /\ todo'[c][i].do = "mode" =>
                           /\ i + 1 \in DOMAIN todo'[c] /\ todo'[c][i + 1].do = "apply"
                           /\ todo'[c][i + 1].to = todo'[c][i].to
                      /\ todo'[c][i].do = "apply" =>
                           i = Len(todo'[c]) /\ (i > 1 => todo'[c][i - 1].do = "mode")
    BY DEF Ordered
  <2>1. i \in Nat /\ i >= 1 /\ i + 1 \in DOMAIN todo[c] /\ todo'[c][i] = todo[c][i + 1] /\ i + 1 # 1
    BY <1>1
  <2>2. todo[c][i + 1].do \notin {"insert", "erase"}
    BY <1>2, <2>1 DEF Ordered
  <2>3. ASSUME todo[c][i + 1].do = "mode"
        PROVE  /\ i + 1 \in DOMAIN todo'[c] /\ todo'[c][i + 1].do = "apply"
               /\ todo'[c][i + 1].to = todo'[c][i].to
    <3>1. /\ i + 2 \in DOMAIN todo[c] /\ todo[c][i + 2].do = "apply"
          /\ todo[c][i + 2].to = todo[c][i + 1].to
      BY <1>2, <2>1, <2>3 DEF Ordered
    <3>2. i + 1 \in DOMAIN todo'[c]
      BY <1>1, <2>1, <3>1
    <3>3. todo'[c][i + 1] = todo[c][i + 2]
      BY <1>1, <2>1, <3>2
    <3> QED
      BY <2>1, <3>1, <3>2, <3>3
  <2>4. ASSUME todo[c][i + 1].do = "apply"
        PROVE  i = Len(todo'[c]) /\ (i > 1 => todo'[c][i - 1].do = "mode")
    <3>1. i + 1 = Len(todo[c]) /\ todo[c][i].do = "mode"
      BY <1>2, <2>1, <2>4 DEF Ordered
    <3>2. i > 1 => i - 1 \in DOMAIN todo'[c] /\ todo'[c][i - 1] = todo[c][i]
      BY SMTT(60), <1>1, <2>1
    <3> QED
      <4>1. i = Len(todo'[c])
        BY <1>1, <2>1, <3>1
      <4> QED
        BY <3>1, <3>2, <4>1
  <2> QED
    BY <2>1, <2>2, <2>3, <2>4
<1> QED
  BY <1>1, <1>3 DEF OrderInv

LEMMA DoneClaimed ==
  ASSUME WellTyped, ClaimInv, NEW c \in Calls, todo[c] # << >>, Then(c, << >>)
  PROVE  ClaimInv'
<1>1. /\ \A d \in Calls \ {c} : todo'[d] = todo[d] /\ job'[d] = job[d]
      /\ \A i \in DOMAIN todo'[c] : i + 1 \in DOMAIN todo[c] /\ todo'[c][i] = todo[c][i + 1]
      /\ IF todo'[c] = << >> THEN job'[c] = NoJob ELSE job'[c] = job[c]
      /\ todo'[c] = << >> => DOMAIN todo'[c] = {}
  BY StepDone
<1>2. NoJob.on = {}
  BY DEF NoJob
<1>3. job'[c].on \subseteq job[c].on
  BY <1>1, <1>2
<1>4. \A i \in DOMAIN todo'[c] : Touches(todo'[c][i]) \subseteq job'[c].on
  BY <1>1 DEF ClaimInv
<1> QED
  BY <1>1, <1>3, <1>4 DEF ClaimInv

(* What LAN sharing still has to do, when a step is done that leaves its entries in memory
   or puts them there. *)
LEMMA DoneEnable ==
  ASSUME WellTyped, EnableInv, NEW c \in Calls, todo[c] # << >>, Then(c, << >>),
         \A d \in Calls : \A e \in Entries :
           <<"white", e>> \in job[d].on /\ e \in mem["white"] /\ job[d].op = "enable" =>
             e \in mem'["white"],
         todo[c][1].do \in {"add", "insert"} /\ todo[c][1].list = "white" =>
           todo[c][1].entry \in mem'["white"]
  PROVE  EnableInv'
<1>1. /\ \A d \in Calls \ {c} : todo'[d] = todo[d] /\ job'[d] = job[d]
      /\ \A i \in DOMAIN todo'[c] : i + 1 \in DOMAIN todo[c] /\ todo'[c][i] = todo[c][i + 1]
      /\ \A i \in DOMAIN todo[c] : i = 1 \/ i - 1 \in DOMAIN todo'[c]
      /\ IF todo'[c] = << >> THEN job'[c] = NoJob ELSE job'[c] = job[c]
      /\ todo[c] \in Seq(Step)
  BY StepDone DEF WellTyped
<1>2. NoJob.op = "none"
  BY DEF NoJob
<1>3. \A d \in Calls : job[d].on \subseteq Things /\ job[d].lan \in LanOf
  BY DEF WellTyped
<1>4. \A d \in Calls : \A e : <<"white", e>> \in job[d].on => e \in Entries
  BY <1>3 DEF Things
<1>5. ASSUME NEW d \in Calls, job'[d].op = "enable"
      PROVE  /\ \A i \in DOMAIN todo'[d] :
                  /\ todo'[d][i].do \notin {"remove", "erase"}
                  /\ todo'[d][i].do \in {"mode", "apply"} => todo'[d][i].to = "whitelist"
             /\ \A e \in LanEntries(job'[d].lan) :
                  /\ <<"white", e>> \in job'[d].on
                  /\ \/ e \in mem'["white"]
                     \/ \E i \in DOMAIN todo'[d] :
                          /\ todo'[d][i].do \in {"add", "insert"}
                          /\ todo'[d][i].list = "white" /\ todo'[d][i].entry = e
  <2>1. job'[d] = job[d]
    BY <1>1, <1>2, <1>5
  <2>2. \A i \in DOMAIN todo'[d] :
                  /\ todo'[d][i].do \notin {"remove", "erase"}
                  /\ todo'[d][i].do \in {"mode", "apply"} => todo'[d][i].to = "whitelist"
    BY <1>1, <1>5, <2>1 DEF EnableInv
  <2>3. ASSUME NEW e \in LanEntries(job[d].lan)
        PROVE  /\ <<"white", e>> \in job[d].on
               /\ \/ e \in mem'["white"]
                  \/ \E i \in DOMAIN todo'[d] :
                       /\ todo'[d][i].do \in {"add", "insert"}
                       /\ todo'[d][i].list = "white" /\ todo'[d][i].entry = e
    <3>1. <<"white", e>> \in job[d].on
      BY <1>5, <2>1, <2>3 DEF EnableInv
    <3>2. CASE e \in mem["white"]
      BY <1>4, <1>5, <2>1, <3>1, <3>2
    <3>3. CASE e \notin mem["white"]
      <4>1. PICK i \in DOMAIN todo[d] : /\ todo[d][i].do \in {"add", "insert"}
                                        /\ todo[d][i].list = "white" /\ todo[d][i].entry = e
        <5>1. job[d].op = "enable"
          BY <1>5, <2>1
        <5> QED
          BY <2>3, <3>3, <5>1 DEF EnableInv
      <4>2. CASE d # c
        BY <1>1, <3>1, <4>1, <4>2
      <4>3. CASE d = c /\ i = 1
        BY <3>1, <4>1, <4>3
      <4>4. CASE d = c /\ i # 1
        <5>1. i - 1 \in DOMAIN todo'[c] /\ i \in Nat
          BY <1>1, <4>4
        <5>2. todo'[c][i - 1] = todo[c][i]
          BY <1>1, <5>1
        <5> QED
          BY <3>1, <4>1, <4>4, <5>1, <5>2
      <4> QED
        BY <4>2, <4>3, <4>4
    <3> QED
      BY <3>2, <3>3
  <2> QED
    BY <2>1, <2>2, <2>3
<1> QED
  BY <1>5 DEF EnableInv

(* The same for a step on a table that is followed by one on the memory. *)
LEMMA ReplacedOrdered ==
  ASSUME WellTyped, OrderInv, NEW c \in Calls, todo[c] # << >>, NEW s \in Step,
         s.do \in {"insert", "erase"}, todo[c][1].do \in {"add", "remove"}, Then(c, <<s>>)
  PROVE  OrderInv'
<1>1. /\ \A d \in Calls \ {c} : todo'[d] = todo[d]
      /\ DOMAIN todo'[c] = DOMAIN todo[c] /\ Len(todo'[c]) = Len(todo[c])
      /\ todo'[c][1] = s
      /\ \A i \in DOMAIN todo[c] : i # 1 => todo'[c][i] = todo[c][i]
      /\ todo[c] \in Seq(Step)
  BY StepReplaced DEF WellTyped
<1>2. Ordered(todo[c])
  BY DEF OrderInv
<1>3. ASSUME NEW i \in DOMAIN todo'[c]
      PROVE  /\ todo'[c][i].do \in {"insert", "erase"} => i = 1
             /\ todo'[c][i].do = "mode" =>
                  /\ i + 1 \in DOMAIN todo'[c] /\ todo'[c][i + 1].do = "apply"
                  /\ todo'[c][i + 1].to = todo'[c][i].to
             /\ todo'[c][i].do = "apply" =>
                  i = Len(todo'[c]) /\ (i > 1 => todo'[c][i - 1].do = "mode")
  <2>1. CASE i = 1
    BY <1>1, <2>1
  <2>2. CASE i # 1
    <3>1. i \in DOMAIN todo[c] /\ i \in Nat /\ i > 1 /\ i + 1 # 1 /\ todo'[c][i] = todo[c][i]
      BY <1>1, <2>2
    <3>2. todo[c][i].do \notin {"insert", "erase"}
      BY <1>2, <2>2, <3>1 DEF Ordered
    <3>3. ASSUME todo[c][i].do = "mode"
          PROVE  /\ i + 1 \in DOMAIN todo'[c] /\ todo'[c][i + 1].do = "apply"
                 /\ todo'[c][i + 1].to = todo'[c][i].to
      <4>1. /\ i + 1 \in DOMAIN todo[c] /\ todo[c][i + 1].do = "apply"
            /\ todo[c][i + 1].to = todo[c][i].to
        BY <1>2, <3>1, <3>3 DEF Ordered
      <4> QED
        BY <1>1, <3>1, <4>1
    <3>4. ASSUME todo[c][i].do = "apply"
          PROVE  i = Len(todo'[c]) /\ todo'[c][i - 1].do = "mode"
      <4>1. i = Len(todo[c]) /\ todo[c][i - 1].do = "mode"
        BY <1>2, <3>1, <3>4 DEF Ordered
      <4>2. i - 1 # 1
        BY <4>1
      <4>3. i - 1 \in DOMAIN todo[c]
        BY <1>1, <3>1
      <4> QED
        BY <1>1, <4>1, <4>2, <4>3
    <3> QED
      BY <2>2, <3>1, <3>2, <3>3, <3>4
  <2> QED
    BY <2>1, <2>2
<1> QED
  <2>1. Ordered(todo'[c])
    BY <1>3 DEF Ordered
  <2> QED
    BY <1>1, <2>1 DEF OrderInv

LEMMA ReplacedClaimed ==
  ASSUME WellTyped, ClaimInv, NEW c \in Calls, todo[c] # << >>, NEW s \in Step,
         Touches(s) = Touches(todo[c][1]), Then(c, <<s>>)
  PROVE  ClaimInv'
<1>1. /\ \A d \in Calls \ {c} : todo'[d] = todo[d]
      /\ job' = job /\ todo'[c] # << >> /\ 1 \in DOMAIN todo[c]
      /\ DOMAIN todo'[c] = DOMAIN todo[c]
      /\ todo'[c][1] = s
      /\ \A i \in DOMAIN todo[c] : i # 1 => todo'[c][i] = todo[c][i]
  BY StepReplaced
<1>2. \A i \in DOMAIN todo'[c] : Touches(todo'[c][i]) \subseteq job'[c].on
  BY <1>1 DEF ClaimInv
<1> QED
  BY <1>1, <1>2 DEF ClaimInv

LEMMA ReplacedEnable ==
  ASSUME WellTyped, EnableInv, NEW c \in Calls, todo[c] # << >>, NEW s \in Step,
         s.do = "erase" => todo[c][1].do = "remove", s.do \in {"insert", "erase"},
         s.list = todo[c][1].list, s.entry = todo[c][1].entry,
         Then(c, <<s>>), mem' = mem
  PROVE  EnableInv'
<1>1. /\ \A d \in Calls \ {c} : todo'[d] = todo[d]
      /\ job' = job /\ 1 \in DOMAIN todo[c]
      /\ DOMAIN todo'[c] = DOMAIN todo[c]
      /\ todo'[c][1] = s
      /\ \A i \in DOMAIN todo[c] : i # 1 => todo'[c][i] = todo[c][i]
  BY StepReplaced
<1>2. ASSUME NEW d \in Calls, d # c, job[d].op = "enable"
      PROVE  /\ \A i \in DOMAIN todo'[d] :
                  /\ todo'[d][i].do \notin {"remove", "erase"}
                  /\ todo'[d][i].do \in {"mode", "apply"} => todo'[d][i].to = "whitelist"
             /\ \A e \in LanEntries(job[d].lan) :
                  /\ <<"white", e>> \in job[d].on
                  /\ \/ e \in mem["white"]
                     \/ \E i \in DOMAIN todo'[d] :
                          /\ todo'[d][i].do \in {"add", "insert"}
                          /\ todo'[d][i].list = "white" /\ todo'[d][i].entry = e
  <2>1. todo'[d] = todo[d]
    BY <1>1, <1>2
  <2> QED
    BY <1>2, <2>1 DEF EnableInv
<1>3. ASSUME job[c].op = "enable"
      PROVE  /\ \A i \in DOMAIN todo'[c] :
                  /\ todo'[c][i].do \notin {"remove", "erase"}
                  /\ todo'[c][i].do \in {"mode", "apply"} => todo'[c][i].to = "whitelist"
             /\ \A e \in LanEntries(job[c].lan) :
                  /\ <<"white", e>> \in job[c].on
                  /\ \/ e \in mem["white"]
                     \/ \E i \in DOMAIN todo'[c] :
                          /\ todo'[c][i].do \in {"add", "insert"}
                          /\ todo'[c][i].list = "white" /\ todo'[c][i].entry = e
  <2>1. s.do = "insert"
    BY <1>1, <1>3 DEF EnableInv
  <2>2. \A i \in DOMAIN todo'[c] :
                  /\ todo'[c][i].do \notin {"remove", "erase"}
                  /\ todo'[c][i].do \in {"mode", "apply"} => todo'[c][i].to = "whitelist"
    BY <1>1, <1>3, <2>1 DEF EnableInv
  <2>3. ASSUME NEW e \in LanEntries(job[c].lan)
        PROVE  /\ <<"white", e>> \in job[c].on
               /\ \/ e \in mem["white"]
                  \/ \E i \in DOMAIN todo'[c] :
                       /\ todo'[c][i].do \in {"add", "insert"}
                       /\ todo'[c][i].list = "white" /\ todo'[c][i].entry = e
    <3>1. <<"white", e>> \in job[c].on
      BY <1>3, <2>3 DEF EnableInv
    <3>2. CASE e \notin mem["white"]
      <4>1. PICK i \in DOMAIN todo[c] : /\ todo[c][i].do \in {"add", "insert"}
                                        /\ todo[c][i].list = "white" /\ todo[c][i].entry = e
        BY <1>3, <2>3, <3>2 DEF EnableInv
      <4>2. CASE i = 1
        BY <1>1, <2>1, <3>1, <4>1, <4>2
      <4>3. CASE i # 1
        BY <1>1, <3>1, <4>1, <4>3
      <4> QED
        BY <4>2, <4>3
    <3> QED
      BY <3>1, <3>2
  <2> QED
    BY <2>2, <2>3
<1> QED
  BY <1>1, <1>2, <1>3 DEF EnableInv

(* Nobody stands between table and memory for an entry that a command is about to change. *)
LEMMA NotPending ==
  ASSUME WellTyped, ClaimInv, NEW c \in Calls, todo[c] # << >>,
         NEW l \in Lists, NEW e \in Entries, <<l, e>> \in Touches(todo[c][1]),
         todo[c][1].do \notin {"insert", "erase"}
  PROVE  ~Pending(l, e)
<1>1. \A d \in Calls : todo[d] # << >> => 1 \in DOMAIN todo[d] /\ Head(todo[d]) = todo[d][1]
  BY DEF WellTyped
<1>2. \A d \in Calls \ {c} : todo[d] # << >> => <<l, e>> \notin Touches(todo[d][1])
  BY <1>1, Apart
<1> QED
  BY <1>1, <1>2 DEF Pending, Between, At

(* Modes that no step touches. *)
LEMMA ModeFrame ==
  ASSUME ModeMatches, PendingInv, UNCHANGED <<mode, memMode>>,
         \A d \in Calls : /\ At(d, "apply")' <=> At(d, "apply")
                          /\ At(d, "apply") => Head(todo'[d]) = Head(todo[d])
  PROVE  ModeMatches' /\ \A d \in Calls : At(d, "apply")' => Head(todo'[d]).to = mode'
BY DEF ModeMatches, Between, At, PendingInv

LEMMA BindKept ==
  ASSUME WellTyped, CommandInv, Matches, NEW c \in Calls, Bind(c)
  PROVE  CommandInv' /\ Matches'
<1>1. /\ todo[c] # << >> /\ Head(todo[c]).do = "bind" /\ Head(todo[c]) = todo[c][1]
      /\ Then(c, << >>) /\ UNCHANGED <<rows, ids, mode, mem, memMode, shown>>
  BY StepDone DEF Bind, At
<1>2. OrderInv' /\ ClaimInv'
  BY <1>1, DoneOrdered, DoneClaimed DEF CommandInv
<1>3. EnableInv'
  BY <1>1, DoneEnable DEF CommandInv
<1>4. /\ ~At(c, "insert")' /\ ~At(c, "erase")' /\ ~At(c, "apply")'
      /\ \A d \in Calls \ {c} : todo'[d] = todo[d]
  BY <1>1, DoneHeads DEF CommandInv
<1>5. \A d \in Calls, do \in {"insert", "erase", "apply"} :
        /\ At(d, do)' <=> At(d, do)
        /\ At(d, do) => Head(todo'[d]) = Head(todo[d])
  BY <1>1, <1>4 DEF At
<1>6. ModeMatches' /\ \A d \in Calls : At(d, "apply")' => Head(todo'[d]).to = mode'
  BY <1>1, <1>5, ModeFrame DEF CommandInv, Matches
<1>7. PendingInv'
  BY <1>1, <1>5, <1>6 DEF CommandInv, PendingInv
<1>8. \A l \in Lists, e \in Entries : Pending(l, e)' <=> Pending(l, e)
  BY <1>1, <1>5 DEF Pending, Between
<1>9. WhiteMatches' /\ BlackMatches'
  BY <1>1, <1>8 DEF Matches, WhiteMatches, BlackMatches, InTable, Lists
<1> QED
  BY <1>2, <1>3, <1>6, <1>7, <1>9 DEF CommandInv, Matches

LEMMA WriteModeKept ==
  ASSUME WellTyped, CommandInv, Matches, NEW c \in Calls, WriteMode(c)
  PROVE  CommandInv' /\ Matches'
<1>1. /\ todo[c] # << >> /\ Head(todo[c]).do = "mode" /\ Head(todo[c]) = todo[c][1]
      /\ 1 \in DOMAIN todo[c] /\ todo[c][1] \in Step
      /\ mode' = todo[c][1].to
      /\ Then(c, << >>) /\ UNCHANGED <<rows, ids, mem, memMode, shown>>
  BY StepDone DEF WriteMode, At
<1>2. OrderInv' /\ ClaimInv'
  BY <1>1, DoneOrdered, DoneClaimed DEF CommandInv
<1>3. EnableInv'
  BY <1>1, DoneEnable DEF CommandInv
<1>4. /\ ~At(c, "insert")' /\ ~At(c, "erase")'
      /\ At(c, "apply")' /\ Head(todo'[c]).to = mode'
      /\ \A d \in Calls \ {c} : todo'[d] = todo[d]
  BY <1>1, DoneHeads DEF CommandInv
<1>5. \A d \in Calls, do \in {"insert", "erase"} :
        /\ At(d, do)' <=> At(d, do)
        /\ At(d, do) => Head(todo'[d]) = Head(todo[d])
  BY <1>1, <1>4 DEF At
<1>6. \A d \in Calls \ {c} : ~At(d, "apply")'
  <2> SUFFICES ASSUME NEW d \in Calls \ {c}, At(d, "apply")
               PROVE  FALSE
    BY <1>4 DEF At
  <2>1. 1 \in DOMAIN todo[d] /\ todo[d][1].do = "apply" /\ todo[d][1] \in Step
    BY DEF At, WellTyped
  <2>2. Touches(todo[d][1]) = {<<"mode">>} /\ Touches(todo[c][1]) = {<<"mode">>}
    BY <1>1, <2>1, StepTouches
  <2> QED
    BY <1>1, <2>1, <2>2, Apart DEF CommandInv
<1>7. PendingInv'
  BY <1>1, <1>4, <1>5, <1>6 DEF CommandInv, PendingInv
<1>8. ModeMatches'
  <2>1. todo'[c] # << >> /\ todo'[c] \in Seq(Step)
    BY <1>1, <1>4, StepDone DEF At
  <2>2. Head(todo'[c]) \in Step /\ Head(todo'[c]).do = "apply"
    BY <1>4, <2>1 DEF At
  <2>3. <<"mode">> \in Touches(Head(todo'[c]))
    BY <2>2, StepTouches
  <2> QED
    BY <1>4, <2>3 DEF ModeMatches, Between
<1>9. \A l \in Lists, e \in Entries : Pending(l, e)' <=> Pending(l, e)
  BY <1>1, <1>5 DEF Pending, Between
<1>10. WhiteMatches' /\ BlackMatches'
  BY <1>1, <1>9 DEF Matches, WhiteMatches, BlackMatches, InTable, Lists
<1> QED
  BY <1>2, <1>3, <1>7, <1>8, <1>10 DEF CommandInv, Matches

LEMMA ApplyModeKept ==
  ASSUME WellTyped, CommandInv, Matches, NEW c \in Calls, ApplyMode(c)
  PROVE  CommandInv' /\ Matches'
<1>1. /\ todo[c] # << >> /\ Head(todo[c]).do = "apply" /\ Head(todo[c]) = todo[c][1]
      /\ memMode' = Head(todo[c]).to
      /\ Then(c, << >>) /\ UNCHANGED <<rows, ids, mem, mode, shown>>
  BY StepDone DEF ApplyMode, At
<1>2. OrderInv' /\ ClaimInv'
  BY <1>1, DoneOrdered, DoneClaimed DEF CommandInv
<1>3. EnableInv'
  BY <1>1, DoneEnable DEF CommandInv
<1>4. /\ ~At(c, "insert")' /\ ~At(c, "erase")' /\ ~At(c, "apply")'
      /\ \A d \in Calls \ {c} : todo'[d] = todo[d]
  BY <1>1, DoneHeads DEF CommandInv
<1>5. \A d \in Calls, do \in {"insert", "erase"} :
        /\ At(d, do)' <=> At(d, do)
        /\ At(d, do) => Head(todo'[d]) = Head(todo[d])
  BY <1>1, <1>4 DEF At
<1>6. ModeMatches'
  BY <1>1 DEF CommandInv, PendingInv, ModeMatches, At
<1>7. PendingInv'
  BY <1>1, <1>4, <1>5 DEF CommandInv, PendingInv, At
<1>8. \A l \in Lists, e \in Entries : Pending(l, e)' <=> Pending(l, e)
  BY <1>1, <1>5 DEF Pending, Between
<1>9. WhiteMatches' /\ BlackMatches'
  BY <1>1, <1>8 DEF Matches, WhiteMatches, BlackMatches, InTable, Lists
<1> QED
  BY <1>2, <1>3, <1>6, <1>7, <1>9 DEF CommandInv, Matches

LEMMA MemoryKept ==
  ASSUME WellTyped, CommandInv, Matches, NEW c \in Calls, Insert(c) \/ Erase(c)
  PROVE  CommandInv' /\ Matches'
<1> DEFINE s == todo[c][1]
<1>1. /\ todo[c] # << >> /\ Head(todo[c]) = s /\ 1 \in DOMAIN todo[c] /\ s \in Step
      /\ s.do \in {"insert", "erase"} /\ At(c, s.do)
      /\ \/ s.do = "insert" /\ mem' = [mem EXCEPT ![s.list] = @ \cup {s.entry}]
         \/ s.do = "erase" /\ mem' = [mem EXCEPT ![s.list] = @ \ {s.entry}]
      /\ Then(c, << >>) /\ UNCHANGED <<rows, ids, mode, memMode, shown>>
  BY StepDone DEF Insert, Erase, At
<1>2. s.list \in Lists /\ s.entry \in Entries /\ Touches(s) = {<<s.list, s.entry>>}
  BY <1>1, StepTouches
<1> HIDE DEF s
<1>3. OrderInv' /\ ClaimInv'
  BY <1>1, DoneOrdered, DoneClaimed DEF CommandInv
<1>4. /\ ~At(c, "insert")' /\ ~At(c, "erase")' /\ ~At(c, "apply")'
      /\ \A d \in Calls \ {c} : todo'[d] = todo[d]
  BY <1>1, DoneHeads DEF CommandInv, s
<1>5. \A d \in Calls \ {c}, do \in {"insert", "erase", "apply"} :
        /\ At(d, do)' <=> At(d, do)
        /\ At(d, do) => Head(todo'[d]) = Head(todo[d])
  BY <1>4 DEF At
<1>6. ~At(c, "apply")
  BY <1>1 DEF At
<1>7. ModeMatches' /\ \A d \in Calls : At(d, "apply")' => Head(todo'[d]).to = mode'
  BY <1>1, <1>4, <1>5, <1>6, ModeFrame DEF CommandInv, Matches
<1>8. PendingInv'
  BY <1>1, <1>4, <1>5, <1>7 DEF CommandInv, PendingInv
<1>9. ASSUME NEW l \in Lists, NEW e \in Entries, <<l, e>> # <<s.list, s.entry>>
      PROVE  /\ Pending(l, e)' <=> Pending(l, e)
             /\ e \in mem'[l] <=> e \in mem[l]
  <2>1. <<l, e>> \notin Touches(Head(todo[c]))
    BY <1>1, <1>2, <1>9
  <2>2. Pending(l, e)' <=> Pending(l, e)
    BY <1>4, <1>5, <2>1 DEF Pending, Between
  <2>3. l # s.list \/ e # s.entry
    BY <1>9
  <2>4. e \in mem'[l] <=> e \in mem[l]
    BY <1>1, <1>2, <2>3 DEF WellTyped
  <2> QED
    BY <2>2, <2>4
<1>10. s.entry \in mem'[s.list] <=> InTable(s.list, s.entry)
  BY <1>1, <1>2 DEF WellTyped, CommandInv, PendingInv, InTable, At
<1>11. \A l \in Lists, e \in Entries : InTable(l, e)' <=> InTable(l, e)
  BY <1>1 DEF InTable
<1>12. WhiteMatches'
  BY <1>9, <1>10, <1>11 DEF Matches, WhiteMatches, Lists
<1>13. BlackMatches'
  <2> SUFFICES ASSUME NEW e \in Entries, ~Pending("black", e)'
               PROVE  /\ (\E r \in rows["black"] : r.entry = e /\ r.expires # "past") =>
                           e \in mem'["black"]
                      /\ e \in mem'["black"] => InTable("black", e)
    BY <1>1, <1>11 DEF BlackMatches, Lists
  <2>1. CASE <<"black", e>> = <<s.list, s.entry>>
    BY <1>10, <2>1 DEF InTable
  <2>2. CASE <<"black", e>> # <<s.list, s.entry>>
    BY <1>9, <2>2 DEF Matches, BlackMatches, Lists
  <2> QED
    BY <2>1, <2>2
<1>14. EnableInv'
  <2>1. ASSUME NEW d \in Calls, NEW e \in Entries, <<"white", e>> \in job[d].on, e \in mem["white"],
               job[d].op = "enable"
        PROVE  e \in mem'["white"]
    <3>1. CASE <<"white", e>> # <<s.list, s.entry>>
      BY <1>9, <2>1, <3>1 DEF Lists
    <3>2. CASE s.list = "white" /\ s.entry = e /\ s.do = "insert"
      BY <1>1, <1>2, <3>2 DEF WellTyped
    <3>3. CASE s.list = "white" /\ s.entry = e /\ s.do = "erase"
      <4>1. d = c
        BY <1>1, <1>2, <2>1, <3>3 DEF CommandInv, ClaimInv, s
      <4> QED
        BY <1>1, <2>1, <3>3, <4>1 DEF CommandInv, EnableInv, s
    <3> QED
      BY <1>1, <3>1, <3>2, <3>3
  <2>2. s.do = "insert" => s.entry \in mem'[s.list]
    BY <1>1, <1>2 DEF WellTyped
  <2> QED
    BY <1>1, <2>1, <2>2, DoneEnable DEF CommandInv, s
<1> QED
  BY <1>3, <1>7, <1>8, <1>12, <1>13, <1>14 DEF CommandInv, Matches

LEMMA AddRowKept ==
  ASSUME WellTyped, RowInv, CommandInv, Matches, NEW c \in Calls, AddRow(c)
  PROVE  CommandInv' /\ Matches'
<1> DEFINE s == todo[c][1]
           t == MemStep("insert", s.list, s.entry)
<1>1. /\ todo[c] # << >> /\ Head(todo[c]) = s /\ 1 \in DOMAIN todo[c] /\ s \in Step
      /\ s.do = "add"
  BY DEF AddRow, At, WellTyped
<1>2. s.list \in Lists /\ s.entry \in Entries /\ Touches(s) = {<<s.list, s.entry>>}
  BY <1>1, StepTouches
<1>3. t \in Step /\ t.do = "insert" /\ t.list = s.list /\ t.entry = s.entry
  BY <1>2, StepsMade DEF MemStep
<1>4. Touches(t) = {<<s.list, s.entry>>}
  BY <1>3, StepTouches
<1>5. ~Pending(s.list, s.entry)
  BY <1>1, <1>2, NotPending DEF CommandInv
<1>6. CASE \E r \in rows[s.list] : r.entry = s.entry
  <2>1. Then(c, << >>) /\ UNCHANGED <<rows, ids, mode, mem, memMode, bind, shown>>
    BY <1>1, <1>6 DEF AddRow
  <2> HIDE DEF s, t
  <2>2. OrderInv' /\ ClaimInv'
    BY <1>1, <2>1, DoneOrdered, DoneClaimed DEF CommandInv
  <2>3. s.list = "white" => s.entry \in mem["white"]
    BY <1>2, <1>5, <1>6 DEF Matches, WhiteMatches, InTable
  <2>4. EnableInv'
    BY <1>1, <2>1, <2>3, DoneEnable DEF CommandInv, s
  <2>5. /\ ~At(c, "insert")' /\ ~At(c, "erase")' /\ ~At(c, "apply")'
        /\ \A d \in Calls \ {c} : todo'[d] = todo[d]
    BY <1>1, <2>1, DoneHeads DEF CommandInv, s
  <2>6. \A d \in Calls, do \in {"insert", "erase", "apply"} :
          /\ At(d, do)' <=> At(d, do)
          /\ At(d, do) => Head(todo'[d]) = Head(todo[d])
    BY <1>1, <2>5 DEF At
  <2>7. ModeMatches' /\ \A d \in Calls : At(d, "apply")' => Head(todo'[d]).to = mode'
    BY <2>1, <2>6, ModeFrame DEF CommandInv, Matches
  <2>8. PendingInv'
    BY <2>1, <2>6, <2>7 DEF CommandInv, PendingInv
  <2>9. \A l \in Lists, e \in Entries : Pending(l, e)' <=> Pending(l, e)
    BY <2>6 DEF Pending, Between
  <2>10. WhiteMatches' /\ BlackMatches'
    BY <2>1, <2>9 DEF Matches, WhiteMatches, BlackMatches, InTable, Lists
  <2> QED
    BY <2>2, <2>4, <2>7, <2>8, <2>10 DEF CommandInv, Matches
<1>7. CASE ~ \E r \in rows[s.list] : r.entry = s.entry
  <2> DEFINE new == [id |-> ids[s.list] + 1, entry |-> s.entry, expires |-> s.expires,
                     lan |-> s.lan]
  <2>1. /\ rows' = [rows EXCEPT ![s.list] = @ \cup {new}]
        /\ Then(c, <<t>>)
        /\ UNCHANGED <<mode, mem, memMode, bind, shown>>
    BY <1>1, <1>7 DEF AddRow
  <2>2. new.entry = s.entry
    OBVIOUS
  <2> HIDE DEF s, t, new
  <2>3. OrderInv' /\ ClaimInv'
    BY <1>1, <1>2, <1>3, <1>4, <2>1, ReplacedOrdered, ReplacedClaimed DEF CommandInv, s
  <2>4. EnableInv'
    BY <1>1, <1>3, <2>1, ReplacedEnable DEF CommandInv, s
  <2>5. /\ \A d \in Calls \ {c} : todo'[d] = todo[d]
        /\ todo'[c] # << >> /\ Head(todo'[c]) = t
    BY <1>1, <1>3, <2>1, StepReplaced
  <2>6. /\ At(c, "insert")' /\ ~At(c, "erase")' /\ ~At(c, "apply")'
        /\ ~At(c, "insert") /\ ~At(c, "erase") /\ ~At(c, "apply")
    BY <1>1, <1>3, <2>5 DEF At
  <2>7. \A d \in Calls \ {c}, do \in {"insert", "erase", "apply"} :
          /\ At(d, do)' <=> At(d, do)
          /\ At(d, do) => Head(todo'[d]) = Head(todo[d])
    BY <2>5 DEF At
  <2>8. ModeMatches' /\ \A d \in Calls : At(d, "apply")' => Head(todo'[d]).to = mode'
    BY <2>1, <2>6, <2>7, ModeFrame DEF CommandInv, Matches
  <2>9. \A l \in Lists : rows[l] \subseteq rows'[l]
    BY <1>2, <2>1 DEF WellTyped
  <2>10. \A l \in Lists, e \in Entries : <<l, e>> # <<s.list, s.entry>> =>
           /\ \A r \in rows'[l] : r.entry = e => r \in rows[l]
           /\ InTable(l, e)' <=> InTable(l, e)
    BY <1>2, <2>1, <2>2 DEF WellTyped, InTable
  <2>11. \E r \in rows'[s.list] : r.entry = s.entry
    BY <1>2, <2>1, <2>2 DEF WellTyped
  <2>12. PendingInv'
    <3>1. ASSUME NEW d \in Calls \ {c}, At(d, "erase"),
                 NEW r \in rows'[Head(todo[d]).list], r.entry = Head(todo[d]).entry
          PROVE  FALSE
      <4> DEFINE h == Head(todo[d])
      <4>1. h \in Step /\ h.do = "erase" /\ h = todo[d][1] /\ 1 \in DOMAIN todo[d]
        BY <3>1 DEF At, WellTyped
      <4>2. h.list \in Lists /\ h.entry \in Entries /\ Touches(h) = {<<h.list, h.entry>>}
        BY <4>1, StepTouches
      <4>3. <<h.list, h.entry>> # <<s.list, s.entry>>
        BY <1>1, <1>2, <4>1, <4>2, Apart DEF CommandInv, s
      <4>4. r \in rows[h.list]
        BY <2>10, <3>1, <4>2, <4>3
      <4> QED
        BY <3>1, <4>4 DEF CommandInv, PendingInv
    <3>2. ASSUME NEW d \in Calls \ {c}, At(d, "insert")
          PROVE  \E r \in rows'[Head(todo[d]).list] : r.entry = Head(todo[d]).entry
      <4>1. Head(todo[d]) \in Step /\ Head(todo[d]).do = "insert"
        BY <3>2 DEF At, WellTyped
      <4>2. Head(todo[d]).list \in Lists
        BY <4>1, StepTouches
      <4> QED
        BY <2>9, <3>2, <4>2 DEF CommandInv, PendingInv
    <3>3. ASSUME NEW d \in Calls
          PROVE  /\ At(d, "insert")' => \E r \in rows'[Head(todo'[d]).list] : r.entry = Head(todo'[d]).entry
                 /\ At(d, "erase")' => \A r \in rows'[Head(todo'[d]).list] : r.entry # Head(todo'[d]).entry
      <4>1. CASE d = c
        BY <1>3, <2>5, <2>6, <2>11, <4>1
      <4>2. CASE d # c
        <5>1. todo'[d] = todo[d]
          BY <2>5, <4>2
        <5> QED
          BY <2>7, <3>1, <3>2, <4>2, <5>1
      <4> QED
        BY <4>1, <4>2
    <3> QED
      BY <2>8, <3>3 DEF PendingInv
  <2>13. \A l \in Lists, e \in Entries : <<l, e>> # <<s.list, s.entry>> =>
           (Pending(l, e)' <=> Pending(l, e))
    BY <1>3, <1>4, <2>5, <2>6, <2>7 DEF Pending, Between
  <2>14. \A l \in Lists, e \in Entries : <<l, e>> = <<s.list, s.entry>> => Pending(l, e)'
    BY <1>4, <2>5, <2>6 DEF Pending, Between
  <2>15. WhiteMatches'
    BY <2>1, <2>10, <2>13, <2>14 DEF Matches, WhiteMatches, Lists
  <2>16. BlackMatches'
    <3> SUFFICES ASSUME NEW e \in Entries, ~Pending("black", e)'
                 PROVE  /\ (\E r \in rows'["black"] : r.entry = e /\ r.expires # "past") =>
                             e \in mem["black"]
                        /\ e \in mem["black"] => InTable("black", e)'
      BY <2>1 DEF BlackMatches
    <3>1. <<"black", e>> # <<s.list, s.entry>>
      BY <2>14 DEF Lists
    <3> QED
      BY <2>10, <2>13, <3>1 DEF Matches, BlackMatches, Lists
  <2> QED
    BY <2>3, <2>4, <2>8, <2>12, <2>15, <2>16 DEF CommandInv, Matches
<1> QED
  BY <1>6, <1>7

LEMMA RemoveRowKept ==
  ASSUME WellTyped, RowInv, CommandInv, Matches, NEW c \in Calls, RemoveRow(c)
  PROVE  CommandInv' /\ Matches'
<1> DEFINE s == todo[c][1]
           dropped == {r \in rows[s.list] : r.id = s.id}
           t == MemStep("erase", s.list, s.entry)
<1>1. /\ todo[c] # << >> /\ Head(todo[c]) = s /\ 1 \in DOMAIN todo[c] /\ s \in Step
      /\ s.do = "remove"
  BY DEF RemoveRow, At, WellTyped
<1>2. s.list \in Lists /\ s.entry \in Entries /\ Touches(s) = {<<s.list, s.entry>>}
  BY <1>1, StepTouches
<1>3. t \in Step /\ t.do = "erase" /\ t.list = s.list /\ t.entry = s.entry
  BY <1>2, StepsMade DEF MemStep
<1>4. Touches(t) = {<<s.list, s.entry>>}
  BY <1>3, StepTouches
<1>5. /\ rows' = [rows EXCEPT ![s.list] = @ \ dropped]
      /\ Then(c, IF dropped = {} THEN << >> ELSE <<t>>)
      /\ UNCHANGED <<ids, mode, mem, memMode, bind, shown>>
  BY <1>1 DEF RemoveRow
<1>6. Names(s, ids, rows)
  BY <1>1 DEF RowInv, StepInv
<1>7. \A r \in dropped : r.entry = s.entry
  BY <1>6 DEF Names
<1>8. dropped # {} => \A r \in rows[s.list] : r.entry = s.entry => r \in dropped
  BY <1>2, <1>7 DEF WellTyped, TypeOK
<1>9. CASE dropped = {}
  <2>1. Then(c, << >>) /\ rows' = rows
    BY <1>2, <1>5, <1>9 DEF WellTyped
  <2> HIDE DEF s, t, dropped
  <2>2. OrderInv' /\ ClaimInv'
    BY <1>1, <2>1, DoneOrdered, DoneClaimed DEF CommandInv
  <2>4. EnableInv'
    BY <1>1, <1>5, <2>1, DoneEnable DEF CommandInv, s
  <2>5. /\ ~At(c, "insert")' /\ ~At(c, "erase")' /\ ~At(c, "apply")'
        /\ \A d \in Calls \ {c} : todo'[d] = todo[d]
    BY <1>1, <2>1, DoneHeads DEF CommandInv, s
  <2>6. \A d \in Calls, do \in {"insert", "erase", "apply"} :
          /\ At(d, do)' <=> At(d, do)
          /\ At(d, do) => Head(todo'[d]) = Head(todo[d])
    BY <1>1, <2>5 DEF At
  <2>7. ModeMatches' /\ \A d \in Calls : At(d, "apply")' => Head(todo'[d]).to = mode'
    BY <1>5, <2>6, ModeFrame DEF CommandInv, Matches
  <2>8. PendingInv'
    BY <2>1, <2>6, <2>7 DEF CommandInv, PendingInv
  <2>9. \A l \in Lists, e \in Entries : Pending(l, e)' <=> Pending(l, e)
    BY <2>6 DEF Pending, Between
  <2>10. WhiteMatches' /\ BlackMatches'
    BY <1>5, <2>1, <2>9 DEF Matches, WhiteMatches, BlackMatches, InTable, Lists
  <2> QED
    BY <2>2, <2>4, <2>7, <2>8, <2>10 DEF CommandInv, Matches
<1>10. CASE dropped # {}
  <2>1. Then(c, <<t>>)
    BY <1>5, <1>10
  <2>2. /\ \A l \in Lists, e \in Entries : <<l, e>> # <<s.list, s.entry>> =>
             \A r \in rows[l] : r.entry = e => r \in rows'[l]
        /\ \A l \in Lists : rows'[l] \subseteq rows[l]
        /\ \A r \in rows'[s.list] : r.entry # s.entry
    BY <1>2, <1>5, <1>7, <1>8, <1>10 DEF WellTyped
  <2> HIDE DEF s, t, dropped
  <2>3. OrderInv' /\ ClaimInv'
    BY <1>1, <1>2, <1>3, <1>4, <2>1, ReplacedOrdered, ReplacedClaimed DEF CommandInv, s
  <2>4. EnableInv'
    BY <1>1, <1>3, <1>5, <2>1, ReplacedEnable DEF CommandInv, s
  <2>5. /\ \A d \in Calls \ {c} : todo'[d] = todo[d]
        /\ todo'[c] # << >> /\ Head(todo'[c]) = t
    BY <1>1, <1>3, <2>1, StepReplaced
  <2>6. /\ ~At(c, "insert")' /\ At(c, "erase")' /\ ~At(c, "apply")'
        /\ ~At(c, "insert") /\ ~At(c, "erase") /\ ~At(c, "apply")
    BY <1>1, <1>3, <2>5 DEF At
  <2>7. \A d \in Calls \ {c}, do \in {"insert", "erase", "apply"} :
          /\ At(d, do)' <=> At(d, do)
          /\ At(d, do) => Head(todo'[d]) = Head(todo[d])
    BY <2>5 DEF At
  <2>8. ModeMatches' /\ \A d \in Calls : At(d, "apply")' => Head(todo'[d]).to = mode'
    BY <1>5, <2>6, <2>7, ModeFrame DEF CommandInv, Matches
  <2>9. PendingInv'
    <3>1. ASSUME NEW d \in Calls \ {c}, At(d, "insert")
          PROVE  \E r \in rows'[Head(todo[d]).list] : r.entry = Head(todo[d]).entry
      <4> DEFINE h == Head(todo[d])
      <4>1. h \in Step /\ h.do = "insert" /\ h = todo[d][1] /\ 1 \in DOMAIN todo[d]
        BY <3>1 DEF At, WellTyped
      <4>2. h.list \in Lists /\ h.entry \in Entries /\ Touches(h) = {<<h.list, h.entry>>}
        BY <4>1, StepTouches
      <4>3. <<h.list, h.entry>> # <<s.list, s.entry>>
        BY <1>1, <1>2, <4>1, <4>2, Apart DEF CommandInv, s
      <4>4. PICK r \in rows[h.list] : r.entry = h.entry
        BY <3>1 DEF CommandInv, PendingInv
      <4> QED
        BY <2>2, <4>2, <4>3, <4>4
    <3>2. ASSUME NEW d \in Calls \ {c}, At(d, "erase")
          PROVE  \A r \in rows'[Head(todo[d]).list] : r.entry # Head(todo[d]).entry
      <4>1. Head(todo[d]) \in Step /\ Head(todo[d]).do = "erase"
        BY <3>2 DEF At, WellTyped
      <4>2. Head(todo[d]).list \in Lists
        BY <4>1, StepTouches
      <4> QED
        BY <2>2, <3>2, <4>2 DEF CommandInv, PendingInv
    <3>3. ASSUME NEW d \in Calls
          PROVE  /\ At(d, "insert")' => \E r \in rows'[Head(todo'[d]).list] : r.entry = Head(todo'[d]).entry
                 /\ At(d, "erase")' => \A r \in rows'[Head(todo'[d]).list] : r.entry # Head(todo'[d]).entry
      <4>1. CASE d = c
        BY <1>3, <2>2, <2>5, <2>6, <4>1
      <4>2. CASE d # c
        <5>1. todo'[d] = todo[d]
          BY <2>5, <4>2
        <5> QED
          BY <2>7, <3>1, <3>2, <4>2, <5>1
      <4> QED
        BY <4>1, <4>2
    <3> QED
      BY <2>8, <3>3 DEF PendingInv
  <2>10. \A l \in Lists, e \in Entries : <<l, e>> # <<s.list, s.entry>> =>
           /\ Pending(l, e)' <=> Pending(l, e)
           /\ InTable(l, e)' <=> InTable(l, e)
    <3>1. \A l \in Lists, e \in Entries : <<l, e>> # <<s.list, s.entry>> =>
            (Pending(l, e)' <=> Pending(l, e))
      BY <1>3, <1>4, <2>5, <2>6, <2>7 DEF Pending, Between
    <3>2. \A l \in Lists, e \in Entries : <<l, e>> # <<s.list, s.entry>> =>
            (InTable(l, e)' <=> InTable(l, e))
      BY <2>2 DEF InTable
    <3> QED
      BY <3>1, <3>2
  <2>11. \A l \in Lists, e \in Entries : <<l, e>> = <<s.list, s.entry>> => Pending(l, e)'
    BY <1>4, <2>5, <2>6 DEF Pending, Between
  <2>12. WhiteMatches'
    BY <1>5, <2>10, <2>11 DEF Matches, WhiteMatches, Lists
  <2>13. BlackMatches'
    <3> SUFFICES ASSUME NEW e \in Entries, ~Pending("black", e)'
                 PROVE  /\ (\E r \in rows'["black"] : r.entry = e /\ r.expires # "past") =>
                             e \in mem["black"]
                        /\ e \in mem["black"] => InTable("black", e)'
      BY <1>5 DEF BlackMatches
    <3>1. <<"black", e>> # <<s.list, s.entry>>
      BY <2>11 DEF Lists
    <3> QED
      BY <2>2, <2>10, <3>1 DEF Matches, BlackMatches, Lists
  <2> QED
    BY <2>3, <2>4, <2>8, <2>9, <2>12, <2>13 DEF CommandInv, Matches
<1> QED
  BY <1>9, <1>10

LEMMA CommandsKept ==
  ASSUME ~Overlap, WellTyped, CommandInv, Matches, NEW c \in Calls,
         Add(c) \/ Remove(c) \/ UpdateConfig(c) \/ EnableLanSharing(c) \/ DisableLanSharing(c)
  PROVE  CommandInv' /\ Matches'
<1>1. CASE Add(c)
  <2>1. PICK l \in Lists, e \in Typed, x \in {"never", "due"} :
          Start(c, "add", << >>, <<AddStep(l, e, x, << >>)>>)
    BY <1>1 DEF Add
  <2> DEFINE s == AddStep(l, e, x, << >>)
  <2>2. s \in Step /\ s.do = "add"
    BY StepsMade, Hosted DEF AddStep, Entries
  <2> HIDE DEF s
  <2>3. /\ <<s>> \in Seq(Step) /\ <<s>> # << >> /\ <<s>>[1] = s
        /\ Ordered(<<s>>)
    BY <2>2 DEF Ordered
  <2> QED
    BY <1>1, <2>1, <2>2, <2>3, StartKept, Hosted DEF Add, Ops, s
<1>2. CASE Remove(c)
  <2>1. PICK r \in shown : Start(c, "remove", << >>, <<RemoveStep(r)>>)
    BY <1>2 DEF Remove
  <2> DEFINE s == RemoveStep(r)
  <2>2. s \in Step /\ s.do = "remove"
    BY StepsMade DEF RemoveStep, WellTyped, TypeOK
  <2> HIDE DEF s
  <2>3. /\ <<s>> \in Seq(Step) /\ <<s>> # << >> /\ <<s>>[1] = s
        /\ Ordered(<<s>>)
    BY <2>2 DEF Ordered
  <2> QED
    BY <1>2, <2>1, <2>2, <2>3, StartKept, Hosted DEF Remove, Ops, s
<1>3. CASE UpdateConfig(c)
  <2>1. PICK m \in Modes : Start(c, "config", << >>, ModeSteps(m))
    BY <1>3 DEF UpdateConfig
  <2>2. /\ ModeSteps(m) \in Seq(Step) /\ Len(ModeSteps(m)) = 2
        /\ ModeSteps(m)[1] = [do |-> "mode", to |-> m]
        /\ ModeSteps(m)[2] = [do |-> "apply", to |-> m]
        /\ ModeSteps(m) # << >>
    BY StepsMade DEF ModeSteps
  <2>3. Ordered(ModeSteps(m))
    BY <2>2 DEF Ordered
  <2> QED
    BY <1>3, <2>1, <2>2, <2>3, StartKept, Hosted DEF UpdateConfig, Ops
<1>4. CASE EnableLanSharing(c)
  <2>1. PICK lan \in Lans : Start(c, "enable", lan, EnableSteps(lan))
    BY <1>4 DEF EnableLanSharing, EnableSteps
  <2> DEFINE q == EnableSteps(lan)
             e1 == <<Loopback, Exact>>
             e2 == LanEntry(lan)
  <2>2. /\ q \in Seq(Step) /\ Len(q) \in {4, 5}
        /\ q[1].do = "bind" /\ q[2].do = "add" /\ q[2].list = "white" /\ q[2].entry = e1
        /\ lan = << >> => /\ Len(q) = 4
                          /\ q[3] = [do |-> "mode", to |-> "whitelist"]
                          /\ q[4] = [do |-> "apply", to |-> "whitelist"]
        /\ lan # << >> => /\ Len(q) = 5
                          /\ q[3].do = "add" /\ q[3].list = "white" /\ q[3].entry = e2
                          /\ q[4] = [do |-> "mode", to |-> "whitelist"]
                          /\ q[5] = [do |-> "apply", to |-> "whitelist"]
    <3>1. /\ BindStep("0.0.0.0").do = "bind"
          /\ \A e, l : /\ AddStep("white", e, "never", l).do = "add"
                      /\ AddStep("white", e, "never", l).list = "white"
                      /\ AddStep("white", e, "never", l).entry = e
      BY DEF BindStep, AddStep
    <3>2. q[1].do = "bind" /\ q[2].do = "add" /\ q[2].list = "white" /\ q[2].entry = e1
      BY <3>1, EnableStepsAre
    <3>3. lan # << >> => q[3].do = "add" /\ q[3].list = "white" /\ q[3].entry = e2
      BY <3>1, EnableStepsAre
    <3> QED
      BY <3>2, <3>3, EnableStepsAre
  <2> HIDE DEF q, e1, e2
  <2>3. q # << >>
    BY <2>2
  <2>4. Ordered(q) /\ \A i \in DOMAIN q :
                /\ q[i].do \notin {"remove", "erase"}
                /\ q[i].do \in {"mode", "apply"} => q[i].to = "whitelist"
    <3>1. CASE lan = << >>
      <4>1. DOMAIN q = 1..4
        BY <2>2, <3>1
      <4> QED
        BY <2>2, <3>1, <4>1 DEF Ordered
    <3>2. CASE lan # << >>
      <4>1. DOMAIN q = 1..5
        BY <2>2, <3>2
      <4> QED
        BY <2>2, <3>2, <4>1 DEF Ordered
    <3> QED
      BY <3>1, <3>2
  <2>5. \A e \in LanEntries(lan) :
          \E i \in DOMAIN q : q[i].do \in {"add", "insert"} /\ q[i].list = "white" /\ q[i].entry = e
    <3>1. 2 \in DOMAIN q /\ (lan # << >> => 3 \in DOMAIN q)
      BY <2>2
    <3> QED
      BY <2>2, <3>1 DEF LanEntries, e1, e2
  <2> QED
    BY SMTT(60), <1>4, <2>1, <2>2, <2>3, <2>4, <2>5, StartKept DEF EnableLanSharing, Ops,
      LanOf, q
<1>5. CASE DisableLanSharing(c)
  <2>1. Start(c, "disable", << >>, DisableSteps)
    BY <1>5 DEF DisableLanSharing, DisableSteps
  <2>2. /\ DisableSteps # << >> /\ DOMAIN DisableSteps = 1..3 /\ DisableSteps[1].do = "bind"
    <3>1. BindStep("127.0.0.1").do = "bind"
      BY DEF BindStep
    <3>2. DOMAIN DisableSteps = 1..3
      BY DisableStepsAre
    <3>3. DisableSteps # << >>
      BY DisableStepsAre
    <3>4. DisableSteps[1].do = "bind"
      BY <3>1, DisableStepsAre
    <3> QED
      BY <3>2, <3>3, <3>4
  <2>3. Ordered(DisableSteps)
    BY <2>2, DisableStepsAre DEF Ordered
  <2> QED
    BY <1>5, <2>1, <2>2, <2>3, DisableStepsAre, StartKept, Hosted DEF DisableLanSharing, Ops
<1> QED
  BY <1>1, <1>2, <1>3, <1>4, <1>5

(* A ban that expires leaves its row where it is. *)
LEMMA ExpireKept ==
  ASSUME WellTyped, CommandInv, Matches, Expire
  PROVE  CommandInv' /\ Matches'
<1>1. PICK r \in rows["black"] :
        /\ r.expires = "due"
        /\ rows' = [rows EXCEPT !["black"] = (@ \ {r}) \cup {[r EXCEPT !.expires = "past"]}]
        /\ UNCHANGED <<ids, mode, mem, memMode, bind, shown, todo, job>>
  BY DEF Expire
<1> DEFINE p == [r EXCEPT !.expires = "past"]
<1>2. r \in Row
  BY DEF WellTyped, Lists
<1>3. p.entry = r.entry /\ p.expires = "past"
  BY <1>2 DEF Row
<1> HIDE DEF p
<1>4. rows'["black"] = (rows["black"] \ {r}) \cup {p} /\ rows'["white"] = rows["white"]
  BY <1>1 DEF WellTyped, Lists, p
<1>5. \A l \in Lists : \A e : InTable(l, e)' <=> InTable(l, e)
  BY <1>3, <1>4 DEF InTable, Lists
<1>6. \A e : (\E q \in rows'["black"] : q.entry = e /\ q.expires # "past") =>
               \E q \in rows["black"] : q.entry = e /\ q.expires # "past"
  BY <1>3, <1>4
<1>7. \A d \in Calls : \A do : At(d, do)' <=> At(d, do)
  BY <1>1 DEF At
<1>8. OrderInv' /\ ClaimInv' /\ EnableInv'
  BY <1>1 DEF CommandInv, OrderInv, ClaimInv, EnableInv
<1>9. PendingInv'
  <2>1. \A d \in Calls : At(d, "insert") \/ At(d, "erase") => Head(todo[d]).list \in Lists
    <3> SUFFICES ASSUME NEW d \in Calls, At(d, "insert") \/ At(d, "erase")
                 PROVE  Head(todo[d]).list \in Lists
      OBVIOUS
    <3>1. Head(todo[d]) \in Step /\ Head(todo[d]).do \in {"insert", "erase"}
      BY DEF At, WellTyped
    <3> QED
      BY <3>1, StepTouches
  <2> QED
    BY <1>1, <1>5, <1>7, <2>1 DEF CommandInv, PendingInv, InTable
<1>10. \A l, e : Pending(l, e)' <=> Pending(l, e)
  BY <1>1, <1>7 DEF Pending, Between
<1>11. WhiteMatches' /\ BlackMatches'
  BY <1>1, <1>5, <1>6, <1>10 DEF Matches, WhiteMatches, BlackMatches, Lists
<1>12. ModeMatches'
  BY <1>1, <1>7 DEF Matches, ModeMatches, Between
<1> QED
  BY <1>8, <1>9, <1>11, <1>12 DEF CommandInv, Matches

(* A restart reads what the tables have in force; the white list has nothing else. *)
LEMMA RestartKept ==
  ASSUME WellTyped, RowInv, Restart
  PROVE  CommandInv' /\ Matches'
<1>1. \A c \in Calls : todo'[c] = << >> /\ DOMAIN todo'[c] = {} /\ job'[c] = NoJob
  BY DEF Restart
<1>2. NoJob.on = {} /\ NoJob.op = "none"
  BY DEF NoJob
<1>3. CommandInv'
  BY <1>1, <1>2 DEF CommandInv, OrderInv, Ordered, ClaimInv, PendingInv, EnableInv, At
<1>4. \A e : e \in mem'["white"] <=> \E r \in rows["white"] : r.entry = e
  BY DEF Restart, Reload, RowInv, Lists
<1>5. \A e : e \in mem'["black"] <=> \E r \in rows["black"] : r.entry = e /\ r.expires # "past"
  BY DEF Restart, Reload, Lists
<1>6. rows' = rows /\ mode' = mode /\ memMode' = mode
  BY DEF Restart
<1>7. Matches'
  BY <1>4, <1>5, <1>6 DEF Matches, WhiteMatches, BlackMatches, ModeMatches, InTable
<1> QED
  BY <1>3, <1>7

LEMMA CommandStep ==
  ASSUME ~Overlap, WellTyped, RowInv, CommandInv, Matches, [Next]_vars
  PROVE  CommandInv' /\ Matches'
<1>1. ASSUME UNCHANGED <<rows, mode, mem, memMode, todo, job>>
      PROVE  CommandInv' /\ Matches'
  BY <1>1 DEF CommandInv, OrderInv, ClaimInv, PendingInv, EnableInv, At, Matches, WhiteMatches,
              BlackMatches, ModeMatches, Pending, Between, InTable
<1>2. ASSUME NEW l \in Lists, List(l)
      PROVE  CommandInv' /\ Matches'
  BY <1>1, <1>2 DEF List
<1>3. CASE UNCHANGED vars
  BY <1>1, <1>3 DEF vars
<1> QED
  BY <1>2, <1>3, CommandsKept, BindKept, AddRowKept, RemoveRowKept, MemoryKept, WriteModeKept,
     ApplyModeKept, ExpireKept, RestartKept DEF Next

LEMMA CommandInvariant ==
  ASSUME ~Overlap
  PROVE  Spec => [](WellTyped /\ RowInv /\ CommandInv /\ Matches)
<1>1. Init => WellTyped /\ RowInv /\ CommandInv /\ Matches
  BY InitTyped, InitCommand, MatchesAre
<1>2. WellTyped /\ RowInv /\ CommandInv /\ Matches /\ [Next]_vars =>
        (WellTyped /\ RowInv /\ CommandInv /\ Matches)'
  BY TypedStep, CommandStep
<1> QED
  BY <1>1, <1>2, PTL DEF Spec

-----------------------------------------------------------------------------
(* Commands that touch different things: outside the instant between a command's two
   writes, the whitelist and the mode in memory are those of the tables, whatever commands
   failed, named rows that are gone, or were cut short (security.rs:100-163). *)
THEOREM MemoryAlwaysMatches ==
  ASSUME ~Overlap
  PROVE  Spec => []MemoryMatchesTables
BY CommandInvariant, MatchesAre, PTL

(* Commands that touch different things: a ban in force is enforced, and nobody is banned
   without a row, through unbans, expiry and restarts. *)
THEOREM BansStayInForce ==
  ASSUME ~Overlap
  PROVE  Spec => []BansInForce
BY CommandInvariant, MatchesAre, PTL

(* Commands that touch different things: when enable_lan_sharing returns, this machine and
   its neighbours on a private network are served, although other commands change the lists
   meanwhile and an entry that is there already makes its insert fail. *)
THEOREM EnableAlwaysAdmits ==
  ASSUME ~Overlap
  PROVE  Spec => EnableAdmits
<1> DEFINE Admitted ==
      \A c \in Calls :
        ApplyMode(c) /\ job[c].op = "enable" =>
          \A a \in Addresses : IsNeighbour(a, job[c].lan) =>
            (Verdict("/v1/messages", a, "right") = "served")'
<1>1. WellTyped /\ CommandInv /\ [Next]_vars => [Admitted]_vars
  <2> SUFFICES ASSUME WellTyped, CommandInv, NEW c \in Calls, ApplyMode(c), job[c].op = "enable",
                      NEW a \in Addresses, IsNeighbour(a, job[c].lan)
               PROVE  (Verdict("/v1/messages", a, "right") = "served")'
    OBVIOUS
  <2> DEFINE lan == job[c].lan
  <2>1. /\ todo[c] # << >> /\ 1 \in DOMAIN todo[c] /\ Head(todo[c]) = todo[c][1]
        /\ todo[c][1].do = "apply" /\ todo[c] \in Seq(Step)
        /\ memMode' = todo[c][1].to /\ mem' = mem
    BY DEF ApplyMode, At, WellTyped
  <2>2. todo[c][1].to = "whitelist"
    BY <2>1 DEF CommandInv, EnableInv
  <2>3. \A i \in DOMAIN todo[c] : i = 1
    <3>1. Len(todo[c]) = 1
      BY <2>1 DEF CommandInv, OrderInv, Ordered
    <3> QED
      BY <2>1, <3>1
  <2>4. \A e \in LanEntries(lan) : e \in mem["white"]
    BY <2>1, <2>3 DEF CommandInv, EnableInv
  <2>5. \E e \in mem["white"] : Covers(e, a)
    <3>1. CASE a = Loopback
      <4>1. <<Loopback, Exact>> \in LanEntries(lan)
        BY DEF LanEntries
      <4>2. Covers(<<Loopback, Exact>>, Loopback)
        BY DEF Covers
      <4> QED
        BY <2>4, <3>1, <4>1, <4>2
    <3>2. CASE a # Loopback
      <4>1. \/ a = lan
            \/ lan # << >> /\ Private(lan) /\ \A i \in 1..3 : a[i] = lan[i]
        BY <3>2 DEF IsNeighbour
      <4>2. a \in [1..4 -> Octets] /\ a # << >>
        BY SMTT(60), AddressesAssumption
      <4>3. lan # << >>
        BY <4>1, <4>2
      <4>4. lan \in [1..4 -> Octets]
        <5>1. lan \in LanOf
          BY DEF WellTyped
        <5>2. Loopback \in [1..4 -> Octets]
          BY DEF Loopback, Octets
        <5> QED
          BY <4>3, <5>1, <5>2, LansAssumption, AddressesAssumption DEF LanOf
      <4>5. Private(lan) /\ (\A i \in 1..3 : a[i] = lan[i]) => Private(a)
        <5>1. IsRfc1918(lan) /\ (\A i \in 1..3 : a[i] = lan[i]) => IsRfc1918(a)
          BY DEF IsRfc1918
        <5> QED
          BY <4>2, <4>4, <5>1, PrivateRanges
      <4>6. Covers(LanEntry(lan), a)
        BY <4>1, <4>4, <4>5, LanCovers
      <4> QED
        BY <2>4, <4>3, <4>6 DEF LanEntries
    <3> QED
      BY <3>1, <3>2
  <2>6. Admits(a)'
    BY <2>1, <2>2, <2>5 DEF Admits
  <2> QED
    BY <2>6 DEF Verdict, Authorized
<1> QED
  BY <1>1, CommandInvariant, PTL DEF Spec, EnableAdmits

-----------------------------------------------------------------------------
(* RequestLog: the row of one request. *)
(* A row R after a job, and after those jobs J that are still to run: with Prompt there is
   at most one. *)
Done(work, R) ==
  CASE work.do = "save" -> {work.row}
    [] work.do = "usage" -> {[r EXCEPT !.usage = work.usage] : r \in R}
    [] work.do = "body" -> {[r EXCEPT !.body = TRUE] : r \in R}
    [] work.do = "status" -> {[r EXCEPT !.status = work.status, !.error = TRUE] : r \in R}

Ahead(J, R) == IF J = {} THEN R ELSE Done((CHOOSE j \in J : TRUE).job, R)
Coming == Ahead(jobs, logRows)

RowOf(a, status, usage, body) ==
  [account |-> a, status |-> status, usage |-> usage, body |-> body, error |-> status # 200]

NoBody == FALSE
WithBody == TRUE

(* The row is e, if the log has it. *)
Is(R, e) == R \subseteq {e} /\ (Logged /\ ~cleared => R = {e})

(* Usage in logRows R is that of account a, which answers status. *)
Charged(R, status, a) ==
  \A r \in R : r.usage # "none" => status = 200 /\ r.account = a /\ r.status = 200

(* Where the handler is, and what that says of the answer. *)
LogPlace ==
  /\ kind \in Kinds
  /\ account \in Accounts \cup {Pseudo} /\ seen \in Usages
  /\ pc \in {"select", "send", "probe", "stream", "usage", "end"}
  /\ pc \in {"probe", "stream", "usage"} => kind.sse
  /\ created /\ pc # "end" => kind.sse /\ pc # "select"
  /\ pc \in {"select", "send", "probe"} => answer = 0
  /\ pc \in {"stream", "usage"} => answer = 200

(* At most one job is under way, which is the usage's where that is awaited. *)
LogJobs ==
  /\ \A j \in jobs : jobs = {j}
  /\ pc = "usage" => \A j \in jobs : j.job.do = "usage"

(* What the row says, or will. *)
LogRow ==
  /\ ~Logged => logRows = {} /\ Coming = {}
  /\ Charged(logRows, answer, account) /\ Charged(Coming, answer, account)
  /\ pc \in {"probe", "stream"} \/ (pc = "send" /\ created) =>
       Is(Coming, RowOf(account, 200, "none", NoBody))
  /\ pc = "usage" => Is(Coming, RowOf(account, 200, seen, NoBody))
  /\ pc = "end" /\ answer = 200 => Is(Coming, RowOf(account, 200, seen, WithBody))
  /\ pc = "end" /\ kind.path = "audit" /\ Logged /\ ~cleared =>
       \E r \in Coming : r.status = answer

LogInv == LogPlace /\ LogJobs /\ LogRow

LEMMA AheadIs ==
  /\ \A R : Ahead({}, R) = R
  /\ \A j, R : Ahead({j}, R) = Done(j.job, R)
<1>1. \A j : (CHOOSE i \in {j} : TRUE) = j
  OBVIOUS
<1> QED
  BY <1>1 DEF Ahead

LEMMA AfterIs ==
  ASSUME NEW work
  PROVE  After(work) = Done(work, logRows)
BY DEF After, Done

LEMMA DoneIs ==
  ASSUME NEW work, NEW R
  PROVE  /\ work.do = "save" => Done(work, R) = {work.row}
         /\ work.do = "usage" => Done(work, R) = {[r EXCEPT !.usage = work.usage] : r \in R}
         /\ work.do = "body" => Done(work, R) = {[r EXCEPT !.body = TRUE] : r \in R}
         /\ work.do = "status" =>
              Done(work, R) = {[r EXCEPT !.status = work.status, !.error = TRUE] : r \in R}
BY Zenon DEF Done

(* The fields of a row, and what the updates make of them. *)
LEMMA RowFields ==
  ASSUME NEW a \in Accounts \cup {Pseudo}, NEW s \in Nat, NEW u \in Usages,
         NEW b \in BOOLEAN
  PROVE  /\ RowOf(a, s, u, b) \in RowType
         /\ RowOf(a, s, u, b).account = a /\ RowOf(a, s, u, b).status = s
         /\ RowOf(a, s, u, b).usage = u /\ RowOf(a, s, u, b).body = b
         /\ RowOf(a, s, u, b).error = (s # 200)
BY DEF RowOf, RowType

LEMMA RowIs ==
  ASSUME NEW r \in RowType, NEW a, NEW s, NEW u, NEW b,
         r.account = a, r.status = s, r.usage = u, r.body = b, r.error = (s # 200)
  PROVE  r = RowOf(a, s, u, b)
BY DEF RowOf, RowType

LEMMA BodyIs == NoBody \in BOOLEAN /\ WithBody \in BOOLEAN
BY DEF NoBody, WithBody

LEMMA UpdatedRow ==
  ASSUME NEW a \in Accounts \cup {Pseudo}, NEW s \in Nat, NEW u \in Usages,
         NEW b \in BOOLEAN, NEW R, R \subseteq {RowOf(a, s, u, b)}, NEW work
  PROVE  /\ work.do = "usage" /\ work.usage \in Usages =>
              Done(work, R) = IF R = {} THEN {} ELSE {RowOf(a, s, work.usage, b)}
         /\ work.do = "body" =>
              Done(work, R) = IF R = {} THEN {} ELSE {RowOf(a, s, u, WithBody)}
         /\ work.do = "status" /\ work.status \in Nat /\ work.status # 200 =>
              Done(work, R) = IF R = {} THEN {} ELSE {RowOf(a, work.status, u, b)}
<1> DEFINE r == RowOf(a, s, u, b)
           q1 == [r EXCEPT !.usage = work.usage]
           q2 == [r EXCEPT !.body = WithBody]
           q3 == [r EXCEPT !.status = work.status, !.error = TRUE]
<1>1. /\ r \in RowType
      /\ r.account = a /\ r.status = s /\ r.usage = u /\ r.body = b
      /\ r.error = (s # 200)
  BY RowFields
<1>2. R = {} \/ R = {r}
  BY DEF r
<1> HIDE DEF r
<1>3. ASSUME work.do = "usage", work.usage \in Usages
      PROVE  Done(work, R) = IF R = {} THEN {} ELSE {RowOf(a, s, work.usage, b)}
  <2>1. /\ q1 \in RowType
        /\ q1.account = a /\ q1.status = s /\ q1.usage = work.usage /\ q1.body = b
        /\ q1.error = (s # 200)
    BY <1>1, <1>3 DEF RowType
  <2>2. R = {r} => {[x EXCEPT !.usage = work.usage] : x \in R} = {q1}
    OBVIOUS
  <2>3. R = {} => {[x EXCEPT !.usage = work.usage] : x \in R} = {}
    OBVIOUS
  <2>4. Done(work, R) = {[x EXCEPT !.usage = work.usage] : x \in R}
    BY <1>3, DoneIs
  <2> HIDE DEF q1
  <2>5. q1 = RowOf(a, s, work.usage, b)
    BY <2>1, RowIs
  <2> QED
    BY <1>2, <2>2, <2>3, <2>4, <2>5
<1>4. ASSUME work.do = "body"
      PROVE  Done(work, R) = IF R = {} THEN {} ELSE {RowOf(a, s, u, WithBody)}
  <2>1. /\ q2 \in RowType
        /\ q2.account = a /\ q2.status = s /\ q2.usage = u /\ q2.body = WithBody
        /\ q2.error = (s # 200)
    BY <1>1, BodyIs DEF RowType
  <2>2. R = {r} => {[x EXCEPT !.body = TRUE] : x \in R} = {q2}
    BY DEF WithBody
  <2>3. R = {} => {[x EXCEPT !.body = TRUE] : x \in R} = {}
    OBVIOUS
  <2>4. Done(work, R) = {[x EXCEPT !.body = TRUE] : x \in R}
    BY <1>4, DoneIs
  <2> HIDE DEF q2
  <2>5. q2 = RowOf(a, s, u, WithBody)
    BY <2>1, RowIs
  <2> QED
    BY <1>2, <2>2, <2>3, <2>4, <2>5
<1>5. ASSUME work.do = "status", work.status \in Nat, work.status # 200
      PROVE  Done(work, R) = IF R = {} THEN {} ELSE {RowOf(a, work.status, u, b)}
  <2>1. /\ q3 \in RowType
        /\ q3.account = a /\ q3.status = work.status /\ q3.usage = u /\ q3.body = b
        /\ q3.error = (work.status # 200)
    BY ZenonT(60), <1>1, <1>5 DEF RowType
  <2>2. R = {r} => {[x EXCEPT !.status = work.status, !.error = TRUE] : x \in R} = {q3}
    OBVIOUS
  <2>3. R = {} => {[x EXCEPT !.status = work.status, !.error = TRUE] : x \in R} = {}
    OBVIOUS
  <2>4. Done(work, R) = {[x EXCEPT !.status = work.status, !.error = TRUE] : x \in R}
    BY ZenonT(60), <1>5, DoneIs
  <2> HIDE DEF q3
  <2>5. q3 = RowOf(a, work.status, u, b)
    BY <2>1, RowIs
  <2> QED
    BY <1>2, <2>2, <2>3, <2>4, <2>5
<1> QED
  BY <1>3, <1>4, <1>5

LEMMA SpawnedJob ==
  ASSUME jobs = {}, NEW work, Spawn(work), UNCHANGED logRows
  PROVE  /\ \A j \in jobs' : jobs' = {j} /\ j.job = work
         /\ Coming' = Done(work, logRows)
<1>1. jobs' = {[no |-> issued, job |-> work]}
  BY DEF Spawn
<1>2. [no |-> issued, job |-> work].job = work
  OBVIOUS
<1>3. Ahead({[no |-> issued, job |-> work]}, logRows) = Done(work, logRows)
  BY <1>2, AheadIs
<1> QED
  BY <1>1, <1>2, <1>3 DEF Coming

(* A row is saved, unless the request has none. *)
LEMMA Logging ==
  ASSUME LogPlace, LogRow, jobs = {}, UNCHANGED logRows, NEW status, NEW usage, NEW body,
         Log(status, usage, body)
  PROVE  /\ \A j \in jobs' : jobs' = {j}
         /\ Coming' = IF Logged THEN {RowOf(account, status, usage, body)} ELSE {}
<1>1. CASE ~Logged
  <2>1. UNCHANGED jobs /\ logRows = {}
    BY <1>1 DEF Log, NoSpawn, LogRow
  <2> QED
    BY <1>1, <2>1, AheadIs DEF Coming
<1>2. CASE Logged
  <2> DEFINE work == [do |-> "save", row |-> RowOf(account, status, usage, body)]
  <2>1. Spawn(work)
    BY <1>2 DEF Log, RowOf
  <2>2. work.do = "save" /\ work.row = RowOf(account, status, usage, body)
    OBVIOUS
  <2> HIDE DEF work
  <2>3. /\ \A j \in jobs' : jobs' = {j} /\ j.job = work
        /\ Coming' = Done(work, logRows)
    BY <2>1, SpawnedJob
  <2> QED
    BY <1>2, <2>2, <2>3, DoneIs
<1> QED
  BY <1>1, <1>2

LEMMA NoWork ==
  ASSUME UNCHANGED <<jobs, logRows>>
  PROVE  Coming' = Coming
BY DEF Coming

LEMMA ChargedRow ==
  ASSUME NEW a \in Accounts \cup {Pseudo}, NEW s \in Nat, NEW u \in Usages,
         NEW b \in BOOLEAN, NEW R, R \subseteq {RowOf(a, s, u, b)},
         NEW status, NEW who, u # "none" => status = 200 /\ a = who /\ s = 200
  PROVE  Charged(R, status, who)
<1>1. RowOf(a, s, u, b).account = a /\ RowOf(a, s, u, b).status = s /\ RowOf(a, s, u, b).usage = u
  BY RowFields
<1> QED
  BY <1>1 DEF Charged

LEMMA ChargedNone ==
  ASSUME NEW R, NEW s, NEW a, Charged(R, s, a), s # 200, NEW t, NEW b
  PROVE  Charged(R, t, b)
BY DEF Charged


LEMMA OneJob ==
  ASSUME Prompt, LogInv, [LogNext]_logVars
  PROVE  LogJobs'
<1> USE DEF LogInv, LogJobs, Network, Selected, Audit, Answer, NoSpawn, Failover
<1>1. CASE Select \/ GiveUp \/ SendFailed \/ FirstByteTimeout \/ ProbeFailed
  BY <1>1 DEF Select, GiveUp, SendFailed, FirstByteTimeout, ProbeFailed
<1>2. CASE ErrorStatus \/ Json \/ Provisional
  <2>1. /\ jobs = {} /\ UNCHANGED logRows /\ pc' # "usage"
        /\ UNCHANGED jobs \/ \E status, usage, body : Log(status, usage, body)
    BY <1>2 DEF ErrorStatus, Json, Provisional
  <2> QED
    BY <2>1, Logging
<1>3. CASE AuditFailed \/ AuditPlain \/ AuditProvisional
  <2>1. /\ jobs = {} /\ UNCHANGED logRows /\ pc' # "usage"
        /\ \E status, usage, body : Log(status, usage, body)
    <3>1. CASE AuditPlain
      <4>1. PICK status, usage : Log(status, usage, TRUE)
        BY <3>1 DEF AuditPlain
      <4> QED
        BY <3>1, <4>1 DEF AuditPlain
    <3>2. CASE AuditFailed
      BY <3>2, Zenon DEF AuditFailed
    <3>3. CASE AuditProvisional
      BY <3>3, Zenon DEF AuditProvisional
    <3> QED
      BY <1>3, <3>1, <3>2, <3>3
  <2> QED
    BY <2>1, Logging
<1>4. CASE AuditProbeFailed \/ UsageDone
  <2>1. /\ jobs = {} /\ UNCHANGED logRows /\ pc' # "usage"
        /\ UNCHANGED jobs \/ \E work : Spawn(work)
    BY <1>4 DEF AuditProbeFailed, UsageDone
  <2> QED
    BY <2>1, SpawnedJob
<1>5. CASE StreamEnd
  <2>1. CASE seen = "none"
    BY <1>5, <2>1 DEF StreamEnd
  <2>2. CASE seen # "none"
    <3> DEFINE work == [do |-> "usage", usage |-> seen]
    <3>1. jobs = {} /\ UNCHANGED logRows /\ Spawn(work)
      BY <1>5, <2>2 DEF StreamEnd
    <3>2. work.do = "usage"
      OBVIOUS
    <3> HIDE DEF work
    <3> QED
      BY <3>1, <3>2, SpawnedJob
  <2> QED
    BY <2>1, <2>2
<1>6. CASE FirstChunk \/ Chunk \/ HangUp \/ UNCHANGED logVars
  BY <1>6 DEF FirstChunk, Chunk, HangUp, logVars, requestVars
<1>7. CASE RunJob \/ ClearLogs
  BY <1>7 DEF RunJob, ClearLogs, requestVars
<1> QED
  BY <1>1, <1>2, <1>3, <1>4, <1>5, <1>6, <1>7 DEF LogNext

LEMMA PlaceStep ==
  ASSUME Prompt, LogInv, [LogNext]_logVars
  PROVE  LogPlace'
<1> USE DEF LogInv, LogPlace, Network, Selected, Audit, Answer, Failover
<1>1. CASE Select \/ GiveUp \/ SendFailed \/ FirstByteTimeout \/ ProbeFailed
  BY <1>1 DEF Select, GiveUp, SendFailed, FirstByteTimeout, ProbeFailed
<1>2. CASE ErrorStatus \/ Json \/ Provisional
  BY ZenonT(60), <1>2 DEF ErrorStatus, Json, Provisional, Usages
<1>3. CASE AuditFailed \/ AuditPlain \/ AuditProvisional \/ AuditProbeFailed
  <2>1. CASE AuditPlain
    <3>1. /\ seen' \in Usages /\ pc' = "end"
          /\ UNCHANGED <<kind, account>>
      BY <2>1 DEF AuditPlain, Usages
    <3> QED
      BY <3>1
  <2>2. CASE AuditFailed
    BY <2>2 DEF AuditFailed
  <2>3. CASE AuditProvisional
    BY <2>3 DEF AuditProvisional
  <2>4. CASE AuditProbeFailed
    BY <2>4 DEF AuditProbeFailed
  <2> QED
    BY <1>3, <2>1, <2>2, <2>3, <2>4
<1>4. CASE FirstChunk \/ Chunk \/ StreamEnd \/ UsageDone \/ HangUp
  BY <1>4 DEF FirstChunk, Chunk, StreamEnd, UsageDone, HangUp, Usages
<1>5. CASE RunJob \/ ClearLogs \/ UNCHANGED logVars
  BY <1>5 DEF RunJob, ClearLogs, logVars, requestVars
<1> QED
  BY <1>1, <1>2, <1>3, <1>4, <1>5 DEF LogNext

(* What a step writes that leaves the row and the jobs alone. *)
LEMMA QuietRow ==
  ASSUME Prompt, LogInv, Select \/ GiveUp \/ SendFailed \/ FirstByteTimeout
           \/ ProbeFailed \/ FirstChunk \/ Chunk \/ HangUp \/ UNCHANGED logVars
  PROVE  LogRow'
<1> USE DEF LogInv, LogPlace, LogRow, Network, Selected, Gateway, Answer,
            NoSpawn, Failover, Is
<1>1. Coming' = Coming /\ UNCHANGED logRows /\ (Logged' <=> Logged) /\ UNCHANGED <<kind, cleared>>
  <2>1. UNCHANGED <<jobs, logRows, kind, cleared>>
    BY DEF Select, GiveUp, SendFailed, FirstByteTimeout, ProbeFailed,
      FirstChunk, Chunk, HangUp, logVars, requestVars
  <2> QED
    BY <2>1, NoWork DEF Logged
<1>2. CASE Select \/ GiveUp \/ SendFailed \/ FirstByteTimeout \/ ProbeFailed
  <2>1. /\ answer = 0
        /\ \/ UNCHANGED account /\ pc' = "send" /\ pc = "probe"
           \/ pc' = "send" /\ ~created'
           \/ pc' = "select"
           \/ pc' = "end" /\ answer' # 200 /\ kind.path # "audit"
    <3>1. CASE Select
      BY <3>1 DEF Select
    <3>2. CASE GiveUp
      BY <3>2 DEF GiveUp
    <3>3. CASE SendFailed
      BY <3>3 DEF SendFailed
    <3>4. CASE FirstByteTimeout \/ ProbeFailed
      BY <3>4 DEF FirstByteTimeout, ProbeFailed
    <3> QED
      BY <1>2, <3>1, <3>2, <3>3, <3>4
  <2>2. /\ Charged(logRows, answer', account')
        /\ Charged(Coming, answer', account')
    BY <2>1, ChargedNone
  <2>3. CASE UNCHANGED account /\ pc' = "send" /\ pc = "probe"
    BY <1>1, <2>2, <2>3
  <2>4. CASE pc' = "send" /\ ~created'
    BY <1>1, <2>2, <2>4
  <2>5. CASE pc' = "select"
    BY <1>1, <2>2, <2>5
  <2>6. CASE pc' = "end" /\ answer' # 200 /\ kind.path # "audit"
    BY <1>1, <2>2, <2>6
  <2> QED
    BY <2>1, <2>3, <2>4, <2>5, <2>6
<1>3. CASE FirstChunk \/ Chunk
  <2>1. /\ answer = 0 \/ UNCHANGED answer
        /\ UNCHANGED account /\ pc \in {"probe", "stream"} /\ pc' = "stream"
    BY <1>3 DEF FirstChunk, Chunk
  <2>2. /\ Charged(logRows, answer', account')
        /\ Charged(Coming, answer', account')
    BY <2>1, ChargedNone
  <2> QED
    BY <1>1, <2>1, <2>2
<1>4. CASE HangUp \/ UNCHANGED logVars
  <2>1. UNCHANGED <<pc, account, created, seen, answer>>
    BY <1>4 DEF HangUp, logVars, requestVars
  <2> QED
    BY <1>1, <2>1
<1> QED
  BY <1>2, <1>3, <1>4

(* A save replaces the row, which has the usage of what is answered, if any. *)
LEMMA Saving ==
  ASSUME LogInv, jobs = {}, answer = 0, UNCHANGED <<logRows, kind, account, cleared>>,
         NEW status \in Nat, NEW usage \in Usages, NEW body \in BOOLEAN,
         Log(status, usage, body), usage # "none" => answer' = 200 /\ status = 200
  PROVE  /\ ~Logged' => logRows' = {} /\ Coming' = {}
         /\ Charged(logRows', answer', account') /\ Charged(Coming', answer', account')
         /\ Is(Coming, RowOf(account, status, usage, body))'
         /\ Logged' => \E r \in Coming' : r.status = status
<1>1. Coming' = IF Logged THEN {RowOf(account, status, usage, body)} ELSE {}
  BY Logging DEF LogInv
<1>2. Logged' <=> Logged
  BY DEF Logged
<1>3. account \in Accounts \cup {Pseudo}
  BY DEF LogInv, LogPlace
<1>4. Charged(logRows', answer', account')
  BY ChargedNone DEF LogInv, LogRow
<1>5. Charged(Coming', answer', account')
  BY <1>1, <1>3, ChargedRow
<1>6. RowOf(account, status, usage, body).status = status
  BY <1>3, RowFields
<1> QED
  BY <1>1, <1>2, <1>4, <1>5, <1>6 DEF LogInv, LogRow, Is

(* What a step writes that may save a row. *)
LEMMA SavedRow ==
  ASSUME Prompt, LogInv, ErrorStatus \/ Json \/ Provisional
           \/ AuditFailed \/ AuditPlain \/ AuditProvisional
  PROVE  LogRow'
<1> USE DEF Network, Selected, Gateway, Audit, Answer, Failover
<1>1. /\ jobs = {} /\ UNCHANGED <<logRows, kind, account, cleared>> /\ pc = "send"
  BY DEF LogInv, ErrorStatus, Json, Provisional, AuditFailed, AuditPlain,
    AuditProvisional
<1>2. answer = 0 /\ kind \in Kinds /\ (created => kind.sse)
  BY <1>1 DEF LogInv, LogPlace
<1>3. Logged' <=> Logged
  BY <1>1 DEF Logged
<1>4. Charged(logRows', answer', account') /\ Charged(Coming, answer', account')
  BY <1>1, <1>2, ChargedNone DEF LogInv, LogRow
<1>5. ASSUME NoSpawn
      PROVE  Coming' = Coming
  BY <1>1, <1>5, NoWork DEF NoSpawn
<1>12. /\ {200, 502} \subseteq Nat /\ "none" \in Usages
       /\ 200 \in Nat /\ 502 \in Nat
  BY DEF Usages
<1>13. NoBody \in BOOLEAN /\ WithBody \in BOOLEAN
  BY BodyIs
<1>6. CASE ErrorStatus
  <2>1. PICK status \in Rejecting \cup Passing :
          /\ IF created THEN NoSpawn ELSE Log(status, "none", WithBody)
          /\ \/ pc' = "select" /\ ~created'
             \/ pc' = "end" /\ answer' = status /\ kind.path = "gateway"
    BY <1>6 DEF ErrorStatus, WithBody
  <2>2. status \in Nat /\ status # 200 /\ "none" \in Usages
    BY DEF Rejecting, Passing, Usages
  <2>3. /\ ~Logged' => logRows' = {} /\ Coming' = {}
        /\ Charged(Coming', answer', account')
    <3>1. CASE created
      BY <1>1, <1>3, <1>4, <1>5, <2>1, <3>1 DEF LogInv, LogRow
    <3>2. CASE ~created
      BY <1>1, <1>2, <2>1, <2>2, <3>2, <1>13, Saving
    <3> QED
      BY <3>1, <3>2
  <2> QED
    BY <1>1, <1>4, <2>1, <2>2, <2>3 DEF LogRow
<1>7. CASE Json
  <2>1. PICK usage \in {"none", "final"} :
          /\ seen' = usage
          /\ IF created THEN NoSpawn ELSE Log(200, usage, WithBody)
    BY <1>7 DEF Json, WithBody
  <2>2. ~created /\ answer' = 200 /\ pc' = "end" /\ kind.path # "audit" /\ usage \in Usages
    BY <1>2, <1>7 DEF Json, Usages
  <2>3. /\ ~Logged' => logRows' = {} /\ Coming' = {}
        /\ Charged(Coming', answer', account')
        /\ Is(Coming, RowOf(account, 200, usage, WithBody))'
    BY <1>1, <1>2, <2>1, <2>2, <1>13, Saving
  <2> QED
    BY <1>1, <1>4, <2>1, <2>2, <2>3 DEF LogRow
<1>8. CASE Provisional
  <2>1. /\ IF created THEN NoSpawn ELSE Log(200, "none", NoBody)
        /\ pc' = "probe"
    BY <1>8 DEF Provisional, NoBody
  <2>2. /\ ~Logged' => logRows' = {} /\ Coming' = {}
        /\ Charged(Coming', answer', account')
        /\ Is(Coming, RowOf(account, 200, "none", NoBody))'
    <3>1. CASE created
      <4>1. /\ Coming' = Coming /\ UNCHANGED <<logRows, cleared>>
            /\ Is(Coming, RowOf(account, 200, "none", NoBody))
            /\ ~Logged => logRows = {} /\ Coming = {}
        BY <1>1, <1>5, <2>1, <3>1, Zenon DEF LogInv, LogRow
      <4>2. Is(Coming, RowOf(account, 200, "none", NoBody))'
        <5>1. PICK e : e = RowOf(account, 200, "none", NoBody)
          OBVIOUS
        <5>2. e = RowOf(account', 200, "none", NoBody)
          BY <1>1, <5>1
        <5>3. Coming \subseteq {e} /\ (Logged /\ ~cleared => Coming = {e})
          BY <4>1, <5>1 DEF Is
        <5>4. Coming' \subseteq {e} /\ (Logged' /\ ~cleared' => Coming' = {e})
          BY <1>3, <4>1, <5>3
        <5> QED
          BY <5>2, <5>4 DEF Is
      <4>3. ~Logged' => logRows' = {} /\ Coming' = {}
        BY <1>3, <4>1
      <4>4. Charged(Coming', answer', account')
        BY <1>4, <4>1
      <4> QED
        BY <4>2, <4>3, <4>4
    <3>2. CASE ~created
      <4>1. Log(200, "none", NoBody)
        BY <2>1, <3>2, Zenon
      <4> QED
        BY <1>1, <1>2, <1>12, <4>1, <1>13, Saving
    <3> QED
      BY <3>1, <3>2
  <2> QED
    BY <1>1, <1>4, <2>1, <2>2 DEF LogRow
<1>9. CASE AuditFailed
  <2>1. Log(502, "none", NoBody) /\ answer' = 502 /\ pc' = "end"
    BY <1>9, Zenon DEF AuditFailed, NoBody
  <2>2. /\ ~Logged' => logRows' = {} /\ Coming' = {}
        /\ Charged(Coming', answer', account')
        /\ Logged' => \E r \in Coming' : r.status = 502
    BY <1>1, <1>2, <1>12, <2>1, <1>13, Saving
  <2> QED
    BY <1>1, <1>4, <2>1, <2>2 DEF LogRow
<1>10. CASE AuditPlain
  <2>1. PICK status \in {200} \cup Rejecting \cup Passing, usage \in {"none", "final"} :
          /\ status # 200 => usage = "none"
          /\ seen' = usage
          /\ Log(status, usage, WithBody)
          /\ answer' = status /\ pc' = "end"
    BY <1>10, ZenonT(180) DEF AuditPlain, WithBody
  <2>2. status \in Nat /\ usage \in Usages
    BY DEF Rejecting, Passing, Usages
  <2>3. /\ ~Logged' => logRows' = {} /\ Coming' = {}
        /\ Charged(Coming', answer', account')
        /\ Is(Coming, RowOf(account, status, usage, WithBody))'
        /\ Logged' => \E r \in Coming' : r.status = status
    BY <1>1, <1>2, <2>1, <2>2, <1>13, Saving
  <2> QED
    BY <1>1, <1>4, <2>1, <2>3 DEF LogRow
<1>11. CASE AuditProvisional
  <2>1. Log(200, "none", NoBody) /\ pc' = "probe"
    BY <1>11, Zenon DEF AuditProvisional, NoBody
  <2>2. /\ ~Logged' => logRows' = {} /\ Coming' = {}
        /\ Charged(Coming', answer', account')
        /\ Is(Coming, RowOf(account, 200, "none", NoBody))'
    BY <1>1, <1>2, <1>12, <2>1, <1>13, Saving
  <2> QED
    BY <1>1, <1>4, <2>1, <2>2 DEF LogRow
<1> QED
  BY <1>6, <1>7, <1>8, <1>9, <1>10, <1>11

(* An update that is spawned changes the row that is there. *)
LEMMA Updating ==
  ASSUME LogInv, jobs = {}, UNCHANGED <<logRows, kind, account, cleared>>,
         NEW u \in Usages, Is(Coming, RowOf(account, 200, u, NoBody)),
         NEW work, Spawn(work), NEW e,
         \/ work.do = "usage" /\ work.usage \in Usages
              /\ e = RowOf(account, 200, work.usage, NoBody)
         \/ work.do = "body" /\ e = RowOf(account, 200, u, WithBody)
         \/ work.do = "status" /\ work.status \in Nat /\ work.status # 200
              /\ e = RowOf(account, work.status, u, NoBody)
  PROVE  /\ ~Logged' => logRows' = {} /\ Coming' = {}
         /\ Coming' \subseteq {e} /\ (Logged' /\ ~cleared' => Coming' = {e})
<1>1. (Logged' <=> Logged) /\ account \in Accounts \cup {Pseudo}
  BY DEF Logged, LogInv, LogPlace
<1>2. Coming = logRows
  BY AheadIs DEF Coming
<1>3. Coming' = Done(work, logRows)
  BY SpawnedJob
<1>4. 200 \in Nat /\ 502 \in Nat /\ 502 # 200 /\ NoBody \in BOOLEAN
  BY BodyIs
<1>5. logRows \subseteq {RowOf(account, 200, u, NoBody)} /\ (Logged /\ ~cleared => logRows # {})
  BY <1>2, ZenonT(60) DEF Is
<1>6. Done(work, logRows) = IF logRows = {} THEN {} ELSE {e}
  <2>1. /\ work.do = "usage" /\ work.usage \in Usages =>
             Done(work, logRows) =
               IF logRows = {} THEN {} ELSE {RowOf(account, 200, work.usage, NoBody)}
        /\ work.do = "body" =>
             Done(work, logRows) = IF logRows = {} THEN {} ELSE {RowOf(account, 200, u, WithBody)}
        /\ work.do = "status" /\ work.status \in Nat /\ work.status # 200 =>
             Done(work, logRows) =
               IF logRows = {} THEN {} ELSE {RowOf(account, work.status, u, NoBody)}
    BY <1>1, <1>4, <1>5, UpdatedRow
  <2> QED
    BY <2>1, ZenonT(60)
<1> QED
  BY <1>1, <1>3, <1>5, <1>6 DEF LogInv, LogRow

(* What a step writes that spawns an update, or none. *)
LEMMA PatchedRow ==
  ASSUME Prompt, LogInv, AuditProbeFailed \/ StreamEnd \/ UsageDone
  PROVE  LogRow'
<1> USE DEF Network, Audit, Answer
<1>1. /\ jobs = {} /\ UNCHANGED <<logRows, kind, account, cleared, seen>>
      /\ pc \in {"probe", "stream", "usage"}
  BY DEF LogInv, LogJobs, AuditProbeFailed, StreamEnd, UsageDone
<1>2. /\ account \in Accounts \cup {Pseudo} /\ seen \in Usages /\ "none" \in Usages
      /\ kind.sse /\ kind \in Kinds
  BY <1>1 DEF LogInv, LogPlace, Usages
<1>3. (Logged' <=> Logged) /\ (kind.logging => Logged)
  BY <1>1, <1>2 DEF Logged, Kinds
<1>4. Coming = logRows
  BY <1>1, AheadIs DEF Coming
<1>5. ASSUME NoSpawn
      PROVE  Coming' = Coming
  BY <1>1, <1>5, NoWork DEF NoSpawn
<1>6. CASE AuditProbeFailed
  <2> DEFINE work == [do |-> "status", status |-> 502]
             e == RowOf(account, 502, "none", NoBody)
  <2>1. Spawn(work) /\ answer' = 502 /\ pc' = "end" /\ pc = "probe"
    BY <1>6 DEF AuditProbeFailed
  <2>2. work.do = "status" /\ work.status = 502 /\ 502 \in Nat /\ 502 # 200
    OBVIOUS
  <2>3. Is(Coming, RowOf(account, 200, "none", NoBody)) /\ answer = 0
    BY <2>1, Zenon DEF LogInv, LogRow, LogPlace
  <2>4. e.status = 502
    BY <1>2, BodyIs, RowFields
  <2>5. e = RowOf(account, 502, "none", NoBody)
    OBVIOUS
  <2> HIDE DEF work, e
  <2>6. /\ ~Logged' => logRows' = {} /\ Coming' = {}
        /\ Coming' \subseteq {e} /\ (Logged' /\ ~cleared' => Coming' = {e})
    BY <1>1, <1>2, <2>1, <2>2, <2>3, <2>5, Updating
  <2>7. Charged(logRows', answer', account')
    BY <1>1, <2>3, ChargedNone DEF LogInv, LogRow
  <2>8. Charged(Coming', answer', account')
    BY <1>2, <2>2, <2>5, <2>6, BodyIs, ChargedRow
  <2> QED
    BY <2>1, <2>4, <2>6, <2>7, <2>8 DEF LogRow
<1>7. CASE StreamEnd
  <2>1. Is(Coming, RowOf(account, 200, "none", NoBody)) /\ answer = 200
    BY <1>7, Zenon DEF LogInv, LogRow, LogPlace, StreamEnd
  <2>2. UNCHANGED answer /\ pc' = "usage"
    BY <1>7 DEF StreamEnd
  <2> DEFINE e == RowOf(account, 200, seen, NoBody)
  <2>3. e = RowOf(account, 200, seen, NoBody)
    OBVIOUS
  <2> HIDE DEF e
  <2>4. /\ ~Logged' => logRows' = {} /\ Coming' = {}
        /\ Coming' \subseteq {e} /\ (Logged' /\ ~cleared' => Coming' = {e})
    <3>1. CASE seen = "none"
      <4>1. Coming' = Coming /\ e = RowOf(account, 200, "none", NoBody)
        BY <1>5, <1>7, <2>3, <3>1 DEF StreamEnd
      <4> QED
        BY <1>1, <1>3, <1>4, <2>1, <4>1 DEF Is, LogInv, LogRow
    <3>2. CASE seen # "none"
      <4> DEFINE work == [do |-> "usage", usage |-> seen]
      <4>1. Spawn(work)
        BY <1>7, <3>2 DEF StreamEnd
      <4>2. work.do = "usage" /\ work.usage = seen
        OBVIOUS
      <4> HIDE DEF work
      <4> QED
        BY <1>1, <1>2, <2>1, <2>3, <4>1, <4>2, Updating
    <3> QED
      BY <3>1, <3>2
  <2>5. Charged(logRows', answer', account')
    BY <1>1, <2>2 DEF LogInv, LogRow
  <2>6. Charged(Coming', answer', account')
    BY <1>1, <1>2, <2>1, <2>2, <2>3, <2>4, BodyIs, ChargedRow
  <2>7. Is(Coming, RowOf(account, 200, seen, NoBody))'
    BY <1>1, <2>3, <2>4 DEF Is
  <2> QED
    BY <2>2, <2>4, <2>5, <2>6, <2>7 DEF LogRow
<1>8. CASE UsageDone
  <2>1. Is(Coming, RowOf(account, 200, seen, NoBody)) /\ answer = 200
    BY <1>8, Zenon DEF LogInv, LogRow, LogPlace, UsageDone
  <2>2. UNCHANGED answer /\ pc' = "end"
    BY <1>8 DEF UsageDone
  <2> DEFINE e == RowOf(account, 200, seen, WithBody)
  <2>3. e = RowOf(account, 200, seen, WithBody) /\ e.status = 200
    BY <1>2, BodyIs, RowFields
  <2> HIDE DEF e
  <2>4. /\ ~Logged' => logRows' = {} /\ Coming' = {}
        /\ Coming' \subseteq {e} /\ (Logged' /\ ~cleared' => Coming' = {e})
    <3>1. CASE ~kind.logging
      <4>1. Coming' = Coming /\ ~Logged
        BY <1>5, <1>8, <3>1 DEF UsageDone, Logged
      <4> QED
        BY <1>1, <1>3, <4>1 DEF LogInv, LogRow
    <3>2. CASE kind.logging
      <4> DEFINE work == [do |-> "body"]
      <4>1. Spawn(work)
        BY <1>8, <3>2 DEF UsageDone
      <4>2. work.do = "body"
        OBVIOUS
      <4> HIDE DEF work
      <4> QED
        BY <1>1, <1>2, <2>1, <2>3, <4>1, <4>2, Updating
    <3> QED
      BY <3>1, <3>2
  <2>5. Charged(logRows', answer', account')
    BY <1>1, <2>2 DEF LogInv, LogRow
  <2>6. Charged(Coming', answer', account')
    BY <1>1, <1>2, <2>1, <2>2, <2>3, <2>4, BodyIs, ChargedRow
  <2>7. Is(Coming, RowOf(account, 200, seen, WithBody))'
    BY <1>1, <2>3, <2>4 DEF Is
  <2> QED
    BY <2>1, <2>2, <2>3, <2>4, <2>5, <2>6, <2>7 DEF LogRow
<1> QED
  BY <1>6, <1>7, <1>8

(* What the database writes. *)
LEMMA DatabaseRow ==
  ASSUME LogInv, RunJob \/ ClearLogs
  PROVE  LogRow'
<1>1. /\ UNCHANGED <<kind, pc, account, created, seen, answer>>
      /\ Logged' <=> Logged
  BY DEF RunJob, ClearLogs, requestVars, Logged
<1>2. CASE RunJob
  <2>1. PICK j \in jobs : logRows' = After(j.job) /\ jobs' = jobs \ {j} /\ UNCHANGED cleared
    BY <1>2 DEF RunJob
  <2>2. jobs = {j} /\ jobs' = {}
    BY <2>1 DEF LogInv, LogJobs
  <2>3. logRows' = Coming /\ Coming' = Coming
    BY <2>1, <2>2, AfterIs, AheadIs DEF Coming
  <2> QED
    BY <1>1, <2>1, <2>3 DEF LogInv, LogRow, Is
<1>3. CASE ClearLogs
  <2>1. logRows' = {} /\ cleared' /\ UNCHANGED jobs
    BY <1>3 DEF ClearLogs
  <2>2. Coming' \subseteq Coming
    <3>1. CASE jobs = {}
      BY <2>1, <3>1, AheadIs DEF Coming
    <3>2. ASSUME NEW j \in jobs
          PROVE  Coming' \subseteq Coming
      <4>1. jobs = {j} /\ Coming = Done(j.job, logRows) /\ Coming' = Done(j.job, {})
        BY <2>1, <3>2, AheadIs DEF Coming, LogInv, LogJobs
      <4>2. Done(j.job, {}) \subseteq Done(j.job, logRows)
        BY DEF Done
      <4> QED
        BY <4>1, <4>2
    <3> QED
      BY <3>1, <3>2
  <2>3. Charged(logRows', answer', account') /\ Charged(Coming', answer', account')
    BY <1>1, <2>1, <2>2 DEF LogInv, LogRow, Charged
  <2> QED
    BY <1>1, <2>1, <2>2, <2>3 DEF LogInv, LogRow, Is
<1> QED
  BY <1>2, <1>3

LEMMA LogInitially ==
  ASSUME LogInit
  PROVE  LogInv
<1>1. logRows = {} /\ jobs = {} /\ answer = 0 /\ ~created /\ pc \in {"send", "select"}
  BY DEF LogInit
<1>2. Coming = {}
  BY <1>1, AheadIs DEF Coming
<1>3. LogPlace /\ LogJobs
  BY <1>1 DEF LogInit, LogPlace, LogJobs, Usages
<1> QED
  BY <1>1, <1>2, <1>3 DEF LogInv, LogRow, Charged

LEMMA LogStep ==
  ASSUME Prompt, LogInv, [LogNext]_logVars
  PROVE  LogInv'
<1>1. LogRow'
  BY QuietRow, SavedRow, PatchedRow, DatabaseRow DEF LogNext
<1> QED
  BY <1>1, PlaceStep, OneJob DEF LogInv

LEMMA Recorded == ASSUME Prompt PROVE LogSpec => []LogInv
<1>1. LogInit => LogInv
  BY LogInitially
<1>2. LogInv /\ [LogNext]_logVars => LogInv'
  BY LogStep
<1> QED
  BY <1>1, <1>2, PTL DEF LogSpec

(* Where the jobs of a request end before its next answer, whatever the accounts and the
   bounds: a request that was answered with 200 and read to its end has the row of that
   answer, whatever accounts were tried before (handler.rs, gateway_db.rs). *)
THEOREM DeliveredHasItsRow == ASSUME Prompt PROVE LogSpec => []RowOfDelivered
<1>1. LogInv => RowOfDelivered
  <2> SUFFICES ASSUME LogInv, Settled, pc = "end", answer = 200 PROVE logRows = {FullRow}
    BY DEF RowOfDelivered
  <2>1. Coming = logRows
    BY AheadIs DEF Coming, Settled
  <2>2. logRows = {RowOf(account, 200, seen, WithBody)}
    BY <2>1 DEF LogInv, LogRow, Is, Settled
  <2>3. RowOf(account, 200, seen, WithBody) = FullRow
    BY DEF RowOf, FullRow, WithBody
  <2> QED
    BY <2>2, <2>3
<1> QED
  BY <1>1, Recorded, PTL

(* Likewise, the row never charges usage to an account but the one that answered 200. *)
THEOREM OnlyDelivererCharged == ASSUME Prompt PROVE LogSpec => []UsageOfDeliverer
<1>1. LogInv => UsageOfDeliverer
  BY DEF LogInv, LogRow, Charged, UsageOfDeliverer
<1> QED
  BY <1>1, Recorded, PTL

(* Likewise, the row of a request on the audit path says what was answered, once its jobs
   are done and unless the log was cleared. *)
THEOREM AuditTrailHolds == ASSUME Prompt PROVE LogSpec => []AuditMatchesAnswer
<1>1. LogInv => AuditMatchesAnswer
  <2> SUFFICES ASSUME LogInv, Settled, kind.path = "audit", answer # 0
               PROVE  \E r \in logRows : r.status = answer
    BY DEF AuditMatchesAnswer
  <2>1. Coming = logRows /\ Logged /\ ~cleared
    BY AheadIs DEF Coming, Settled
  <2>2. CASE pc = "end"
    BY <2>1, <2>2 DEF LogInv, LogRow
  <2>3. CASE pc \in {"stream", "usage"}
    <3>1. PICK u \in Usages : logRows = {RowOf(account, 200, u, NoBody)}
      BY <2>1, <2>3 DEF LogInv, LogPlace, LogRow, Is, Usages
    <3>2. answer = 200 /\ account \in Accounts \cup {Pseudo} /\ 200 \in Nat
      BY <2>3 DEF LogInv, LogPlace
    <3>3. RowOf(account, 200, u, NoBody).status = 200
      BY <3>2, BodyIs, RowFields
    <3> QED
      BY <3>1, <3>2, <3>3
  <2> QED
    BY <2>2, <2>3 DEF LogInv, LogPlace
<1> QED
  BY <1>1, Recorded, PTL
=============================================================================
