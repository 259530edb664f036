------------------------------ MODULE RequestLog ------------------------------
(***************************************************************************)
(* The log of gateway requests: what handler.rs writes of one request, on  *)
(* the gateway's path (gateway_request, with its retries and failovers)    *)
(* and on the audit path (transparent_forward), and what gateway_db.rs     *)
(* makes of it.  A request has one row, by its stable log id.              *)
(*                                                                         *)
(* The row is written by jobs on blocking threads: the handler spawns a    *)
(* save and goes on; only the two updates at the end of a stream are       *)
(* awaited, and a client that hangs up ends the wait, not the job.         *)
(* Nothing orders the jobs but the connection's lock; with Prompt at most  *)
(* one is outstanding, so that their order is not in question.             *)
(*                                                                         *)
(* Left out: headers, sizes and times; the prices (a cost is a function of *)
(* the usage); a usage line that is split over two frames and not read,    *)
(* which is a frame without usage; errors of the database; the queries.    *)
(***************************************************************************)
EXTENDS Naturals, FiniteSets

CONSTANTS
  Accounts,     \* the accounts a request may be sent to
  Pseudo,       \* the account that stands for the caller on the audit path
  MaxSwitches,  \* max_retries: failovers of a request
  MaxJobs,      \* bound: database jobs of a request
  Prompt        \* jobs end before the network's next answer

ASSUME AccountsAssumption == IsFiniteSet(Accounts) /\ Pseudo \notin Accounts
ASSUME MaxSwitchesAssumption == MaxSwitches \in Nat
ASSUME MaxJobsAssumption == MaxJobs \in Nat
ASSUME PromptAssumption == Prompt \in BOOLEAN

Rejecting == {401, 429}     \* statuses that take the request to another account
Passing == {400, 529}       \* statuses that are passed on to the client
Usages == {"none", "start", "final"}    \* message_start's, message_delta's

VARIABLES
  kind,         \* path, whether it streams, is logged and counts tokens only
  pc, account,  \* where the handler is, and the account in use
  switches, timeouts,
  created,      \* log_created
  seen,         \* usage_holder: the last usage read
  answer,       \* the status the client got, or 0
  whole,        \* upstream's answer was read to its end
  gone,         \* the client hung up
  jobs, issued, \* jobs not yet done, and how many there were
  logRows,      \* the request's row in request_logs, if there is one
  cleared       \* the log was cleared since the request began

requestVars == <<kind, pc, account, switches, timeouts, created, seen, answer, whole, gone>>
logVars == <<requestVars, jobs, issued, logRows, cleared>>

Kinds == {k \in [path : {"gateway", "audit"}, sse : BOOLEAN, logging : BOOLEAN,
                 counting : BOOLEAN] : ~(k.sse /\ k.counting)}
RowType == [account : Accounts \cup {Pseudo}, status : Nat, usage : Usages,
            body : BOOLEAN, error : BOOLEAN]

LogInit ==
  /\ kind \in Kinds
  /\ pc = IF kind.path = "audit" THEN "send" ELSE "select"
  /\ account = Pseudo
  /\ switches = 0 /\ timeouts = 0 /\ issued = 0 /\ answer = 0
  /\ created = FALSE /\ whole = FALSE /\ gone = FALSE /\ cleared = FALSE
  /\ seen = "none"
  /\ jobs = {} /\ logRows = {}

\* The network answers after the jobs, where Prompt says so.
Network == ~gone /\ (Prompt => jobs = {})

\* log_gateway_request_with_id writes nothing of a count or when logging is off.
Logged == kind.logging /\ ~kind.counting

Spawn(job) ==
  /\ issued < MaxJobs
  /\ jobs' = jobs \cup {[no |-> issued, job |-> job]}
  /\ issued' = issued + 1
NoSpawn == UNCHANGED <<jobs, issued>>

Log(status, usage, body) ==
  IF ~Logged THEN NoSpawn
  ELSE Spawn([do |-> "save",
              row |-> [account |-> account, status |-> status, usage |-> usage,
                       body |-> body, error |-> status # 200]])

Answer(status) == answer' = status /\ pc' = "end"

----------------------------------------------------------------------------
(* gateway_request *)

Gateway == kind.path = "gateway"

Selected == Network /\ Gateway /\ switches <= MaxSwitches

Select ==
  /\ Selected /\ pc = "select"
  /\ \E a \in Accounts : account' = a
  /\ pc' = "send" /\ timeouts' = 0
  /\ UNCHANGED <<kind, switches, created, seen, answer, whole, gone, jobs, issued, logRows,
                 cleared>>

\* No account is left (429), or the retries are (503).
GiveUp ==
  /\ Network /\ Gateway /\ pc = "select"
  /\ \E status \in IF switches > MaxSwitches THEN {503} ELSE {429} : Answer(status)
  /\ UNCHANGED <<kind, account, switches, timeouts, created, seen, whole, gone,
                 jobs, issued, logRows, cleared>>

\* Mutant: log_created is not reset for the next account.
FailoverKeepsCreated ==
  /\ pc' = "select" /\ switches' = switches + 1
  /\ UNCHANGED <<kind, account, created, seen, answer, whole, gone, logRows, cleared>>

\* To another account, whose attempt is logged anew.
Failover ==
  /\ pc' = "select" /\ switches' = switches + 1 /\ created' = FALSE
  /\ UNCHANGED <<kind, account, seen, answer, whole, gone, logRows, cleared>>

\* The send fails: nothing is logged, on this account or for the answer 502.
SendFailed ==
  /\ Selected /\ pc = "send"
  /\ NoSpawn
  /\ \/ Failover /\ UNCHANGED timeouts
     \/ /\ Answer(502)
        /\ UNCHANGED <<kind, account, switches, timeouts, created, seen, whole, gone,
                       logRows, cleared>>

\* An error of upstream, logged unless this account's attempt already is.
ErrorStatus ==
  /\ Selected /\ pc = "send"
  /\ \E status \in Rejecting \cup Passing :
       /\ IF created THEN NoSpawn ELSE Log(status, "none", TRUE)
       /\ IF status \in Rejecting
          THEN Failover /\ UNCHANGED timeouts
          ELSE /\ Answer(status) /\ whole' = TRUE /\ created' = TRUE
               /\ UNCHANGED <<kind, account, switches, timeouts, seen, gone, logRows, cleared>>

\* 200 without a stream: the row has the usage of the body.
Json ==
  /\ Selected /\ pc = "send" /\ ~kind.sse
  /\ \E usage \in {"none", "final"} :
       /\ seen' = usage
       /\ IF created THEN NoSpawn ELSE Log(200, usage, TRUE)
  /\ Answer(200) /\ whole' = TRUE
  /\ UNCHANGED <<kind, account, switches, timeouts, created, gone, logRows, cleared>>

\* 200 with a stream: a provisional row, before the first byte is there.
Provisional ==
  /\ Selected /\ pc = "send" /\ kind.sse
  /\ IF created THEN NoSpawn ELSE Log(200, "none", FALSE)
  /\ created' = TRUE /\ pc' = "probe"
  /\ UNCHANGED <<kind, account, switches, timeouts, seen, answer, whole, gone, logRows, cleared>>

\* The first byte does not come: once more with the account, then another one.
FirstByteTimeout ==
  /\ Selected /\ pc = "probe"
  /\ timeouts' = timeouts + 1
  /\ NoSpawn
  /\ IF timeouts = 0
     THEN /\ pc' = "send"
          /\ UNCHANGED <<kind, account, switches, created, seen, answer, whole, gone,
                         logRows, cleared>>
     ELSE Failover

\* The stream fails or ends before the first byte.
ProbeFailed ==
  /\ Selected /\ pc = "probe"
  /\ NoSpawn
  /\ Failover /\ UNCHANGED timeouts

----------------------------------------------------------------------------
(* transparent_forward *)

Audit == Network /\ kind.path = "audit"

AuditFailed ==
  /\ Audit /\ pc = "send"
  /\ Log(502, "none", FALSE)
  /\ Answer(502)
  /\ UNCHANGED <<kind, account, switches, timeouts, created, seen, whole, gone, logRows, cleared>>

AuditPlain ==
  /\ Audit /\ pc = "send"
  /\ \E status \in {200} \cup Rejecting \cup Passing, usage \in {"none", "final"} :
       /\ ~(kind.sse /\ status = 200)
       /\ status # 200 => usage = "none"
       /\ seen' = usage
       /\ Log(status, usage, TRUE)
       /\ Answer(status)
  /\ whole' = TRUE
  /\ UNCHANGED <<kind, account, switches, timeouts, created, gone, logRows, cleared>>

AuditProvisional ==
  /\ Audit /\ pc = "send" /\ kind.sse
  /\ Log(200, "none", FALSE)
  /\ pc' = "probe"
  /\ UNCHANGED <<kind, account, switches, timeouts, created, seen, answer, whole, gone,
                 logRows, cleared>>

\* Mutant: the row keeps its provisional status.
AuditProbeUnpatched ==
  /\ Audit /\ pc = "probe"
  /\ NoSpawn
  /\ Answer(502)
  /\ UNCHANGED <<kind, account, switches, timeouts, created, seen, whole, gone, logRows, cleared>>

\* Whatever goes wrong before the first byte, the row becomes the 502 that is
\* answered; the job is spawned and not awaited.
AuditProbeFailed ==
  /\ Audit /\ pc = "probe"
  /\ Spawn([do |-> "status", status |-> 502])
  /\ Answer(502)
  /\ UNCHANGED <<kind, account, switches, timeouts, created, seen, whole, gone, logRows, cleared>>

----------------------------------------------------------------------------
(* sse_probe_and_stream *)

\* A later usage replaces the one before.
FirstChunk ==
  /\ Network /\ pc = "probe"
  /\ seen' \in {"none", "start"}
  /\ answer' = 200 /\ pc' = "stream"
  /\ UNCHANGED <<kind, account, switches, timeouts, created, whole, gone,
                 jobs, issued, logRows, cleared>>

Chunk ==
  /\ Network /\ pc = "stream"
  /\ seen' \in {"start", "final"}
  /\ UNCHANGED <<kind, pc, account, switches, timeouts, created, answer, whole, gone,
                 jobs, issued, logRows, cleared>>

\* The end of the stream, or an error in it: the usage, if there is one.
StreamEnd ==
  /\ Network /\ pc = "stream"
  /\ IF seen = "none" THEN NoSpawn ELSE Spawn([do |-> "usage", usage |-> seen])
  /\ whole' = TRUE /\ pc' = "usage"
  /\ UNCHANGED <<kind, account, switches, timeouts, created, seen, answer, gone, logRows, cleared>>

\* Mutant: the body that was collected is not written.
UsageDoneNoBody ==
  /\ pc = "usage" /\ ~gone
  /\ \A j \in jobs : j.job.do # "usage"
  /\ NoSpawn
  /\ pc' = "end"
  /\ UNCHANGED <<kind, account, switches, timeouts, created, seen, answer, whole, gone,
                 logRows, cleared>>

\* Then the body, when the update of the usage is done.
UsageDone ==
  /\ pc = "usage" /\ ~gone
  /\ \A j \in jobs : j.job.do # "usage"
  /\ IF kind.logging THEN Spawn([do |-> "body"]) ELSE NoSpawn
  /\ pc' = "end"
  /\ UNCHANGED <<kind, account, switches, timeouts, created, seen, answer, whole, gone,
                 logRows, cleared>>

\* The future is dropped at whatever it awaits.
HangUp ==
  /\ pc # "end" /\ ~gone
  /\ gone' = TRUE
  /\ UNCHANGED <<kind, pc, account, switches, timeouts, created, seen, answer, whole,
                 jobs, issued, logRows, cleared>>

----------------------------------------------------------------------------
(* gateway_db.rs *)

\* Mutant: an insert that keeps the row that is there.
AfterIgnore(job) ==
  CASE job.do = "save" -> IF logRows = {} THEN {job.row} ELSE logRows
    [] job.do = "usage" -> {[r EXCEPT !.usage = job.usage] : r \in logRows}
    [] job.do = "body" -> {[r EXCEPT !.body = TRUE] : r \in logRows}
    [] job.do = "status" -> {[r EXCEPT !.status = job.status, !.error = TRUE] : r \in logRows}

\* save_log inserts the row or overwrites it; an UPDATE of no row does nothing.
After(job) ==
  CASE job.do = "save" -> {job.row}
    [] job.do = "usage" -> {[r EXCEPT !.usage = job.usage] : r \in logRows}
    [] job.do = "body" -> {[r EXCEPT !.body = TRUE] : r \in logRows}
    [] job.do = "status" -> {[r EXCEPT !.status = job.status, !.error = TRUE] : r \in logRows}

RunJob ==
  \E j \in jobs :
    /\ logRows' = After(j.job)
    /\ jobs' = jobs \ {j}
    /\ UNCHANGED <<requestVars, issued, cleared>>

ClearLogs ==
  /\ logRows' = {} /\ cleared' = TRUE
  /\ UNCHANGED <<requestVars, jobs, issued>>

LogNext ==
  \/ Select \/ GiveUp \/ SendFailed \/ ErrorStatus \/ Json \/ Provisional
  \/ FirstByteTimeout \/ ProbeFailed
  \/ AuditFailed \/ AuditPlain \/ AuditProvisional \/ AuditProbeFailed
  \/ FirstChunk \/ Chunk \/ StreamEnd \/ UsageDone \/ HangUp
  \/ RunJob \/ ClearLogs

LogSpec == LogInit /\ [][LogNext]_logVars

\* The blocking threads run their jobs, and the handler goes on when one is done.
FairLogSpec == LogSpec /\ WF_logVars(RunJob) /\ WF_logVars(UsageDone)

----------------------------------------------------------------------------
(* Properties *)

\* Every variable has its type, and a request has at most one row.
LogTypeOK ==
  /\ kind \in Kinds
  /\ pc \in {"select", "send", "probe", "stream", "usage", "end"}
  /\ account \in Accounts \cup {Pseudo}
  /\ switches \in 0..MaxSwitches + 1 /\ timeouts \in 0..2
  /\ seen \in Usages /\ answer \in Nat
  /\ {created, whole, gone, cleared} \subseteq BOOLEAN
  /\ \A j \in jobs : j.no < issued /\ j.job.do \in {"save", "usage", "body", "status"}
  /\ issued \in 0..MaxJobs
  /\ logRows \subseteq RowType /\ Cardinality(logRows) <= 1

\* The row the client's answer should have in the log.
FullRow == [account |-> account, status |-> 200, usage |-> seen, body |-> TRUE, error |-> FALSE]
Settled == jobs = {} /\ Logged /\ ~cleared

\* A request that was answered with 200 and read to its end has one row: of the
\* account that served it, whatever accounts were tried and logged before, with the
\* usage that was read and without an error.
RowOfDelivered ==
  Settled /\ pc = "end" /\ answer = 200 /\ ~gone => logRows = {FullRow}

\* Usage is charged only to the account that delivered it, and never in a row that
\* says the request failed, even when the client hangs up or the log is cleared
\* between the updates.
UsageOfDeliverer ==
  \A r \in logRows :
    r.usage # "none" => answer = 200 /\ r.account = account /\ r.status = 200

\* What the audit path answers is what its row says in the end, the stream that
\* failed before its first byte included (handler.rs, "so the audit trail matches
\* reality").
AuditMatchesAnswer ==
  Settled /\ kind.path = "audit" /\ answer # 0 => \E r \in logRows : r.status = answer

\* When a stream ends, its row gets the usage and the body, unless the client hangs
\* up or the log is cleared first.
StreamRecorded ==
  (pc = "usage" /\ Logged) ~> (gone \/ cleared \/ logRows = {FullRow})

\* An error of upstream that the gateway passes on is in the log (handler.rs, "Log
\* all non-200 upstream errors to gateway_db").
ErrorLogged ==
  Settled /\ Gateway /\ answer \in Passing => \E r \in logRows : r.status = answer
=============================================================================
