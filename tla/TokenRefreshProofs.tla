-------------------------- MODULE TokenRefreshProofs --------------------------
(* Theorems about TokenRefresh, for every value of its constants: its types with the
   refresh lock, and that the refresh token of the login on file is not lost. *)
EXTENDS TokenRefresh, TLAPS

LEMMA InitTyped ==
  ASSUME Init
  PROVE  TypeOK
<1>1. NoCli \in Cli
  BY TimeAssumption, BoundAssumption DEF NoCli, Cli, Logins
<1>2. file \in File
  BY TimeAssumption, BoundAssumption DEF Init, File, Logins
<1>3. /\ now \in 0..MaxTime /\ started \in 0..MaxTime
      /\ accepted \in [Logins -> 0..MaxSerial]
      /\ issued \in 1..MaxSerial
      /\ listed \in [exp : 0..(MaxTime + Lifetime), disabled : BOOLEAN]
  BY TimeAssumption, BoundAssumption DEF Init
<1>4. \A r \in Refreshers : lock = r <=> pc[r] \in {"request", "reply"}
  BY MonitorAssumption DEF Init, Refreshers, Free
<1> QED
  BY <1>1, <1>2, <1>3, <1>4 DEF Init, TypeOK

(* What a refresh reads from the file is well-formed. *)
LEMMA CliTypes ==
  ASSUME TypeOK
  PROVE  /\ NoCli \in Cli
         /\ CliOf(file) \in Cli
         /\ CliOf(file).login = file.login /\ CliOf(file).serial = file.serial
BY TimeAssumption, BoundAssumption DEF TypeOK, NoCli, CliOf, Cli, File, Logins

(* What a refresh or a login writes to the file is well-formed. *)
LEMMA FileWritten ==
  ASSUME TypeOK, NEW l \in Logins, NEW s \in 1..MaxSerial, NEW f,
         f = [file EXCEPT !.login = l, !.serial = s, !.exp = now + Lifetime]
  PROVE  f \in File
<1>1. now + Lifetime \in 0..(MaxTime + Lifetime)
  BY TimeAssumption DEF TypeOK
<1> QED
  BY <1>1 DEF TypeOK, File

(* A refresh that is over has left the lock to others. *)
LEMMA FinishTyped ==
  ASSUME TypeOK, NEW r \in Refreshers, Finish(r), lock \in {r, Free}
  PROVE  /\ pc' \in [Refreshers -> {"idle", "check", "wait", "request", "reply", "usage", "ask"}]
         /\ cli' \in [Refreshers -> Cli]
         /\ lock' = Free
         /\ \A q \in Refreshers : pc'[q] \notin {"request", "reply"}
         /\ \A q \in Refreshers : lock' = q <=> pc'[q] \in {"request", "reply"}
BY CliTypes, MonitorAssumption DEF TypeOK, Finish, Goto, Refreshers, Free

LEMMA TypeStep ==
  ASSUME TypeOK, [Next]_vars
  PROVE  TypeOK'
<1> USE DEF TypeOK, Goto, worldVars, roundVars
<1>1. ASSUME NEW r \in Refreshers, Created(r)
      PROVE  TypeOK'
  BY <1>1 DEF Created
<1>2. ASSUME NEW r \in Refreshers, Acquire(r)
      PROVE  TypeOK'
  <2>1. CASE Finish(r)
    BY <1>2, <2>1, FinishTyped DEF Acquire
  <2>2. CASE ~Finish(r)
    BY <1>2, <2>2, CliTypes, MonitorAssumption DEF Acquire, Refreshers, Free
  <2> QED
    BY <2>1, <2>2
<1>3. ASSUME NEW r \in Refreshers, LockTimeout(r)
      PROVE  TypeOK'
  BY <1>3, CliTypes DEF LockTimeout, Finish
<1>4. ASSUME NEW r \in Refreshers, Request(r)
      PROVE  TypeOK'
  <2>1. lock = r
    BY <1>4 DEF Request
  <2>2. CASE Finish(r)
    BY <1>4, <2>1, <2>2, FinishTyped DEF Request
  <2>3. CASE ~Finish(r)
    BY <1>4, <2>1, <2>3, BoundAssumption DEF Request, Cli
  <2> QED
    BY <2>2, <2>3
<1>5. ASSUME NEW r \in Refreshers, RequestFailed(r)
      PROVE  TypeOK'
  BY <1>5, FinishTyped DEF RequestFailed
<1>6. ASSUME NEW r \in Refreshers, ReplyLost(r)
      PROVE  TypeOK'
  BY <1>6, FinishTyped DEF ReplyLost, Forgotten, Cli
<1>7. ASSUME NEW r \in Refreshers, Persist(r)
      PROVE  TypeOK'
  <2>1. file' \in File
    <3> DEFINE l == cli[r].login
               c == cli[r].serial
    <3>1. l \in Logins /\ c \in 1..MaxSerial
      BY DEF Cli
    <3>2. file' = [file EXCEPT !.login = l, !.serial = c, !.exp = now + Lifetime]
      BY <1>7 DEF Persist
    <3> HIDE DEF l, c
    <3> QED
      BY <3>1, <3>2, FileWritten
  <2> QED
    BY <1>7, <2>1, FinishTyped DEF Persist
<1>8. CASE Round
  BY <1>8, MonitorAssumption DEF Round, File, Refreshers
<1>9. CASE CheckToken
  BY <1>9 DEF CheckToken, Refreshers
<1>10. CASE CheckUsage \/ Usage
  <2>1. Monitor \in Refreshers /\ 0 \in 0..MaxTime /\ 0 \in 0..(MaxTime + Lifetime)
    BY TimeAssumption DEF Refreshers
  <2>2. CASE CheckUsage
    <3>1. CASE EndRound
      BY <1>10, <2>1, <2>2, <3>1 DEF CheckUsage, EndRound
    <3>2. CASE ~EndRound
      BY <2>1, <2>2, <3>2, CliTypes DEF CheckUsage
    <3> QED
      BY <3>1, <3>2
  <2>3. CASE Usage
    BY <2>1, <2>3, CliTypes DEF Usage, EndRound
  <2> QED
    BY <1>10, <2>2, <2>3
<1>11. CASE UsageDenied
  <2>1. file' \in File
    BY <1>11 DEF UsageDenied, File
  <2> QED
    BY <1>11, <2>1, CliTypes, TimeAssumption DEF UsageDenied, EndRound, Refreshers
<1>12. CASE Stop
  BY <1>12 DEF Stop
<1>13. CASE Login
  <2>1. PICK l \in Logins :
          /\ accepted' = [accepted EXCEPT ![l] = issued + 1]
          /\ file' = [file EXCEPT !.login = l, !.serial = issued + 1, !.exp = now + Lifetime]
    BY <1>13 DEF Login
  <2>2. issued + 1 \in 1..MaxSerial
    BY <1>13, BoundAssumption DEF Login
  <2>3. file' \in File
    BY <2>1, <2>2, FileWritten
  <2> QED
    BY <1>13, <2>1, <2>2, <2>3 DEF Login
<1>14. CASE SetDisabled
  BY <1>14 DEF SetDisabled, File
<1>15. CASE Tick
  BY <1>15, TimeAssumption DEF Tick
<1>16. CASE Crash
  <2>1. lost' \subseteq Logins
    <3>1. ASSUME NEW r \in Refreshers
          PROVE  Forgotten(r) \subseteq Logins
      BY DEF Forgotten, Cli
    <3> QED
      BY <1>16, <3>1 DEF Crash
  <2>2. \A r \in Refreshers : lock' # r /\ pc'[r] = "idle"
    BY <1>16, MonitorAssumption DEF Crash, Refreshers, Free
  <2>3. cli' \in [Refreshers -> Cli] /\ lock' \in Refreshers \cup {Free}
    BY <1>16, CliTypes DEF Crash
  <2>4. listed' \in [exp : 0..(MaxTime + Lifetime), disabled : BOOLEAN] /\ started' \in 0..MaxTime
    BY <1>16, TimeAssumption DEF Crash
  <2>5. pc' \in [Refreshers -> {"idle", "check", "wait", "request", "reply", "usage", "ask"}]
    BY <1>16 DEF Crash
  <2> QED
    BY <1>16, <2>1, <2>2, <2>3, <2>4, <2>5 DEF Crash
<1>17. CASE UNCHANGED vars
  BY <1>17 DEF vars
<1> QED
  BY <1>1, <1>2, <1>3, <1>4, <1>5, <1>6, <1>7, <1>8, <1>9, <1>10, <1>11, <1>12, <1>13, <1>14,
    <1>15, <1>16, <1>17 DEF Next

(* The variables have their types; who talks to the token endpoint holds the refresh
   lock, and nobody else does. *)
THEOREM RefreshTyped == Spec => []TypeOK
BY InitTyped, TypeStep, PTL DEF Spec
-----------------------------------------------------------------------------
(* A token is presented and rotated by the holder of the lock alone, and the login that a
   refresh or the file names has been accepted by the endpoint, so that no later login
   takes its place. *)
AnswerCurrent == \A r \in Refreshers : pc[r] = "reply" => cli[r].serial = accepted[cli[r].login]
KnownLogins ==
  /\ accepted[file.login] # 0
  /\ \A r \in Refreshers : pc[r] \in {"request", "reply"} => accepted[cli[r].login] # 0
KeptInv == NoReplay /\ TokenKept /\ AnswerCurrent /\ KnownLogins
TokenInv == TypeOK /\ KeptInv

(* What is not about the tokens of the file or of those at the endpoint leaves them valid. *)
LEMMA TokensUnmoved ==
  ASSUME KeptInv, UNCHANGED <<accepted, lost>>,
         file'.login = file.login, file'.serial = file.serial,
         \A r \in Refreshers : pc[r] \in {"request", "reply"} \/ pc'[r] \in {"request", "reply"}
                               => pc'[r] = pc[r] /\ cli'[r] = cli[r]
  PROVE  KeptInv'
<1>1. NoReplay' /\ AnswerCurrent' /\ KnownLogins'
  BY DEF KeptInv, NoReplay, AnswerCurrent, KnownLogins
<1>2. TokenKept'
  BY DEF KeptInv, TokenKept
<1> QED
  BY <1>1, <1>2 DEF KeptInv

(* The holder of the lock is alone at the endpoint. *)
LEMMA AloneAtEndpoint ==
  ASSUME TypeOK, NEW r \in Refreshers, pc[r] \in {"request", "reply"}
  PROVE  lock = r /\ \A q \in Refreshers \ {r} : pc[q] \notin {"request", "reply"}
BY DEF TypeOK

LEMMA NobodyAtEndpoint ==
  ASSUME TypeOK, lock = Free
  PROVE  \A q \in Refreshers : pc[q] \notin {"request", "reply"}
BY MonitorAssumption DEF TypeOK, Refreshers, Free

(* Who leaves the endpoint leaves it to nobody. *)
LEMMA LeavesEndpoint ==
  ASSUME TypeOK, NEW r \in Refreshers, pc[r] \in {"request", "reply"}, Finish(r),
         UNCHANGED accepted, accepted[file'.login] # 0,
         file'.serial = accepted[file'.login] \/ file'.login \in lost'
  PROVE  KeptInv'
<1>1. \A q \in Refreshers : pc'[q] \notin {"request", "reply"}
  BY AloneAtEndpoint, FinishTyped
<1> QED
  BY <1>1 DEF KeptInv, NoReplay, TokenKept, AnswerCurrent, KnownLogins

(* An answer lost with nothing on file leaves its login among the lost. *)
LEMMA ForgottenLogin ==
  ASSUME TypeOK, KeptInv, NEW r \in Refreshers, pc[r] = "reply", cli[r].login = file.login,
         file.serial # accepted[file.login]
  PROVE  file.login \in Forgotten(r)
BY DEF KeptInv, AnswerCurrent, Forgotten

LEMMA InitKept ==
  ASSUME Init
  PROVE  KeptInv
<1>1. accepted[1] = 1 /\ file.login = 1 /\ file.serial = 1
  BY BoundAssumption DEF Init, Logins
<1>2. \A r \in Refreshers : pc[r] = "idle"
  BY DEF Init
<1> QED
  BY <1>1, <1>2 DEF KeptInv, NoReplay, TokenKept, AnswerCurrent, KnownLogins

(* The lock is free: nobody is at the endpoint, and what r reads from the file is valid
   or lost. *)
LEMMA AcquireKept ==
  ASSUME TypeOK, KeptInv, NEW r \in Refreshers, Acquire(r)
  PROVE  KeptInv'
<1>1. \A q \in Refreshers : pc[q] \notin {"request", "reply"}
  BY NobodyAtEndpoint DEF Acquire
<1>2. file.serial = accepted[file.login] \/ file.login \in lost
  BY <1>1 DEF KeptInv, TokenKept
<1>3. UNCHANGED <<accepted, lost, file>>
  BY DEF Acquire, worldVars
<1>4. CASE Finish(r)
  <2>1. \A q \in Refreshers : pc'[q] \notin {"request", "reply"}
    BY <1>4, FinishTyped DEF Acquire
  <2> QED
    BY <1>1, <1>3, <2>1, TokensUnmoved
<1>5. CASE ~Finish(r)
  <2>1. pc' = [pc EXCEPT ![r] = "request"] /\ cli' = [cli EXCEPT ![r] = CliOf(file)]
    BY <1>5 DEF Acquire, Goto
  <2>2. pc'[r] = "request" /\ cli'[r].serial = file.serial /\ cli'[r].login = file.login
    BY <2>1, CliTypes DEF TypeOK
  <2>3. \A q \in Refreshers \ {r} : pc'[q] \notin {"request", "reply"}
    BY <1>1, <2>1 DEF TypeOK
  <2>4. NoReplay'
    BY <1>2, <1>3, <2>2, <2>3 DEF NoReplay
  <2>5. TokenKept'
    BY <1>2, <1>3 DEF TokenKept
  <2>6. AnswerCurrent' /\ KnownLogins'
    BY <1>3, <2>2, <2>3 DEF AnswerCurrent, KnownLogins, KeptInv
  <2> QED
    BY <2>4, <2>5, <2>6 DEF KeptInv
<1> QED
  BY <1>4, <1>5

(* The endpoint rotates the token for the holder of the lock alone. *)
LEMMA RequestKept ==
  ASSUME TypeOK, KeptInv, NEW r \in Refreshers, Request(r)
  PROVE  KeptInv'
<1>1. pc[r] = "request" /\ UNCHANGED <<file, lost>>
  BY DEF Request
<1>2. \A q \in Refreshers \ {r} : pc[q] \notin {"request", "reply"}
  BY <1>1, AloneAtEndpoint
<1>3. cli[r] \in Cli /\ accepted[cli[r].login] # 0 /\ accepted[file.login] # 0
  BY <1>1 DEF TypeOK, KeptInv, KnownLogins
<1>4. \/ file.serial = accepted[file.login]
      \/ file.login \in lost
  BY <1>1, <1>2 DEF KeptInv, TokenKept
<1>5. CASE Finish(r) /\ UNCHANGED accepted
  BY <1>1, <1>3, <1>4, <1>5, LeavesEndpoint
<1>6. CASE ~(Finish(r) /\ UNCHANGED accepted)
  <2>1. pc' = [pc EXCEPT ![r] = "reply"]
    BY <1>6 DEF Request, Goto
  <2>2. pc'[r] = "reply" /\ \A q \in Refreshers \ {r} : pc'[q] \notin {"request", "reply"}
    BY <1>2, <2>1 DEF TypeOK
  <2>3. /\ cli'[r].login = cli[r].login
        /\ cli'[r].serial = accepted'[cli[r].login]
        /\ accepted'[cli[r].login] # 0
        /\ \A l \in Logins \ {cli[r].login} : accepted'[l] = accepted[l]
    <3>1. CASE UNCHANGED <<issued, accepted, cli, lock>>
      BY <1>3, <1>6, <3>1 DEF Request
    <3>2. CASE ~UNCHANGED <<issued, accepted, cli, lock>>
      <4>1. /\ accepted' = [accepted EXCEPT ![cli[r].login] = issued + 1]
            /\ cli' = [cli EXCEPT ![r].serial = issued + 1]
            /\ cli[r].login \in Logins
        BY <1>3, <1>6, <3>2 DEF Request, Cli
      <4>2. issued + 1 # 0
        BY DEF TypeOK
      <4>3. cli'[r] = [cli[r] EXCEPT !.serial = issued + 1]
        BY <4>1 DEF TypeOK
      <4>4. cli'[r].login = cli[r].login /\ cli'[r].serial = issued + 1
        BY <1>3, <4>3 DEF Cli
      <4> QED
        BY <4>1, <4>2, <4>4 DEF TypeOK
    <3> QED
      BY <3>1, <3>2
  <2>4. NoReplay' /\ AnswerCurrent'
    BY <2>2, <2>3 DEF NoReplay, AnswerCurrent
  <2>5. file.login \in Logins
    BY DEF TypeOK, File
  <2>6. TokenKept'
    BY <1>1, <1>4, <2>2, <2>3, <2>5 DEF TokenKept
  <2>7. KnownLogins'
    BY <1>1, <1>3, <2>2, <2>3, <2>5 DEF KnownLogins
  <2> QED
    BY <2>4, <2>6, <2>7 DEF KeptInv
<1> QED
  BY <1>5, <1>6

(* A login writes a token of its own to the file, for a login nobody else uses. *)
LEMMA LoginKept ==
  ASSUME TypeOK, KeptInv, Login
  PROVE  KeptInv'
<1>1. PICK l \in Logins :
        /\ accepted[l] = 0
        /\ accepted' = [accepted EXCEPT ![l] = issued + 1]
        /\ file' = [file EXCEPT !.login = l, !.serial = issued + 1, !.exp = now + Lifetime]
  BY DEF Login
<1>2. UNCHANGED <<pc, cli, lost>>
  BY DEF Login
<1>3. issued + 1 \in 1..MaxSerial
  BY BoundAssumption DEF Login, TypeOK
<1>4. file'.login = l /\ file'.serial = issued + 1
  <2> DEFINE c == issued + 1
  <2>1. c \in 1..MaxSerial
    BY <1>3
  <2>2. file' = [file EXCEPT !.login = l, !.serial = c, !.exp = now + Lifetime]
    BY <1>1
  <2> HIDE DEF c
  <2>3. file'.login = l /\ file'.serial = c
    BY <2>1, <2>2 DEF TypeOK, File
  <2> QED
    BY <2>3 DEF c
<1>5. accepted'[l] = issued + 1 /\ \A k \in Logins \ {l} : accepted'[k] = accepted[k]
  BY <1>1 DEF TypeOK
<1>6. \A r \in Refreshers : pc[r] \in {"request", "reply"} =>
        cli[r].login \in Logins \ {l} /\ accepted'[cli[r].login] = accepted[cli[r].login]
  BY <1>1, <1>5 DEF KeptInv, KnownLogins, TypeOK, Cli
<1>7. NoReplay' /\ AnswerCurrent'
  BY <1>2, <1>6 DEF KeptInv, NoReplay, AnswerCurrent
<1>8. TokenKept'
  BY <1>4, <1>5 DEF TokenKept
<1>9. KnownLogins'
  BY <1>2, <1>3, <1>4, <1>5, <1>6 DEF KeptInv, KnownLogins
<1> QED
  BY <1>7, <1>8, <1>9 DEF KeptInv

LEMMA KeptStep ==
  ASSUME TypeOK, KeptInv, [Next]_vars
  PROVE  KeptInv'
<1> DEFINE Away == {"idle", "check", "wait", "usage", "ask"}
<1>1. Monitor \in Refreshers /\ accepted[file.login] # 0
  BY DEF Refreshers, KeptInv, KnownLogins
<1>2. ASSUME NEW r \in Refreshers, NEW l \in Away, pc[r] \in Away, pc' = [pc EXCEPT ![r] = l],
             \A q \in Refreshers \ {r} : cli'[q] = cli[q],
             UNCHANGED <<accepted, lost>>, file'.login = file.login, file'.serial = file.serial
      PROVE  KeptInv'
  BY <1>2, TokensUnmoved DEF TypeOK
<1>3. ASSUME NEW r \in Refreshers, Created(r)
      PROVE  KeptInv'
  BY <1>2, <1>3 DEF Created, Goto, worldVars
<1>4. ASSUME NEW r \in Refreshers, LockTimeout(r)
      PROVE  KeptInv'
  <2>1. PICK l \in Away : pc' = [pc EXCEPT ![r] = l]
    BY <1>4 DEF LockTimeout, Finish, Goto
  <2>2. pc[r] \in Away /\ UNCHANGED <<accepted, lost, file>>
    BY <1>4 DEF LockTimeout, worldVars
  <2>3. \A q \in Refreshers \ {r} : cli'[q] = cli[q]
    BY <1>4 DEF LockTimeout, Finish, TypeOK
  <2> QED
    BY <1>2, <2>1, <2>2, <2>3
<1>5. ASSUME NEW r \in Refreshers, RequestFailed(r)
      PROVE  KeptInv'
  <2>1. pc[r] = "request" /\ Finish(r) /\ UNCHANGED <<accepted, lost, file>>
    BY <1>5 DEF RequestFailed, worldVars
  <2>2. file.serial = accepted[file.login] \/ file.login \in lost
    BY <2>1, AloneAtEndpoint DEF KeptInv, TokenKept
  <2> QED
    BY <1>1, <2>1, <2>2, LeavesEndpoint
<1>6. ASSUME NEW r \in Refreshers, ReplyLost(r)
      PROVE  KeptInv'
  <2>1. /\ pc[r] = "reply" /\ Finish(r) /\ UNCHANGED <<accepted, file>>
        /\ lost' = lost \cup Forgotten(r)
    BY <1>6 DEF ReplyLost, worldVars
  <2>2. file.serial = accepted[file.login] \/ file.login \in lost'
    BY <2>1, AloneAtEndpoint, ForgottenLogin DEF KeptInv, TokenKept
  <2> QED
    BY <1>1, <2>1, <2>2, LeavesEndpoint
<1>7. ASSUME NEW r \in Refreshers, Persist(r)
      PROVE  KeptInv'
  <2> DEFINE l == cli[r].login
             c == cli[r].serial
  <2>1. /\ pc[r] = "reply" /\ Finish(r) /\ UNCHANGED <<accepted, lost>>
        /\ file' = [file EXCEPT !.login = l, !.serial = c, !.exp = now + Lifetime]
    BY <1>7 DEF Persist, worldVars
  <2>2. l \in Logins /\ c \in 1..MaxSerial
    BY DEF TypeOK, Cli
  <2>3. c = accepted[l] /\ accepted[l] # 0
    BY <2>1 DEF KeptInv, AnswerCurrent, KnownLogins
  <2> HIDE DEF l, c
  <2>4. file' = [file EXCEPT !.login = l, !.serial = c, !.exp = now + Lifetime]
    BY <2>1
  <2>5. file'.login = l /\ file'.serial = c
    BY <2>2, <2>4 DEF TypeOK, File
  <2> QED
    BY <2>1, <2>3, <2>5, LeavesEndpoint
<1>8. CASE Round
  BY <1>1, <1>2, <1>8 DEF Round, Goto, worldVars
<1>9. CASE CheckToken
  <2>1. PICK l \in Away : pc' = [pc EXCEPT ![Monitor] = l]
    BY <1>9 DEF CheckToken, Goto
  <2> QED
    BY <1>1, <1>2, <1>9, <2>1 DEF CheckToken, worldVars
<1>10. CASE CheckUsage
  <2>1. PICK l \in Away : pc' = [pc EXCEPT ![Monitor] = l]
    BY <1>10 DEF CheckUsage, EndRound, Goto
  <2>2. \A q \in Refreshers \ {Monitor} : cli'[q] = cli[q]
    BY <1>10 DEF CheckUsage, TypeOK
  <2> QED
    BY <1>1, <1>2, <1>10, <2>1, <2>2 DEF CheckUsage, worldVars
<1>11. CASE Usage \/ UsageDenied
  <2>1. /\ pc[Monitor] = "ask" /\ pc' = [pc EXCEPT ![Monitor] = "idle"]
        /\ UNCHANGED <<accepted, lost>>
    BY <1>11 DEF Usage, UsageDenied, EndRound, Goto, worldVars
  <2>2. \A q \in Refreshers \ {Monitor} : cli'[q] = cli[q]
    BY <1>11 DEF Usage, UsageDenied, TypeOK
  <2>3. file'.login = file.login /\ file'.serial = file.serial
    BY <1>11 DEF Usage, UsageDenied, TypeOK, File
  <2> QED
    BY <1>1, <1>2, <2>1, <2>2, <2>3
<1>12. CASE Stop \/ Tick \/ UNCHANGED vars
  BY <1>12, TokensUnmoved DEF Stop, Tick, vars, worldVars
<1>13. CASE SetDisabled
  <2>1. file'.login = file.login /\ file'.serial = file.serial
    BY <1>13 DEF SetDisabled, TypeOK, File
  <2> QED
    BY <1>13, <2>1, TokensUnmoved DEF SetDisabled, worldVars
<1>14. CASE Crash
  <2>1. UNCHANGED <<accepted, file>> /\ \A r \in Refreshers : pc'[r] = "idle"
    BY <1>14 DEF Crash, worldVars
  <2>2. \A r \in Refreshers : Forgotten(r) \subseteq lost'
    BY <1>14 DEF Crash
  <2>3. lost \subseteq lost'
    BY <1>14 DEF Crash
  <2>4. file.serial = accepted[file.login] \/ file.login \in lost'
    BY <2>2, <2>3, ForgottenLogin DEF KeptInv, TokenKept
  <2> QED
    BY <1>1, <2>1, <2>4 DEF KeptInv, NoReplay, TokenKept, AnswerCurrent, KnownLogins
<1> QED
  BY <1>3, <1>4, <1>5, <1>6, <1>7, <1>8, <1>9, <1>10, <1>11, <1>12, <1>13, <1>14, AcquireKept,
    RequestKept, LoginKept DEF Next

LEMMA TokenInvariant == Spec => []TokenInv
BY InitTyped, InitKept, TypeStep, KeptStep, PTL DEF Spec, TokenInv

(* However many forced refreshes, monitor rounds, logins, timeouts and crashes interleave,
   no refresh presents a token that the endpoint has replaced, unless the rotation of that
   login was lost: the lock is held from the reading of the file until the answer is in
   it (token_allocator.rs:82-136). *)
THEOREM NeverReplayed == Spec => []NoReplay
BY TokenInvariant, PTL DEF TokenInv, KeptInv

(* The one valid refresh token of the login on file is on file or in the hands of the
   refresh that writes it next, unless the answer that carried it was lost. *)
THEOREM TokenNotLost == Spec => []TokenKept
BY TokenInvariant, PTL DEF TokenInv, KeptInv
=============================================================================
