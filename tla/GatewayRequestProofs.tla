------------------------ MODULE GatewayRequestProofs ------------------------
(* Theorems about a request of the gateway, for every value of the constants: GatewayRequest
   (types, sends and visits), the gate of VersionPolicy and the builder of OutboundRequest,
   which GatewayOutbound checks. *)
EXTENDS GatewayOutbound, WellFoundedInduction, TLAPS

(* resolve_route returns a route: the direct one ends every chain. *)
LEMMA ResolveType ==
  ASSUME NEW mode \in Modes, NEW configured
  PROVE  Resolve(mode, configured) \in Routes
<1> DEFINE usable == {i \in DOMAIN Chain(mode) : Chain(mode)[i] \in configured \cup {"Direct"}}
<1>1. /\ DOMAIN Chain(mode) \subseteq 1..4
      /\ \A i \in DOMAIN Chain(mode) : Chain(mode)[i] \in Routes
      /\ usable # {}
  <2>1. CASE mode = "static"
    BY <2>1 DEF Chain, Routes
  <2>2. CASE mode = "vercel"
    BY <2>2 DEF Chain, Routes
  <2>3. CASE mode = "direct"
    BY <2>3 DEF Chain, Routes
  <2>4. CASE mode = "proxy"
    BY <2>4 DEF Chain, Routes
  <2> QED
    BY <2>1, <2>2, <2>3, <2>4 DEF Modes
<1>2. \E i \in usable : \A j \in usable : i <= j
  <2>1. usable \subseteq 1..4
    BY <1>1
  <2>2. \/ 1 \in usable
        \/ 1 \notin usable /\ 2 \in usable
        \/ {1, 2} \cap usable = {} /\ 3 \in usable
        \/ {1, 2, 3} \cap usable = {} /\ 4 \in usable
    BY <1>1, <2>1
  <2> QED
    BY <2>1, <2>2
<1>3. (CHOOSE i \in usable : \A j \in usable : i <= j) \in usable
  BY <1>2
<1> QED
  BY <1>1, <1>3 DEF Resolve

LEMMA PickRouteType ==
  ASSUME TypeOK, NEW a \in Accounts
  PROVE  PickRoute(a) \in Routes
<1>1. Routing(a).mode \in Modes
  BY RoutesAssumption DEF Routing, Modes
<1> QED
  BY <1>1, ResolveType DEF PickRoute, Routes

(* What a request's locals say of one another.  PathInv: where the request stands
   bounds its switches and fixes what is known of its account. *)
Selecting == {"affine", "forget", "rotate", "take", "remember", "context"}
OnAccount == {"route", "send", "response", "drop", "unlist", "unmap", "failover"}

PathInv(q) ==
  /\ q.pc = "select" => q.switches <= MaxRetries + 1
  /\ q.pc \in Selecting \cup OnAccount => q.switches <= MaxRetries
  /\ q.pc = "affine" => q.account \in Accounts
  /\ q.pc \in {"take", "remember", "context"} \cup OnAccount => q.account \in Accounts \ q.attempted

(* SendInv: the sends so far are those of the accounts left behind, a full budget
   for each, and those made on this account. *)
Budget == MaxProxyRetries + 2

SendInv(q) ==
  /\ q.pc \in {"idle", "answered"} => q.sends = 0
  /\ q.pc \in {"select"} \cup Selecting => q.sends <= Budget * q.switches
  /\ q.pc \in OnAccount => q.sends <= Budget * q.switches + Budget
  /\ q.pc \in {"route", "send", "response"} => q.proxyRetries <= MaxProxyRetries /\ q.timeouts <= 1
  /\ q.pc = "route" => q.sends <= Budget * q.switches + q.proxyRetries + q.timeouts
  /\ q.pc \in {"send", "response"} => q.sends <= Budget * q.switches + q.proxyRetries + q.timeouts + 1

(* VisitInv: an account was visited once if it is the current one or was attempted,
   and once more if that was before the back-off. *)
VisitInv(q) ==
  \A a \in Accounts :
    q.visits[a] <= (IF q.backedOff THEN 1 ELSE 0)
                     + (IF a \in q.attempted \/ (a = q.account /\ q.pc \in OnAccount) THEN 1 ELSE 0)

LocalInv(q) == PathInv(q) /\ SendInv(q) /\ VisitInv(q)

RequestInv == \A r \in Requests : LocalInv(req[r])

(* A request that has not begun, or has been answered. *)
LEMMA IdleInv ==
  ASSUME NEW q \in Request, q.pc \in {"idle", "select", "answered"},
         q.switches = 0, q.sends = 0, ~q.backedOff, q.attempted = {},
         \A a \in Accounts : q.visits[a] = 0
  PROVE  LocalInv(q)
<1>1. MaxRetries \in Nat /\ Budget \in Nat
  BY LimitsAssumption DEF Budget
<1>2. PathInv(q)
  BY <1>1 DEF PathInv, Selecting, OnAccount
<1>3. SendInv(q)
  BY <1>1 DEF SendInv, Selecting, OnAccount
<1>4. VisitInv(q)
  BY DEF VisitInv, OnAccount
<1> QED
  BY <1>2, <1>3, <1>4 DEF LocalInv

LEMMA BackOffType ==
  ASSUME NEW q \in Request
  PROVE  [q EXCEPT !.pc = "select", !.backedOff = TRUE, !.attempted = {}] \in Request
BY DEF Request, PCs

(* The moves of a request that change nothing but where it stands. *)
Moves == {<<"affine", "forget">>, <<"forget", "rotate">>, <<"take", "remember">>, <<"take", "context">>,
          <<"remember", "context">>, <<"context", "failover">>, <<"send", "response">>,
          <<"response", "failover">>, <<"drop", "unlist">>, <<"unlist", "unmap">>,
          <<"unmap", "failover">>}

LEMMA MoveInv ==
  ASSUME NEW q \in Request, LocalInv(q), NEW l \in PCs,
         \/ <<q.pc, l>> \in Moves
         \/ q.pc = "select" /\ l = "rotate" /\ q.switches <= MaxRetries
         \/ q.pc = "affine" /\ l = "remember" /\ q.account \notin q.attempted
  PROVE  [q EXCEPT !.pc = l] \in Request /\ LocalInv([q EXCEPT !.pc = l])
<1> DEFINE p == [q EXCEPT !.pc = l]
<1>0. p \in Request
  BY DEF Request
<1>1. /\ p.pc = l /\ p.account = q.account /\ p.attempted = q.attempted /\ p.switches = q.switches
      /\ p.backedOff = q.backedOff /\ p.proxyRetries = q.proxyRetries /\ p.timeouts = q.timeouts
      /\ p.sends = q.sends /\ p.visits = q.visits
  BY DEF Request
<1>2. /\ q.sends \in Nat /\ q.switches \in Nat /\ q.proxyRetries \in Nat /\ q.timeouts \in Nat
      /\ q.visits \in [Accounts -> Nat] /\ q.backedOff \in BOOLEAN
      /\ MaxRetries \in Nat /\ MaxProxyRetries \in Nat
      /\ Budget * q.switches \in Nat
  BY LimitsAssumption DEF Request, Budget
<1> HIDE DEF p
<1>3. PathInv(p)
  BY <1>1, <1>2 DEF LocalInv, PathInv, Moves, Selecting, OnAccount
<1>4. SendInv(p)
  <2> DEFINE n == Budget * q.switches
  <2>1. n \in Nat /\ Budget = MaxProxyRetries + 2
    BY <1>2 DEF Budget
  <2>2. SendInv(q)
    BY DEF LocalInv
  <2>3. /\ q.pc \in {"select"} \cup Selecting => q.sends <= n
        /\ q.pc \in OnAccount => q.sends <= n + Budget
        /\ q.pc = "send" => q.proxyRetries <= MaxProxyRetries /\ q.timeouts <= 1
                               /\ q.sends <= n + q.proxyRetries + q.timeouts + 1
    BY <2>2 DEF SendInv
  <2> HIDE DEF n
  <2>4. /\ p.pc \in {"select"} \cup Selecting => p.sends <= n
        /\ p.pc \in OnAccount => p.sends <= n + Budget
        /\ p.pc = "response" => p.proxyRetries <= MaxProxyRetries /\ p.timeouts <= 1
                               /\ p.sends <= n + p.proxyRetries + p.timeouts + 1
        /\ p.pc \notin {"idle", "answered", "route", "send"}
    BY <1>1, <1>2, <2>1, <2>3 DEF Moves, Selecting, OnAccount
  <2> QED
    BY <1>1, <2>4 DEF SendInv, n
<1>5. VisitInv(p)
  BY <1>1, <1>2 DEF LocalInv, VisitInv, Moves, Selecting, OnAccount
<1> QED
  BY <1>0, <1>3, <1>4, <1>5 DEF LocalInv, p

(* The moves that count a send, a retry, a visit or a switch. *)
LEMMA CountInv ==
  ASSUME NEW q \in Request, LocalInv(q), NEW p \in Request,
         p.visits \in [Accounts -> Nat],
         \/ /\ q.pc = "context" /\ p.pc = "route" /\ p.proxyRetries = 0 /\ p.timeouts = 0
            /\ \A a \in Accounts : p.visits[a] = IF a = q.account THEN q.visits[a] + 1 ELSE q.visits[a]
            /\ p.sends = q.sends
         \/ /\ q.pc = "route" /\ p.pc = "send" /\ p.sends = q.sends + 1
            /\ p.proxyRetries = q.proxyRetries /\ p.timeouts = q.timeouts /\ p.visits = q.visits
         \/ /\ q.pc = "send" /\ p.pc = "route" /\ q.proxyRetries < MaxProxyRetries
            /\ p.proxyRetries = q.proxyRetries + 1 /\ p.timeouts = q.timeouts
            /\ p.sends = q.sends /\ p.visits = q.visits
         \/ /\ q.pc = "response" /\ p.timeouts = q.timeouts + 1 /\ p.proxyRetries = q.proxyRetries
            /\ p.pc = IF q.timeouts = 0 THEN "route" ELSE "failover"
            /\ p.sends = q.sends /\ p.visits = q.visits
         \/ /\ q.pc \in {"send", "response"} /\ p.pc \in {"failover", "drop"}
            /\ p.sends = q.sends /\ p.visits = q.visits,
         p.account = q.account, p.attempted = q.attempted, p.switches = q.switches,
         p.backedOff = q.backedOff
  PROVE  LocalInv(p)
<1>1. /\ q.sends \in Nat /\ q.switches \in Nat /\ q.proxyRetries \in Nat /\ q.timeouts \in Nat
      /\ q.visits \in [Accounts -> Nat] /\ q.backedOff \in BOOLEAN
      /\ MaxRetries \in Nat /\ MaxProxyRetries \in Nat
      /\ Budget * q.switches \in Nat
  BY LimitsAssumption DEF Request, Budget
<1>2. PathInv(p)
  BY <1>1 DEF LocalInv, PathInv, Selecting, OnAccount
<1>3. SendInv(p)
  <2> DEFINE n == Budget * q.switches
  <2>1. n \in Nat /\ Budget = MaxProxyRetries + 2
    BY <1>1 DEF Budget
  <2>2. /\ q.pc \in Selecting => q.sends <= n
        /\ q.pc \in {"route", "send", "response"} => q.proxyRetries <= MaxProxyRetries /\ q.timeouts <= 1
        /\ q.pc = "route" => q.sends <= n + q.proxyRetries + q.timeouts
        /\ q.pc \in {"send", "response"} => q.sends <= n + q.proxyRetries + q.timeouts + 1
    BY DEF LocalInv, SendInv
  <2> HIDE DEF n
  <2>3. /\ p.pc \in {"route", "send", "failover", "drop"}
        /\ p.sends <= n + Budget
        /\ p.pc \in {"route", "send"} => p.proxyRetries <= MaxProxyRetries /\ p.timeouts <= 1
        /\ p.pc = "route" => p.sends <= n + p.proxyRetries + p.timeouts
        /\ p.pc = "send" => p.sends <= n + p.proxyRetries + p.timeouts + 1
    BY <1>1, <2>1, <2>2 DEF Selecting
  <2> QED
    BY <2>3 DEF SendInv, Selecting, n
<1>4. VisitInv(p)
  BY <1>1 DEF LocalInv, PathInv, VisitInv, Selecting, OnAccount
<1> QED
  BY <1>2, <1>3, <1>4 DEF LocalInv

(* The moves back to the selection: after an account failed, or after the back-off. *)
LEMMA FailoverInv ==
  ASSUME NEW q \in Request, LocalInv(q), q.pc = "failover"
  PROVE  LET p == [q EXCEPT !.pc = "select", !.switches = @ + 1, !.attempted = @ \cup {q.account}]
         IN  p \in Request /\ LocalInv(p)
<1> DEFINE p == [q EXCEPT !.pc = "select", !.switches = @ + 1, !.attempted = @ \cup {q.account}]
<1>0. q.account \in Accounts
  BY DEF LocalInv, PathInv, OnAccount
<1>1. p \in Request
  <2>1. q.switches + 1 \in Nat /\ q.attempted \cup {q.account} \in SUBSET Accounts
    BY <1>0 DEF Request
  <2> QED
    BY <2>1 DEF Request, PCs
<1>2. /\ p.pc = "select" /\ p.account = q.account /\ p.attempted = q.attempted \cup {q.account}
      /\ p.switches = q.switches + 1 /\ p.backedOff = q.backedOff
      /\ p.sends = q.sends /\ p.visits = q.visits
  BY DEF Request
<1>3. /\ q.sends \in Nat /\ q.switches \in Nat /\ q.visits \in [Accounts -> Nat]
      /\ q.backedOff \in BOOLEAN /\ MaxRetries \in Nat /\ Budget \in Nat
  BY LimitsAssumption DEF Request, Budget
<1> HIDE DEF p
<1>4. PathInv(p)
  BY <1>2, <1>3 DEF LocalInv, PathInv, Selecting, OnAccount
<1>5. SendInv(p)
  <2>1. q.sends <= Budget * q.switches + Budget
    BY DEF LocalInv, SendInv, OnAccount
  <2>2. Budget * (q.switches + 1) = Budget * q.switches + Budget
    BY <1>3
  <2> QED
    BY <1>2, <2>1, <2>2 DEF SendInv, Selecting, OnAccount
<1>6. VisitInv(p)
  BY <1>2, <1>3 DEF LocalInv, VisitInv, OnAccount
<1> QED
  BY <1>1, <1>4, <1>5, <1>6 DEF LocalInv, p

LEMMA BackOffInv ==
  ASSUME NEW q \in Request, LocalInv(q), q.pc \in {"rotate", "take"}, ~q.backedOff
  PROVE  LocalInv([q EXCEPT !.pc = "select", !.backedOff = TRUE, !.attempted = {}])
<1> DEFINE p == [q EXCEPT !.pc = "select", !.backedOff = TRUE, !.attempted = {}]
<1>1. /\ p.pc = "select" /\ p.attempted = {} /\ p.switches = q.switches /\ p.backedOff
      /\ p.sends = q.sends /\ p.visits = q.visits
  BY DEF Request
<1>2. /\ q.switches \in Nat /\ q.visits \in [Accounts -> Nat] /\ MaxRetries \in Nat
  BY LimitsAssumption DEF Request
<1> HIDE DEF p
<1>3. PathInv(p)
  BY <1>1, <1>2 DEF LocalInv, PathInv, Selecting, OnAccount
<1>4. SendInv(p)
  BY <1>1 DEF LocalInv, SendInv, Selecting, OnAccount
<1>5. VisitInv(p)
  BY <1>1, <1>2 DEF LocalInv, VisitInv, OnAccount
<1> QED
  BY <1>3, <1>4, <1>5 DEF LocalInv, p

(* A request that steps leaves the others alone. *)
LEMMA BecomeInv ==
  ASSUME TypeOK, RequestInv, NEW r \in Requests, NEW q \in Request, Become(r, q), LocalInv(q)
  PROVE  req' \in [Requests -> Request] /\ RequestInv'
BY DEF TypeOK, RequestInv, Become

LEMMA StepInv ==
  ASSUME TypeOK, RequestInv, NEW r \in Requests, NEW l \in PCs, Step(r, l),
         \/ <<req[r].pc, l>> \in Moves
         \/ req[r].pc = "select" /\ l = "rotate" /\ req[r].switches <= MaxRetries
         \/ req[r].pc = "affine" /\ l = "remember" /\ req[r].account \notin req[r].attempted
  PROVE  req' \in [Requests -> Request] /\ RequestInv'
<1>1. req[r] \in Request /\ LocalInv(req[r])
  BY DEF TypeOK, RequestInv
<1> QED
  BY <1>1, MoveInv, BecomeInv DEF Step

LEMMA AnswerInv ==
  ASSUME TypeOK, RequestInv, NEW r \in Requests, NEW k \in Answers, Answer(r, k)
  PROVE  req' \in [Requests -> Request] /\ RequestInv'
<1> DEFINE q == [Idle EXCEPT !.pc = "answered", !.answer = k]
<1>1. q \in Request
  BY DEF Idle, Request, Routes, PCs
<1>2. q.pc = "answered" /\ q.switches = 0 /\ q.sends = 0 /\ ~q.backedOff /\ q.attempted = {}
      /\ \A a \in Accounts : q.visits[a] = 0
  BY DEF Idle
<1>3. Become(r, q)
  BY DEF Answer
<1> HIDE DEF q
<1> QED
  BY <1>1, <1>2, <1>3, IdleInv, BecomeInv

LEMMA ExhaustedInv ==
  ASSUME TypeOK, RequestInv, NEW r \in Requests, req[r].pc \in {"rotate", "take"}, Exhausted(r)
  PROVE  req' \in [Requests -> Request] /\ RequestInv'
<1>1. req[r] \in Request /\ LocalInv(req[r])
  BY DEF TypeOK, RequestInv
<1>2. CASE req[r].recoverable /\ ~req[r].backedOff
  BY <1>1, <1>2, BackOffType, BackOffInv, BecomeInv DEF Exhausted
<1>3. CASE ~(req[r].recoverable /\ ~req[r].backedOff)
  BY <1>3, AnswerInv DEF Exhausted, Answers
<1> QED
  BY <1>2, <1>3

(* Selecting an account keeps the request's locals in step. *)
LEMMA SelectInv ==
  ASSUME TypeOK, RequestInv, NEW r \in Requests, Select(r)
  PROVE  req' \in [Requests -> Request] /\ RequestInv'
<1> DEFINE q == req[r]
<1>0. q \in Request /\ LocalInv(q)
  BY DEF TypeOK, RequestInv
<1>1. CASE GiveUp(r)
  BY <1>1, AnswerInv DEF GiveUp, Answers
<1>2. CASE LookUp(r)
  <2> DEFINE a == sessionOf[q.session]
             p == [q EXCEPT !.pc = "affine", !.account = a]
  <2>1. CASE q.session # NoSession /\ a # NoAccount
    <3>1. a \in Accounts
      BY <1>0, <2>1 DEF TypeOK, Request
    <3>2. p \in Request
      BY <1>0, <3>1 DEF Request, PCs
    <3>3. /\ p.pc = "affine" /\ p.account = a /\ p.attempted = q.attempted /\ p.switches = q.switches
          /\ p.backedOff = q.backedOff /\ p.sends = q.sends /\ p.visits = q.visits
      BY <1>0 DEF Request
    <3>4. q.pc = "select" /\ q.switches <= MaxRetries
      BY <1>2 DEF LookUp
    <3> HIDE DEF p
    <3>5. PathInv(p)
      BY <3>1, <3>3, <3>4 DEF PathInv, OnAccount
    <3>6. SendInv(p)
      BY <1>0, <3>3, <3>4 DEF LocalInv, SendInv, Selecting, OnAccount
    <3>7. VisitInv(p)
      BY <1>0, <3>3, <3>4 DEF LocalInv, VisitInv, OnAccount
    <3>8. Become(r, p)
      BY <1>2, <2>1 DEF LookUp, p
    <3> QED
      BY <3>2, <3>5, <3>6, <3>7, <3>8, BecomeInv DEF LocalInv
  <2>2. CASE ~(q.session # NoSession /\ a # NoAccount)
    BY <1>2, <2>2, StepInv DEF LookUp, PCs
  <2> QED
    BY <2>1, <2>2
<1>3. CASE Affine(r)
  BY <1>3, StepInv DEF Affine, PCs, Moves
<1>4. CASE Forget(r)
  BY <1>4, StepInv DEF Forget, PCs, Moves
<1>5. CASE Rotate(r)
  <2>1. ASSUME NEW a \in Available(r), Become(r, [q EXCEPT !.pc = "take", !.account = a])
        PROVE  req' \in [Requests -> Request] /\ RequestInv'
    <3> DEFINE p == [q EXCEPT !.pc = "take", !.account = a]
    <3>1. a \in Accounts \ q.attempted
      BY <2>1 DEF Available, TypeOK
    <3>2. p \in Request
      BY <1>0, <3>1 DEF Request, PCs
    <3>3. /\ p.pc = "take" /\ p.account = a /\ p.attempted = q.attempted /\ p.switches = q.switches
          /\ p.backedOff = q.backedOff /\ p.sends = q.sends /\ p.visits = q.visits
      BY <1>0 DEF Request
    <3>4. q.pc = "rotate"
      BY <1>5 DEF Rotate
    <3>9. Become(r, p)
      BY <2>1
    <3> HIDE DEF p
    <3>5. PathInv(p)
      BY <1>0, <3>1, <3>3, <3>4 DEF LocalInv, PathInv, Selecting, OnAccount
    <3>6. SendInv(p)
      BY <1>0, <3>3, <3>4 DEF LocalInv, SendInv, Selecting, OnAccount
    <3>7. VisitInv(p)
      BY <1>0, <3>3, <3>4 DEF LocalInv, VisitInv, OnAccount
    <3> QED
      BY <3>2, <3>5, <3>6, <3>7, <3>9, BecomeInv DEF LocalInv
  <2> QED
    BY <1>5, <2>1, ExhaustedInv DEF Rotate
<1>6. CASE Take(r)
  BY <1>6, StepInv, ExhaustedInv DEF Take, PCs, Moves
<1>7. CASE Remember(r)
  BY <1>7, StepInv DEF Remember, PCs, Moves
<1>8. CASE Context(r)
  <2> DEFINE a == q.account
             p == [q EXCEPT !.pc = "route", !.proxyRetries = 0, !.timeouts = 0, !.visits[a] = @ + 1]
  <2>1. CASE a \in known
    <3>1. a \in Accounts /\ q.pc = "context"
      BY <2>1, <1>8 DEF TypeOK, Context
    <3>2. p \in Request
      <4>1. q.visits[a] + 1 \in Nat
        BY <1>0, <3>1 DEF Request
      <4>2. [q.visits EXCEPT ![a] = @ + 1] \in [Accounts -> Nat]
        BY <1>0, <4>1 DEF Request
      <4> QED
        BY <1>0, <4>2 DEF Request, PCs
    <3>3. /\ p.pc = "route" /\ p.proxyRetries = 0 /\ p.timeouts = 0 /\ p.sends = q.sends
          /\ p.visits \in [Accounts -> Nat]
          /\ \A b \in Accounts : p.visits[b] = IF b = a THEN q.visits[b] + 1 ELSE q.visits[b]
          /\ p.account = q.account /\ p.attempted = q.attempted /\ p.switches = q.switches
          /\ p.backedOff = q.backedOff
      BY <1>0, <3>1 DEF Request
    <3>4. Become(r, p)
      BY <1>8, <2>1 DEF Context
    <3> HIDE DEF p
    <3>5. LocalInv(p)
      BY <1>0, <3>1, <3>2, <3>3, CountInv
    <3> QED
      BY <3>2, <3>4, <3>5, BecomeInv
  <2>2. CASE a \notin known
    BY <1>8, <2>2, StepInv DEF Context, PCs, Moves
  <2> QED
    BY <2>1, <2>2
<1>9. CASE ResolveRoute(r)
  <2> DEFINE p == [q EXCEPT !.pc = "send", !.sends = @ + 1, !.route = PickRoute(q.account)]
  <2>1. q.pc = "route" /\ PickRoute(q.account) \in Routes
    BY <1>0, <1>9, PickRouteType DEF ResolveRoute, LocalInv, PathInv, OnAccount
  <2>2. p \in Request
    <3>1. q.sends + 1 \in Nat
      BY <1>0 DEF Request
    <3> QED
      BY <1>0, <2>1, <3>1 DEF Request, PCs
  <2>3. /\ p.pc = "send" /\ p.sends = q.sends + 1 /\ p.visits = q.visits /\ p.visits \in [Accounts -> Nat]
        /\ p.proxyRetries = q.proxyRetries /\ p.timeouts = q.timeouts
        /\ p.account = q.account /\ p.attempted = q.attempted /\ p.switches = q.switches
        /\ p.backedOff = q.backedOff
    BY <1>0 DEF Request
  <2>4. Become(r, p)
    BY <1>9 DEF ResolveRoute
  <2> HIDE DEF p
  <2>5. LocalInv(p)
    BY <1>0, <2>1, <2>2, <2>3, CountInv
  <2> QED
    BY <2>2, <2>4, <2>5, BecomeInv
<1> QED
  BY <1>1, <1>2, <1>3, <1>4, <1>5, <1>6, <1>7, <1>8, <1>9 DEF Select

(* A step on the account: p differs from the request's locals in what it counts. *)
LEMMA FailInv ==
  ASSUME TypeOK, RequestInv, NEW r \in Requests, req[r].pc \in {"send", "response"},
         NEW l \in {"failover", "drop"}, NEW e \in BOOLEAN,
         Become(r, [req[r] EXCEPT !.pc = l, !.recoverable = e])
  PROVE  req' \in [Requests -> Request] /\ RequestInv'
<1> DEFINE q == req[r]
           p == [q EXCEPT !.pc = l, !.recoverable = e]
<1>0. q \in Request /\ LocalInv(q)
  BY DEF TypeOK, RequestInv
<1>1. p \in Request
  BY <1>0 DEF Request, PCs
<1>2. /\ p.pc = l /\ p.sends = q.sends /\ p.visits = q.visits /\ p.visits \in [Accounts -> Nat]
      /\ p.account = q.account /\ p.attempted = q.attempted /\ p.switches = q.switches
      /\ p.backedOff = q.backedOff
  BY <1>0 DEF Request
<1>3. Become(r, p)
  OBVIOUS
<1> HIDE DEF p
<1>4. LocalInv(p)
  BY <1>0, <1>1, <1>2, CountInv
<1> QED
  BY <1>1, <1>3, <1>4, BecomeInv

LEMMA SendKeepsInv ==
  ASSUME TypeOK, RequestInv, NEW r \in Requests, Send(r)
  PROVE  req' \in [Requests -> Request] /\ RequestInv'
<1> DEFINE q == req[r]
<1>0. q \in Request /\ LocalInv(q) /\ q.recoverable \in BOOLEAN
  BY DEF TypeOK, RequestInv, Request
<1>1. CASE SendOk(r)
  BY <1>1, StepInv DEF SendOk, PCs, Moves
<1>2. CASE ProxyFailed(r)
  <2> DEFINE p == [q EXCEPT !.pc = "route", !.proxyRetries = @ + 1]
  <2>1. CASE q.proxyRetries < MaxProxyRetries
    <3>1. p \in Request
      <4>1. q.proxyRetries + 1 \in Nat
        BY <1>0 DEF Request
      <4> QED
        BY <1>0, <4>1 DEF Request, PCs
    <3>2. /\ p.pc = "route" /\ p.proxyRetries = q.proxyRetries + 1 /\ p.timeouts = q.timeouts
          /\ p.sends = q.sends /\ p.visits = q.visits /\ p.visits \in [Accounts -> Nat]
          /\ p.account = q.account /\ p.attempted = q.attempted /\ p.switches = q.switches
          /\ p.backedOff = q.backedOff
      BY <1>0 DEF Request
    <3>3. q.pc = "send" /\ Become(r, p)
      BY <1>2, <2>1 DEF ProxyFailed
    <3> HIDE DEF p
    <3>4. LocalInv(p)
      BY <1>0, <2>1, <3>1, <3>2, <3>3, CountInv
    <3> QED
      BY <3>1, <3>3, <3>4, BecomeInv
  <2>2. CASE ~(q.proxyRetries < MaxProxyRetries)
    BY <1>2, <2>2, AnswerInv DEF ProxyFailed, Answers
  <2> QED
    BY <2>1, <2>2
<1>3. CASE ProxyRefused(r)
  BY <1>0, <1>3, FailInv DEF ProxyRefused
<1>4. CASE StaticMissing(r)
  BY <1>4, AnswerInv DEF StaticMissing, Answers
<1>5. CASE SendFailed(r)
  BY <1>5, FailInv DEF SendFailed
<1> QED
  BY <1>1, <1>2, <1>3, <1>4, <1>5 DEF Send

LEMMA ReceiveInv ==
  ASSUME TypeOK, RequestInv, NEW r \in Requests, Receive(r)
  PROVE  req' \in [Requests -> Request] /\ RequestInv'
<1> DEFINE q == req[r]
<1>0. q \in Request /\ LocalInv(q)
  BY DEF TypeOK, RequestInv
<1>1. CASE Respond(r)
  BY <1>1, AnswerInv DEF Respond, Answers
<1>2. CASE FirstByteTimeout(r)
  <2> DEFINE p == [q EXCEPT !.timeouts = @ + 1,
                            !.pc = IF q.timeouts = 0 THEN "route" ELSE "failover"]
  <2>1. p \in Request
    <3>1. q.timeouts + 1 \in Nat
      BY <1>0 DEF Request
    <3> QED
      BY <1>0, <3>1 DEF Request, PCs
  <2>2. /\ p.pc = (IF q.timeouts = 0 THEN "route" ELSE "failover") /\ p.timeouts = q.timeouts + 1
        /\ p.proxyRetries = q.proxyRetries
        /\ p.sends = q.sends /\ p.visits = q.visits /\ p.visits \in [Accounts -> Nat]
        /\ p.account = q.account /\ p.attempted = q.attempted /\ p.switches = q.switches
        /\ p.backedOff = q.backedOff
    BY <1>0 DEF Request
  <2>3. q.pc = "response" /\ Become(r, p)
    BY <1>2 DEF FirstByteTimeout
  <2> HIDE DEF p
  <2>4. LocalInv(p)
    BY <1>0, <2>1, <2>2, <2>3, CountInv
  <2> QED
    BY <2>1, <2>3, <2>4, BecomeInv
<1>3. CASE StreamLost(r)
  BY <1>3, StepInv DEF StreamLost, PCs, Moves
<1>4. CASE Rejected(r)
  BY <1>4, FailInv DEF Rejected
<1>5. CASE Drop(r)
  BY <1>5, StepInv DEF Drop, PCs, Moves
<1>6. CASE Unlist(r)
  BY <1>6, StepInv DEF Unlist, PCs, Moves
<1>7. CASE Unmap(r)
  BY <1>7, StepInv DEF Unmap, PCs, Moves
<1>8. CASE Failover(r)
  BY <1>0, <1>8, FailoverInv, BecomeInv DEF Failover
<1> QED
  BY <1>1, <1>2, <1>3, <1>4, <1>5, <1>6, <1>7, <1>8 DEF Receive, Read, Recover

(* The steps of a request keep the accounts in their types. *)
LEMMA WorkType ==
  ASSUME TypeOK, RequestInv, NEW r \in Requests, Work(r), req' \in [Requests -> Request]
  PROVE  TypeOK'
<1> USE DEF poolVars, reloadVars
<1>q. ASSUME NEW a, quota' \in Quotas(a)
      PROVE  quota' \in [Accounts -> {"safe", "alert", "over"}]
  BY <1>q DEF Quotas, TypeOK
<1>1. CASE Select(r)
  <2>1. sessionOf' \in [Sessions -> Accounts \cup {NoAccount}]
    <3>1. CASE Remember(r)
      <4>1. req[r].account \in Accounts
        BY <3>1 DEF Remember, RequestInv, LocalInv, PathInv
      <4> QED
        BY <3>1, <4>1 DEF Remember, TypeOK
    <3>2. CASE ~Remember(r)
      BY <1>1, <3>2 DEF Select, GiveUp, LookUp, Affine, Forget, Rotate, Take, Context,
        ResolveRoute,
                        TypeOK
    <3> QED
      BY <3>1, <3>2
  <2> QED
    BY <1>1, <2>1 DEF Select, GiveUp, LookUp, Affine, Forget, Rotate, Take, Remember, Context,
                      ResolveRoute, TypeOK
<1>2. CASE Send(r)
  BY <1>2 DEF Send, SendOk, ProxyFailed, ProxyRefused, StaticMissing, SendFailed, TypeOK
<1>3. CASE Receive(r)
  <2>1. CASE Rejected(r)
    BY <1>q, <2>1 DEF Rejected, TypeOK
  <2>2. CASE Respond(r) \/ FirstByteTimeout(r) \/ StreamLost(r)
    BY <1>q, <2>2 DEF Respond, FirstByteTimeout, StreamLost, TypeOK
  <2>3. CASE Drop(r) \/ Unlist(r) \/ Unmap(r) \/ Failover(r)
    BY <2>3 DEF Drop, Unlist, Unmap, Failover, TypeOK
  <2> QED
    BY <1>3, <2>1, <2>2, <2>3 DEF Receive, Read, Recover
<1> QED
  BY <1>1, <1>2, <1>3 DEF Work

LEMMA NextInv == TypeOK /\ RequestInv /\ [Next]_vars => TypeOK' /\ RequestInv'
<1> SUFFICES ASSUME TypeOK, RequestInv, [Next]_vars PROVE TypeOK' /\ RequestInv'
  OBVIOUS
<1>1. ASSUME NEW r \in Requests, NEW s \in Sessions \cup {NoSession}, Begin(r, s)
      PROVE  TypeOK' /\ RequestInv'
  <2> DEFINE q == [Idle EXCEPT !.pc = "select", !.session = s]
  <2>1. q \in Request
    BY DEF Idle, Request, Routes, PCs, Answers
  <2>2. q.pc = "select" /\ q.switches = 0 /\ q.sends = 0 /\ ~q.backedOff /\ q.attempted = {}
        /\ \A a \in Accounts : q.visits[a] = 0
    BY DEF Idle
  <2>3. Become(r, q)
    BY <1>1 DEF Begin
  <2> HIDE DEF q
  <2>4. req' \in [Requests -> Request] /\ RequestInv'
    BY <2>1, <2>2, <2>3, IdleInv, BecomeInv
  <2> QED
    BY <1>1, <2>4 DEF Begin, poolVars, reloadVars, TypeOK
<1>2. ASSUME NEW r \in Requests, Work(r) PROVE TypeOK' /\ RequestInv'
  BY <1>2, SelectInv, SendKeepsInv, ReceiveInv, WorkType DEF Work
<1>3. ASSUME Reload PROVE TypeOK' /\ RequestInv'
  <2>1. CASE ReloadClients \/ ReloadRuntime
    BY <2>1 DEF ReloadClients, ReloadRuntime, TypeOK, RequestInv
  <2>2. ASSUME NEW a \in Accounts, ReloadFile(a) PROVE TypeOK' /\ RequestInv'
    BY <2>2 DEF ReloadFile, TypeOK, RequestInv
  <2>3. CASE ReloadOrder
    BY <2>3 DEF ReloadOrder, TypeOK, RequestInv
  <2>4. CASE ReloadSessions
    <3>1. \A a \in live : a \in Accounts
      BY DEF TypeOK
    <3> QED
      BY <2>4, <3>1 DEF ReloadSessions, poolVars, TypeOK, RequestInv
  <2> QED
    BY <1>3, <2>1, <2>2, <2>3, <2>4 DEF Reload
<1>4. ASSUME Change PROVE TypeOK' /\ RequestInv'
  BY <1>4 DEF Change, Enable, Expire, Refresh, poolVars, reloadVars, TypeOK, RequestInv
<1>5. CASE UNCHANGED vars
  BY <1>5 DEF vars, poolVars, reloadVars, TypeOK, RequestInv
<1> QED
  BY <1>1, <1>2, <1>3, <1>4, <1>5 DEF Next

LEMMA InitInv == Init => TypeOK /\ RequestInv
<1> SUFFICES ASSUME Init PROVE TypeOK /\ RequestInv
  OBVIOUS
<1>1. Idle \in Request
  BY DEF Idle, Request, Routes, PCs, Answers, NoAnswer
<1>2. Idle.pc = "idle" /\ Idle.switches = 0 /\ Idle.sends = 0 /\ ~Idle.backedOff /\ Idle.attempted = {}
      /\ \A a \in Accounts : Idle.visits[a] = 0
  BY DEF Idle
<1>3. LocalInv(Idle)
  BY <1>1, <1>2, IdleInv
<1> QED
  BY <1>1, <1>3 DEF Init, TypeOK, RequestInv

(* Every variable keeps its type, requests their accounts included. *)
THEOREM RequestsTyped == Spec => []TypeOK
BY InitInv, NextInv, PTL DEF Spec

(* Whatever fails, and whatever happens to the accounts meanwhile, one request makes
   at most a full budget of sends on each of max_retries + 1 accounts. *)
THEOREM RequestSendsBounded == Spec => []SendsBounded
<1>1. TypeOK /\ RequestInv => SendsBounded
  <2> SUFFICES ASSUME TypeOK, RequestInv, NEW r \in Requests
               PROVE  req[r].sends <= (MaxRetries + 1) * (MaxProxyRetries + 2)
    BY DEF SendsBounded
  <2> DEFINE q == req[r]
             n == q.switches
  <2>1. /\ q.sends \in Nat /\ n \in Nat /\ MaxRetries \in Nat /\ Budget \in Nat
        /\ Budget = MaxProxyRetries + 2 /\ LocalInv(q) /\ q.pc \in PCs
    BY LimitsAssumption DEF TypeOK, RequestInv, Request, Budget
  <2>2. ASSUME NEW m \in Nat, m <= MaxRetries + 1 PROVE Budget * m <= Budget * (MaxRetries + 1)
    <3>1. PICK d \in Nat : MaxRetries + 1 = m + d
      BY <2>1, <2>2
    <3>2. Budget * (m + d) = Budget * m + Budget * d /\ Budget * m \in Nat /\ Budget * d \in Nat
      BY <2>1
    <3> QED
      BY <3>1, <3>2
  <2>3. q.sends <= Budget * (MaxRetries + 1)
    <3>1. CASE q.pc \in {"idle", "answered"}
      BY <2>1, <2>2, <3>1 DEF LocalInv, SendInv
    <3>2. CASE q.pc \in {"select"} \cup Selecting
      <4>1. n <= MaxRetries + 1 /\ q.sends <= Budget * n /\ Budget * n \in Nat
        BY <2>1, <3>2 DEF LocalInv, SendInv, PathInv
      <4> QED
        BY <2>1, <2>2, <4>1
    <3>3. CASE q.pc \in OnAccount
      <4>1. n + 1 <= MaxRetries + 1 /\ q.sends <= Budget * n + Budget
        BY <2>1, <3>3 DEF LocalInv, SendInv, PathInv
      <4>2. Budget * (n + 1) = Budget * n + Budget /\ Budget * (n + 1) \in Nat
        BY <2>1
      <4> QED
        BY <2>1, <2>2, <4>1, <4>2
    <3> QED
      BY <2>1, <3>1, <3>2, <3>3 DEF PCs, Selecting, OnAccount
  <2> QED
    BY <2>1, <2>3
<1> QED
  BY <1>1, InitInv, NextInv, PTL DEF Spec

(* A request does not come back to an account it has failed on, except once after
   the back-off. *)
THEOREM VisitsBounded == Spec => []NoAccountTwiceARound
<1>1. TypeOK /\ RequestInv => NoAccountTwiceARound
  BY DEF TypeOK, RequestInv, LocalInv, VisitInv, Request, NoAccountTwiceARound
<1> QED
  BY <1>1, InitInv, NextInv, PTL DEF Spec
-----------------------------------------------------------------------------
(* The way out.  Without restarts every account stays known, and a request sends by the
   route that its account asks for. *)
RouteInv ==
  /\ known = Accounts /\ reload = "idle"
  /\ \A r \in Requests : req[r].pc = "send" => req[r].route = PickRoute(req[r].account)

LEMMA StepRoute ==
  ASSUME TypeOK, RouteInv, NEW r \in Requests, NEW q, Become(r, q),
         q.pc = "send" => q.route = PickRoute(q.account), UNCHANGED <<known, reload>>
  PROVE  RouteInv'
<1>1. \A a : PickRoute(a)' = PickRoute(a)
  BY DEF PickRoute, Routing
<1>2. ASSUME NEW s \in Requests, req'[s].pc = "send"
      PROVE  req'[s].route = PickRoute(req'[s].account)
  <2>1. CASE s = r
    BY <2>1, <1>2 DEF Become, TypeOK
  <2>2. CASE s # r
    BY <2>2, <1>2 DEF Become, TypeOK, RouteInv
  <2> QED
    BY <2>1, <2>2
<1> QED
  BY <1>1, <1>2 DEF RouteInv

LEMMA GoRoute ==
  ASSUME TypeOK, RouteInv, NEW r \in Requests, NEW l, l # "send", Step(r, l),
         UNCHANGED <<known, reload>>
  PROVE  RouteInv'
<1> DEFINE q == [req[r] EXCEPT !.pc = l]
<1>1. q.pc = l
  BY DEF TypeOK, Request
<1>2. Become(r, q)
  BY DEF Step
<1> HIDE DEF q
<1> QED
  BY <1>1, <1>2, StepRoute

LEMMA AnswerRoute ==
  ASSUME TypeOK, RouteInv, NEW r \in Requests, NEW kind, Answer(r, kind),
         UNCHANGED <<known, reload>>
  PROVE  RouteInv'
<1> DEFINE q == [Idle EXCEPT !.pc = "answered", !.answer = kind]
<1>1. q.pc = "answered"
  BY DEF Idle
<1>2. Become(r, q)
  BY DEF Answer
<1> HIDE DEF q
<1> QED
  BY <1>1, <1>2, StepRoute

LEMMA ExhaustedRoute ==
  ASSUME TypeOK, RouteInv, NEW r \in Requests, Exhausted(r), UNCHANGED <<known, reload>>
  PROVE  RouteInv'
<1>1. CASE Answer(r, "noAccount")
  BY <1>1, AnswerRoute
<1>2. CASE Become(r, [req[r] EXCEPT !.pc = "select", !.backedOff = TRUE, !.attempted = {}])
  <2> DEFINE q == [req[r] EXCEPT !.pc = "select", !.backedOff = TRUE, !.attempted = {}]
  <2>1. q.pc = "select"
    BY DEF TypeOK, Request
  <2> HIDE DEF q
  <2> QED
    BY <1>2, <2>1, StepRoute DEF q
<1> QED
  BY <1>1, <1>2 DEF Exhausted

LEMMA SelectRoute ==
  ASSUME TypeOK, RouteInv, NEW r \in Requests, Select(r)
  PROVE  RouteInv'
<1> USE DEF poolVars, reloadVars
<1>1. CASE GiveUp(r)
  BY <1>1, AnswerRoute DEF GiveUp
<1>2. CASE LookUp(r)
  <2>1. CASE Step(r, "rotate")
    BY <1>2, <2>1, GoRoute DEF LookUp
  <2>2. CASE Become(r, [req[r] EXCEPT !.pc = "affine", !.account = sessionOf[req[r].session]])
    <3> DEFINE q == [req[r] EXCEPT !.pc = "affine", !.account = sessionOf[req[r].session]]
    <3>1. q.pc = "affine"
      BY DEF TypeOK, Request
    <3> HIDE DEF q
    <3> QED
      BY <1>2, <2>2, <3>1, StepRoute DEF LookUp, q
  <2> QED
    BY <1>2, <2>1, <2>2 DEF LookUp
<1>3. CASE Affine(r) \/ Forget(r) \/ Remember(r)
  BY <1>3, GoRoute DEF Affine, Forget, Remember
<1>4. CASE Rotate(r)
  <2>1. ASSUME NEW a \in Available(r), Become(r, [req[r] EXCEPT !.pc = "take", !.account = a])
        PROVE  RouteInv'
    <3> DEFINE q == [req[r] EXCEPT !.pc = "take", !.account = a]
    <3>1. q.pc = "take"
      BY DEF TypeOK, Request
    <3> HIDE DEF q
    <3> QED
      BY <1>4, <2>1, <3>1, StepRoute DEF Rotate, q
  <2>2. CASE Exhausted(r)
    BY <1>4, <2>2, ExhaustedRoute DEF Rotate
  <2> QED
    BY <1>4, <2>1, <2>2 DEF Rotate
<1>5. CASE Take(r)
  BY <1>5, GoRoute, ExhaustedRoute DEF Take
<1>6. CASE Context(r)
  <2>1. CASE Step(r, "failover")
    BY <1>6, <2>1, GoRoute DEF Context
  <2>2. ASSUME NEW visits, Become(r, [req[r] EXCEPT !.pc = "route", !.proxyRetries = 0,
                                                   !.timeouts = 0, !.visits = visits])
        PROVE  RouteInv'
    <3> DEFINE q == [req[r] EXCEPT !.pc = "route", !.proxyRetries = 0, !.timeouts = 0, !.visits = visits]
    <3>1. q.pc = "route"
      BY DEF TypeOK, Request
    <3> HIDE DEF q
    <3> QED
      BY <1>6, <2>2, <3>1, StepRoute DEF Context, q
  <2> QED
    BY <1>6, <2>1, <2>2 DEF Context
<1>7. CASE ResolveRoute(r)
  <2> DEFINE q == [req[r] EXCEPT !.pc = "send", !.sends = @ + 1, !.route = PickRoute(req[r].account)]
  <2>1. q.route = PickRoute(q.account)
    BY DEF TypeOK, Request
  <2>2. Become(r, q)
    BY <1>7 DEF ResolveRoute
  <2> HIDE DEF q
  <2> QED
    BY <1>7, <2>1, <2>2, StepRoute DEF ResolveRoute
<1> QED
  BY <1>1, <1>2, <1>3, <1>4, <1>5, <1>6, <1>7 DEF Select

LEMMA FailoverRoute ==
  ASSUME TypeOK, RouteInv, NEW r \in Requests, NEW e,
         Become(r, [req[r] EXCEPT !.pc = "failover", !.recoverable = e]),
         UNCHANGED <<known, reload>>
  PROVE  RouteInv'
<1> DEFINE q == [req[r] EXCEPT !.pc = "failover", !.recoverable = e]
<1>1. q.pc = "failover"
  BY DEF TypeOK, Request
<1> HIDE DEF q
<1> QED
  BY <1>1, StepRoute DEF q

LEMMA SendRoute ==
  ASSUME TypeOK, RouteInv, NEW r \in Requests, Send(r)
  PROVE  RouteInv'
<1> USE DEF poolVars, reloadVars
<1>1. CASE SendOk(r)
  BY <1>1, GoRoute DEF SendOk
<1>2. CASE ProxyFailed(r)
  <2>1. CASE Answer(r, "badGateway")
    BY <1>2, <2>1, AnswerRoute DEF ProxyFailed
  <2>2. CASE Become(r, [req[r] EXCEPT !.pc = "route", !.proxyRetries = @ + 1])
    <3> DEFINE q == [req[r] EXCEPT !.pc = "route", !.proxyRetries = @ + 1]
    <3>1. q.pc = "route"
      BY DEF TypeOK, Request
    <3> HIDE DEF q
    <3> QED
      BY <1>2, <2>2, <3>1, StepRoute DEF ProxyFailed, q
  <2> QED
    BY <1>2, <2>1, <2>2 DEF ProxyFailed
<1>3. CASE ProxyRefused(r)
  BY <1>3, FailoverRoute DEF ProxyRefused
<1>4. CASE StaticMissing(r)
  BY <1>4, AnswerRoute DEF StaticMissing
<1>5. CASE SendFailed(r)
  BY <1>5, FailoverRoute DEF SendFailed
<1> QED
  BY <1>1, <1>2, <1>3, <1>4, <1>5 DEF Send

LEMMA ReceiveRoute ==
  ASSUME TypeOK, RouteInv, NEW r \in Requests, Receive(r)
  PROVE  RouteInv'
<1> USE DEF poolVars, reloadVars
<1>1. CASE Respond(r)
  BY <1>1, AnswerRoute DEF Respond
<1>2. CASE FirstByteTimeout(r)
  <2> DEFINE q == [req[r] EXCEPT !.timeouts = @ + 1,
                                 !.pc = IF req[r].timeouts = 0 THEN "route" ELSE "failover"]
  <2>1. q.pc # "send"
    BY DEF TypeOK, Request
  <2>2. Become(r, q)
    BY <1>2 DEF FirstByteTimeout
  <2> HIDE DEF q
  <2> QED
    BY <1>2, <2>1, <2>2, StepRoute DEF FirstByteTimeout
<1>3. CASE StreamLost(r) \/ Drop(r) \/ Unlist(r) \/ Unmap(r)
  BY <1>3, GoRoute DEF StreamLost, Drop, Unlist, Unmap
<1>4. CASE Rejected(r)
  <2> DEFINE q == [req[r] EXCEPT !.pc = "drop", !.recoverable = FALSE]
  <2>1. q.pc = "drop"
    BY DEF TypeOK, Request
  <2>2. Become(r, q)
    BY <1>4 DEF Rejected
  <2> HIDE DEF q
  <2> QED
    BY <1>4, <2>1, <2>2, StepRoute DEF Rejected
<1>5. CASE Failover(r)
  <2> DEFINE q == [req[r] EXCEPT !.pc = "select", !.switches = @ + 1,
                                 !.attempted = @ \cup {req[r].account}]
  <2>1. q.pc = "select"
    BY DEF TypeOK, Request
  <2>2. Become(r, q)
    BY <1>5 DEF Failover
  <2> HIDE DEF q
  <2> QED
    BY <1>5, <2>1, <2>2, StepRoute DEF Failover
<1> QED
  BY <1>1, <1>2, <1>3, <1>4, <1>5 DEF Receive, Read, Recover

LEMMA NextRoute == ~Reloads /\ TypeOK /\ RouteInv /\ [Next]_vars => RouteInv'
<1> SUFFICES ASSUME ~Reloads, TypeOK, RouteInv, [Next]_vars PROVE RouteInv'
  OBVIOUS
<1> USE DEF poolVars, reloadVars
<1>1. ASSUME NEW r \in Requests, NEW s \in Sessions \cup {NoSession}, Begin(r, s)
      PROVE  RouteInv'
  <2> DEFINE q == [Idle EXCEPT !.pc = "select", !.session = s]
  <2>1. q.pc = "select"
    BY DEF Idle
  <2>2. Become(r, q)
    BY <1>1 DEF Begin
  <2> HIDE DEF q
  <2> QED
    BY <1>1, <2>1, <2>2, StepRoute DEF Begin
<1>2. ASSUME NEW r \in Requests, Work(r) PROVE RouteInv'
  BY <1>2, SelectRoute, SendRoute, ReceiveRoute DEF Work
<1>3. ASSUME Reload PROVE RouteInv'
  BY <1>3 DEF Reload, ReloadClients, ReloadRuntime, ReloadFile, ReloadOrder, ReloadSessions,
    RouteInv
<1>4. ASSUME Change PROVE RouteInv'
  <2>1. UNCHANGED <<reload, req>> /\ known' = known
    <3>1. ASSUME NEW a \in Accounts, Enable(a)
          PROVE  UNCHANGED <<reload, req>> /\ known' = known
      BY <3>1 DEF Enable, RouteInv
    <3>2. ASSUME NEW a \in Accounts, Expire(a) \/ Refresh(a)
          PROVE  UNCHANGED <<reload, req>> /\ known' = known
      BY <3>2 DEF Expire, Refresh
    <3> QED
      BY <1>4, <3>1, <3>2 DEF Change
  <2> QED
    BY <2>1 DEF RouteInv, PickRoute, Routing
<1>5. CASE UNCHANGED vars
  BY <1>5 DEF vars, RouteInv, PickRoute, Routing
<1> QED
  BY <1>1, <1>2, <1>3, <1>4, <1>5 DEF Next

(* With residential credentials, and as long as the server is not restarted, a static
   account that has its proxy never goes out another way, in whatever attempt
   (handler.rs:379-390, route.rs): the two conditions are those under which its mode is
   looked at, and known. *)
THEOREM StaticKept ==
  ASSUME ~Reloads, Proxied
  PROVE  Spec => []StaticStaysStatic
<1>1. Init => RouteInv
  BY DEF Init, RouteInv, Idle
<1>2. Resolve("static", Transports \cup {"Static"}) = "Static"
  <2> DEFINE usable == {i \in DOMAIN Chain("static") :
                          Chain("static")[i] \in Transports \cup {"Static", "Direct"}}
  <2>1. Chain("static") = <<"Static", "Vercel", "Proxy", "Direct">>
    BY DEF Chain
  <2>2. 1 \in usable /\ \A i \in usable : i \in Nat /\ 1 <= i
    BY <2>1
  <2>3. (CHOOSE i \in usable : \A j \in usable : i <= j) = 1
    BY <2>2
  <2>4. Resolve("static", Transports \cup {"Static"})
          = Chain("static")[CHOOSE i \in usable : \A j \in usable : i <= j]
    BY DEF Resolve
  <2> QED
    BY <2>1, <2>3, <2>4
<1>3. TypeOK /\ RequestInv /\ RouteInv => StaticStaysStatic
  <2> SUFFICES ASSUME TypeOK, RequestInv, RouteInv, NEW r \in Requests,
                      req[r].pc = "send",
                      RouteOf[req[r].account] = [mode |-> "static", static |-> TRUE]
               PROVE  req[r].route = "Static"
    BY DEF StaticStaysStatic
  <2>1. req[r].account \in known
    BY DEF RequestInv, LocalInv, PathInv, OnAccount, RouteInv
  <2>2. PickRoute(req[r].account) = Resolve("static", Transports \cup {"Static"})
    BY <2>1 DEF PickRoute, Routing
  <2> QED
    BY <1>2, <2>2 DEF RouteInv
<1>4. TypeOK /\ RouteInv /\ [Next]_vars => RouteInv'
  BY NextRoute
<1> QED
  BY <1>1, <1>3, <1>4, InitInv, NextInv, PTL DEF Spec

-----------------------------------------------------------------------------
(* The gate.  What it makes of the fields, one by one *)
LEMMA Rewritten ==
  ASSUME NEW fields, NEW version, NEW text
  PROVE  /\ DOMAIN Rewrite(fields, version, text) = DOMAIN fields
         /\ Rewrite(fields, version, text)
              = [i \in DOMAIN fields |-> Rewrite(fields, version, text)[i]]
BY Zenon DEF Rewrite

LEMMA RewrittenVersion ==
  ASSUME NEW fields, NEW version, NEW text, NEW i \in DOMAIN fields,
         fields[i].key = "cc_version"
  PROVE  Rewrite(fields, version, text)[i]
           = [key |-> "cc_version", value |-> Append(version, Fp(text, version))]
BY Zenon DEF Rewrite

LEMMA RewrittenCheck ==
  ASSUME NEW fields, NEW version, NEW text, NEW i \in DOMAIN fields, fields[i].key = "cch"
  PROVE  Rewrite(fields, version, text)[i] = [key |-> "cch", value |-> Placeholder]
BY Zenon DEF Rewrite

LEMMA RewrittenOther ==
  ASSUME NEW fields, NEW version, NEW text, NEW i \in DOMAIN fields,
         fields[i].key \notin {"cc_version", "cch"}
  PROVE  Rewrite(fields, version, text)[i] = fields[i]
BY Zenon DEF Rewrite

(* The fields keep their keys. *)
LEMMA RewrittenKeys ==
  ASSUME NEW fields, NEW version, NEW text, NEW i \in DOMAIN fields
  PROVE  Rewrite(fields, version, text)[i].key = fields[i].key
<1> DEFINE f == Rewrite(fields, version, text)
<1>1. CASE fields[i].key = "cc_version"
  <2>1. f[i] = [key |-> "cc_version", value |-> Append(version, Fp(text, version))]
    BY <1>1, RewrittenVersion
  <2> HIDE DEF f
  <2> QED
    BY <1>1, <2>1 DEF f
<1>2. CASE fields[i].key = "cch"
  <2>1. f[i] = [key |-> "cch", value |-> Placeholder]
    BY <1>2, RewrittenCheck
  <2> HIDE DEF f
  <2> QED
    BY <1>2, <2>1 DEF f
<1>3. CASE fields[i].key \notin {"cc_version", "cch"}
  <2>1. f[i] = fields[i]
    BY <1>3, RewrittenOther
  <2> QED
    BY <2>1
<1> QED
  BY <1>1, <1>2, <1>3

(* They state the version they are given, with its fingerprint. *)
LEMMA RewrittenStates ==
  ASSUME NEW fields, WellFormed(fields), NEW version, NEW text
  PROVE  /\ \A key : Of(Rewrite(fields, version, text), key) = Of(fields, key)
         /\ Stated(Rewrite(fields, version, text)) = Append(version, Fp(text, version))
<1> DEFINE f == Rewrite(fields, version, text)
           new == Append(version, Fp(text, version))
<1>1. \A i \in DOMAIN fields : f[i].key = fields[i].key
  BY RewrittenKeys
<1>2. DOMAIN f = DOMAIN fields
  BY Rewritten
<1>3. \A i \in DOMAIN fields : fields[i].key = "cc_version" =>
       f[i] = [key |-> "cc_version", value |-> new]
  BY RewrittenVersion
<1> HIDE DEF f, new
<1>4. \A key : Of(f, key) = Of(fields, key)
  BY <1>1, <1>2 DEF Of
<1>5. PICK i : Of(fields, "cc_version") = {i}
  BY DEF WellFormed, One
<1>6. (CHOOSE j \in Of(f, "cc_version") : TRUE) = i
  BY <1>4, <1>5
<1>7. i \in DOMAIN fields /\ fields[i].key = "cc_version"
  BY <1>5 DEF Of
<1>8. f[i].value = new
  BY <1>3, <1>7
<1>9. Stated(f) = new
  BY <1>6, <1>8 DEF Stated
<1> QED
  BY <1>4, <1>9 DEF f, new

(* Writing the same once more changes nothing. *)
LEMMA RewrittenTwice ==
  ASSUME NEW fields, NEW version, NEW text
  PROVE  Rewrite(Rewrite(fields, version, text), version, text) = Rewrite(fields, version, text)
<1> DEFINE f == Rewrite(fields, version, text)
           g == Rewrite(f, version, text)
           stated == [key |-> "cc_version", value |-> Append(version, Fp(text, version))]
           check == [key |-> "cch", value |-> Placeholder]
<1>1. DOMAIN f = DOMAIN fields /\ DOMAIN g = DOMAIN f
  BY Rewritten
<1>2. \A i \in DOMAIN f : f[i].key = fields[i].key
  BY <1>1, RewrittenKeys
<1>3. \A i \in DOMAIN f : fields[i].key = "cc_version" => f[i] = stated
  BY <1>1, RewrittenVersion
<1>4. \A i \in DOMAIN f : fields[i].key = "cch" => f[i] = check
  BY <1>1, RewrittenCheck
<1>5. \A i \in DOMAIN f : f[i].key = "cc_version" => g[i] = stated
  BY RewrittenVersion
<1>6. \A i \in DOMAIN f : f[i].key = "cch" => g[i] = check
  BY RewrittenCheck
<1>7. \A i \in DOMAIN f : f[i].key \notin {"cc_version", "cch"} => g[i] = f[i]
  BY RewrittenOther
<1>8. f = [i \in DOMAIN fields |-> f[i]] /\ g = [i \in DOMAIN f |-> g[i]]
  BY Rewritten
<1> HIDE DEF f, g, stated, check
<1>9. \A i \in DOMAIN f : g[i] = f[i]
  BY <1>2, <1>3, <1>4, <1>5, <1>6, <1>7
<1>10. g = f
  BY <1>1, <1>8, <1>9
<1> QED
  BY <1>10 DEF f, g

(* A release with its fingerprint: the version that is compared, and the text that
   verifies it. *)
LEMMA OneNumber ==
  ASSUME NEW x, IsNumber(x), x.pre = FALSE, NEW y
  PROVE  /\ Append(<<x>>, y) # <<>> /\ Append(<<x>>, y)[1] = x
         /\ Parses(Append(<<x>>, y)) /\ Version(Append(<<x>>, y)) = <<x>>
         /\ Core(Append(<<x>>, y)) = <<x>> /\ Fingerprint(Append(<<x>>, y)) = y
<1> DEFINE raw == Append(<<x>>, y)
           S == {x, y}
<1>1. <<x>> \in Seq(S) /\ x \in S /\ y \in S
  OBVIOUS
<1> HIDE DEF S
<1>2. raw \in Seq(S) /\ Len(raw) = 2 /\ raw[1] = x /\ raw[2] = y
  BY <1>1
<1> HIDE DEF raw
<1>3. Core(raw) = <<x>>
  <2>1. SubSeq(raw, 1, 1) \in Seq(S) /\ Len(SubSeq(raw, 1, 1)) = 1 /\ SubSeq(raw, 1, 1)[1] = x
    BY <1>2
  <2>2. SubSeq(raw, 1, 1) = <<x>>
    <3>1. Len(<<x>>) = 1 /\ <<x>>[1] = x
      OBVIOUS
    <3>2. \A a, b \in Seq(S) : Len(a) = 1 /\ Len(b) = 1 /\ a[1] = b[1] => a = b
      OBVIOUS
    <3> HIDE DEF S
    <3> QED
      BY <1>1, <2>1, <3>1, <3>2
  <2>3. Len(raw) - 1 = 1
    BY <1>2
  <2> QED
    BY <2>2, <2>3 DEF Core
<1>4. raw # <<>> /\ Fingerprint(raw) = y
  BY <1>2 DEF Fingerprint
<1>5. Parses(raw) /\ Version(raw) = <<x>>
  BY <1>2, <1>4 DEF Parses, Version
<1> QED
  BY <1>2, <1>3, <1>4, <1>5 DEF raw

(* A release the gate has admitted with its User-Agent: the version is one number, also
   the one in the User-Agent. *)
LEMMA ConsistentVersions ==
  ASSUME NEW c \in Inbound, Admits(c), Consistent(c)
  PROVE  LET x == Stated(c.fields)[1]
         IN /\ x \in [n : Nat, pre : BOOLEAN] /\ ~x.pre /\ IsNumber(x)
            /\ Version(Stated(c.fields)) = <<x>>
            /\ c.ua.raw # <<>> /\ c.ua.raw[1] = x
<1> DEFINE raw == Stated(c.fields)
           x == raw[1]
<1>1. IsText(raw)
  <2>1. PICK i : Of(c.fields, "cc_version") = {i}
    BY DEF Admits, WellFormed, One
  <2>2. raw = c.fields[i].value
    BY <2>1 DEF Stated
  <2>3. i \in DOMAIN c.fields /\ c.fields[i].key = "cc_version"
    BY <2>1 DEF Of
  <2> QED
    BY <2>2, <2>3, InboundAssumption
<1>2. raw # <<>> /\ IsNumber(raw[1]) /\ Agrees(c.ua, Version(raw))
  BY DEF Admits, Parses
<1>3. ~Version(raw)[1].pre /\ c.ua.is = "cli"
  BY DEF Consistent
<1> HIDE DEF raw
<1>4. 1 \in DOMAIN raw
  BY <1>1, <1>2 DEF IsText
<1>5. x \in [n : Nat, pre : BOOLEAN]
  BY <1>1, <1>2, <1>4 DEF IsText
<1>6. Version(raw) = <<x>> /\ ~x.pre
  <2>1. ~x.pre
    BY <1>3 DEF Version
  <2> QED
    BY <2>1 DEF Version
<1>7. Parses(c.ua.raw) /\ Version(c.ua.raw) = <<x>>
  BY <1>2, <1>3, <1>6 DEF Agrees
<1>8. c.ua.raw[1] = x
  <2>1. Version(c.ua.raw)[1] = c.ua.raw[1]
    BY DEF Version
  <2> QED
    BY <1>7, <2>1
<1> QED
  BY <1>2, <1>5, <1>6, <1>7, <1>8 DEF Parses, raw

(* Clamping the User-Agent replaces the version in it. *)
LEMMA ClampedVersion ==
  ASSUME NEW x, NEW ua, ua.is = "cli", IsText(ua.raw), ua.raw # <<>>, ua.raw[1] = x
  PROVE  /\ ClampedAgent(ua, <<x>>).is = "cli"
         /\ ClampedAgent(ua, <<x>>).raw # <<>>
         /\ ClampedAgent(ua, <<x>>).raw[1] = Release(Supported)
<1> DEFINE r == ua.raw
           S == {r[i] : i \in DOMAIN r} \cup {Release(Supported)}
           rest == SubSeq(r, 2, Len(r))
<1>1. r \in Seq(S) /\ Len(r) \in Nat \ {0}
  BY DEF IsText
<1>2. Release(Supported) \in S
  OBVIOUS
<1> HIDE DEF S
<1>3. SubSeq(r, 1, 1) = <<x>>
  <2>1. SubSeq(r, 1, 1) \in Seq(S) /\ Len(SubSeq(r, 1, 1)) = 1 /\ SubSeq(r, 1, 1)[1] = x
    BY <1>1
  <2>2. x \in S
    BY <1>1
  <2>3. <<x>> \in Seq(S) /\ Len(<<x>>) = 1 /\ <<x>>[1] = x
    BY <2>2
  <2>4. \A a, b \in Seq(S) : Len(a) = 1 /\ Len(b) = 1 /\ a[1] = b[1] => a = b
    OBVIOUS
  <2> QED
    BY <2>1, <2>3, <2>4
<1>4. ua # NoAgent
  BY DEF NoAgent
<1>5. Len(<<x>>) = 1
  OBVIOUS
<1>6. ClampedAgent(ua, <<x>>) = Cli(<<Release(Supported)>> \o rest)
  BY <1>1, <1>3, <1>4, <1>5 DEF ClampedAgent
<1>7. rest \in Seq(S)
  BY <1>1
<1> HIDE DEF rest
<1>8. /\ <<Release(Supported)>> \o rest # <<>>
      /\ (<<Release(Supported)>> \o rest)[1] = Release(Supported)
  BY <1>2, <1>7
<1> QED
  BY <1>6, <1>8 DEF Cli

(* What the gate lets through it lets through again, and leaves as it is. *)
LEMMA GateAgain ==
  ASSUME NEW c \in Inbound, Admits(c), Consistent(c)
  PROVE  Settled(c)
<1> DEFINE raw == Stated(c.fields)
           old == raw[1]
           newer == Newer(<<old>>, Supported)
           x == IF newer THEN Release(Supported) ELSE old
           text == CHOOSE t \in Verified(c.messages, raw) : TRUE
           f == Rewrite(c.fields, <<x>>, text)
           ua == IF newer THEN ClampedAgent(c.ua, <<old>>) ELSE c.ua
           fp == Fp(text, <<x>>)
           g == Gated(c)
<1>1. /\ old \in [n : Nat, pre : BOOLEAN] /\ ~old.pre /\ IsNumber(old)
      /\ Version(raw) = <<old>> /\ c.ua.raw # <<>> /\ c.ua.raw[1] = old
  BY ConsistentVersions
<1>2. WellFormed(c.fields) /\ c.ua.is = "cli" /\ IsText(c.ua.raw)
  BY InboundAssumption DEF Admits, Consistent
<1>3. text \in Verified(c.messages, raw)
  BY DEF Admits
<1>4. IsNumber(x) /\ x.pre = FALSE /\ ~Newer(<<x>>, Supported)
  <2>1. CASE newer
    BY <2>1, SupportedAssumption DEF Release, IsNumber, Newer
  <2>2. CASE ~newer
    BY <1>1, <2>2
  <2> QED
    BY <2>1, <2>2
<1>5. g = [c EXCEPT !.fields = f, !.ua = ua]
  <2>1. Newer(Version(raw), Supported) <=> newer
    BY <1>1
  <2>2. (IF newer THEN <<Release(Supported)>> ELSE <<old>>) = <<x>>
    OBVIOUS
  <2> QED
    BY <1>1, <2>1, <2>2 DEF Gated
<1>6. g.fields = f /\ g.ua = ua /\ g.messages = c.messages
  BY <1>5, InboundAssumption
<1>7. /\ \A key : Of(f, key) = Of(c.fields, key)
      /\ Stated(f) = Append(<<x>>, fp)
  <2> HIDE DEF x, text
  <2> QED
    BY <1>2, RewrittenStates
<1>8. ua.is = "cli" /\ ua.raw # <<>> /\ ua.raw[1] = x
  <2>1. CASE newer
    BY <1>1, <1>2, <2>1, ClampedVersion
  <2>2. CASE ~newer
    BY <1>1, <1>2, <2>2
  <2> QED
    BY <2>1, <2>2
<1> HIDE DEF newer, x, f, ua
<1>9. /\ Stated(f) # <<>> /\ Parses(Stated(f)) /\ Version(Stated(f)) = <<x>>
      /\ Core(Stated(f)) = <<x>> /\ Fingerprint(Stated(f)) = fp
  <2> HIDE DEF fp
  <2>1. /\ Append(<<x>>, fp) # <<>> /\ Parses(Append(<<x>>, fp))
        /\ Version(Append(<<x>>, fp)) = <<x>>
        /\ Core(Append(<<x>>, fp)) = <<x>> /\ Fingerprint(Append(<<x>>, fp)) = fp
    BY <1>4, OneNumber
  <2> QED
    BY <1>7, <2>1
<1>10. WellFormed(f)
  BY <1>2, <1>7, <1>9 DEF WellFormed
<1>11. Agrees(ua, <<x>>)
  BY <1>4, <1>8 DEF Agrees, Parses, Version
<1>12. Verified(c.messages, Stated(f)) = {text}
  <2>1. \A t : Fp(t, <<x>>) = fp => t = text
    <3>1. \A t : Fp(t, <<x>>).text = t
      BY DEF Fp
    <3> HIDE DEF text
    <3> QED
      BY <3>1
  <2>2. text \in Verifiable(c.messages)
    BY <1>3 DEF Verified
  <2> HIDE DEF text
  <2>3. \A t : t \in Verified(c.messages, Stated(f)) <=> t \in Verifiable(c.messages) /\ Fp(t, <<x>>) = fp
    BY <1>9 DEF Verified
  <2> QED
    BY <2>1, <2>2, <2>3
<1>13. Admits(g)
  BY <1>6, <1>9, <1>10, <1>11, <1>12 DEF Admits
<1>14. Gated(g) = [g EXCEPT !.fields = Rewrite(f, <<x>>, text), !.ua = ua]
  BY <1>4, <1>6, <1>9, <1>12 DEF Gated
<1>15. Rewrite(f, <<x>>, text) = f
  BY RewrittenTwice DEF f
<1>16. Gated(g) = g
  <2> HIDE DEF g
  <2>1. g = [k \in DOMAIN g |-> g[k]]
    BY <1>5
  <2> QED
    BY <1>6, <1>14, <1>15, <2>1
<1>17. ~Newer(Version(Stated(g.fields)), Supported)
  BY <1>4, <1>6, <1>9
<1> QED
  BY <1>13, <1>16, <1>17 DEF Settled

(* For every newest version and all requests of clients that name their release in the
   User-Agent too: what the gate lets through, it would let through again and leave as it
   is, so the version, the fingerprint and the User-Agent that are sent agree
   (policy.rs). *)
THEOREM GateAlwaysSettles == Spec => []GateSettles
<1>1. GateSettles
  BY GateAgain DEF GateSettles, AllSettled, Admitted
<1> QED
  BY <1>1, PTL
-----------------------------------------------------------------------------
(* The builder.  Every set of indices has a least one. *)
LEMMA Least ==
  ASSUME NEW S, S \subseteq Nat, S # {}
  PROVE  \E x \in S : \A y \in S : x <= y
<1>1. \E x \in S : \A y \in S : ~ (<<y, x>> \in OpToRel(<, Nat))
  BY WFMin, NatLessThanWellFounded
<1>2. \A x, y \in S : <<y, x>> \in OpToRel(<, Nat) <=> y < x
  BY DEF OpToRel
<1>3. \E x \in S : \A y \in S : ~ (y < x)
  BY <1>1, <1>2, Zenon
<1> QED
  BY <1>3

(* The lines that are kept keep their names, and a single beta line gets the betas that
   ensure_oauth_beta makes of its own. *)
LEMMA KeptLine ==
  ASSUME NEW headers, DOMAIN headers \subseteq Nat, NEW dropped, NEW k
  PROVE  /\ k \in DOMAIN Kept(headers, dropped)
              <=> k \in DOMAIN headers /\ headers[k].name \notin dropped
         /\ k \in DOMAIN Kept(headers, dropped)
              => Kept(headers, dropped)[k].name = headers[k].name
         /\ {j \in DOMAIN headers : headers[j].name = "anthropic-beta"} = {k}
              /\ "anthropic-beta" \notin dropped
              => Kept(headers, dropped)[k].value = WithRequired(headers[k].value)
<1> DEFINE lines == [i \in {i \in DOMAIN headers : headers[i].name \notin dropped} |-> headers[i]]
           betas == {i \in DOMAIN lines : lines[i].name = "anthropic-beta"}
           first == CHOOSE i \in betas : \A j \in betas : i <= j
           merged == [lines EXCEPT ![first] = Line("anthropic-beta", WithRequired(lines[first].value))]
<1>1. /\ DOMAIN lines = {i \in DOMAIN headers : headers[i].name \notin dropped}
      /\ \A i \in DOMAIN lines : lines[i] = headers[i]
      /\ Kept(headers, dropped) = IF betas = {} THEN lines ELSE merged
  BY DEF Kept, EnsureBeta
<1> HIDE DEF lines
<1>2. CASE betas = {}
  BY <1>1, <1>2
<1>3. CASE betas # {}
  <2>1. first \in betas
    BY <1>1, <1>3, Least
  <2> HIDE DEF first
  <2>2. /\ DOMAIN merged = DOMAIN lines
        /\ \A i \in DOMAIN lines \ {first} : merged[i] = lines[i]
        /\ merged[first].name = lines[first].name
        /\ merged[first].value = WithRequired(lines[first].value)
    BY <2>1 DEF Line
  <2> QED
    BY <1>1, <1>3, <2>1, <2>2
<1> QED
  BY <1>2, <1>3
(* The gateway's own headers: one of each name, with nothing of the client's. *)
LEMMA AddedLines ==
  ASSUME NEW c, NEW a, NEW host \in Hosts, NEW key \in {<<>>, <<"vercel key">>}
  PROVE  LET id == Identity(c, a)
             own == Added(id, <<"length">>, host, key)
         IN /\ \A l, m \in own : l.name = m.name => l = m
            /\ \A l \in own : l.name # "anthropic-beta" /\ l.value # <<Client>>
            /\ Line("authorization", <<Bearer, id.token>>) \in own
            /\ Line("x-claude-code-session-id", <<id.session>>) \in own
<1> DEFINE id == Identity(c, a)
           own == Added(id, <<"length">>, host, key)
<1>1. \A l \in own : \/ l = Line("authorization", <<Bearer, id.token>>)
                     \/ l = Line("host", <<<<host>>>>)
                     \/ l = Line("x-claude-code-session-id", <<id.session>>)
                     \/ l = Line("content-length", <<<<"length">>>>)
                     \/ l = Line("x-client-request-id", <<<<"new">>>>)
                     \/ l = Line("x-ai-gateway-api-key", <<Bearer, key>>)
  BY DEF Added
<1>2. /\ Line("authorization", <<Bearer, id.token>>) \in own
      /\ Line("x-claude-code-session-id", <<id.session>>) \in own
  BY DEF Added
<1>3. \A name, value : Line(name, value).name = name /\ Line(name, value).value = value
  BY DEF Line
<1> HIDE DEF own, id
<1> HIDE DEF Line
<1>4. ASSUME NEW l \in own
      PROVE  \/ l.name = "authorization" /\ l.value = <<Bearer, id.token>>
             \/ l.name = "host" /\ l.value = <<<<host>>>>
             \/ l.name = "x-claude-code-session-id" /\ l.value = <<id.session>>
             \/ l.name = "content-length" /\ l.value = <<<<"length">>>>
             \/ l.name = "x-client-request-id" /\ l.value = <<<<"new">>>>
             \/ l.name = "x-ai-gateway-api-key" /\ l.value = <<Bearer, key>>
  <2>1. \A name, value : l = Line(name, value) => l.name = name /\ l.value = value
    BY <1>3
  <2> QED
    BY <1>1, <2>1, ZenonT(60)
<1>5. \A l \in own : l.value # <<Client>>
  <2>1. <<id.session>> # <<Client>>
    BY DEF Identity, MappedSession, Client, id
  <2>2. <<<<host>>>> # <<Client>>
    BY DEF Hosts, Client
  <2>3. <<<<"length">>>> # <<Client>> /\ <<<<"new">>>> # <<Client>>
    BY DEF Client
  <2>4. \A x : <<Bearer, x>> # <<Client>>
    OBVIOUS
  <2> QED
    BY <1>4, <2>1, <2>2, <2>3, <2>4
<1>6. \A l \in own : l.name # "anthropic-beta"
  BY <1>4
<1>7. ASSUME NEW l \in own, NEW m \in own, l.name = m.name
      PROVE  l = m
  <2>1. l = Line(l.name, l.value) /\ m = Line(m.name, m.value)
    <3>1. \A x, name, value : x = Line(name, value) => x = Line(x.name, x.value)
      BY <1>3
    <3> QED
      BY <1>1, <3>1, ZenonT(60)
  <2>2. l.value = m.value
    BY <1>4, <1>7
  <2> QED
    BY <1>7, <2>1, <2>2
<1> QED
  BY <1>2, <1>5, <1>6, <1>7 DEF own, id

(* What is sent under one of the gateway's own names is the gateway's, and the other
   names are of lines that were kept. *)
LEMMA InsertedValues ==
  ASSUME NEW lines, NEW own, \A l, m \in own : l.name = m.name => l = m
  PROVE  /\ \A l \in own : l.name \in DOMAIN Inserted(lines, own)
                            /\ Inserted(lines, own)[l.name] = l.value
         /\ \A name \in DOMAIN Inserted(lines, own) :
               \/ \E l \in own : l.name = name
               \/ \E i \in DOMAIN lines : lines[i].name = name
<1>1. DOMAIN Inserted(lines, own) = {l.name : l \in own} \cup {lines[i].name : i \in DOMAIN lines}
  BY DEF Inserted
<1>2. ASSUME NEW l \in own
      PROVE  Inserted(lines, own)[l.name] = l.value
  <2>1. (CHOOSE m \in own : m.name = l.name) = l
    OBVIOUS
  <2> QED
    BY <2>1 DEF Inserted
<1> QED
  BY <1>1, <1>2
(* For every request and every account the headers of an attempt name the account. *)
LEMMA AttemptOwned ==
  ASSUME NEW c \in Inbound, NEW a, NEW route \in Routes
  PROVE  Owned(c, a, Attempt(c, a, HostOf(route)))
<1> DEFINE id == Identity(c, a)
           host == HostOf(route)
           key == IF host = "ai-gateway.vercel.sh" THEN <<"vercel key">> ELSE <<>>
           own == Added(id, <<"length">>, host, key)
           lines == Kept(c.headers, Removed \cup Replaced)
           sent == Attempt(c, a, host)
<1>1. host \in Hosts /\ key \in {<<>>, <<"vercel key">>}
  BY DEF HostOf, Hosts
<1>2. /\ sent.headers = Inserted(lines, own)
      /\ sent.user = User(c, id)
  BY DEF Attempt, Headers
<1> HIDE DEF sent, host, key
<1>3. /\ \A l, m \in own : l.name = m.name => l = m
      /\ \A l \in own : l.value # <<Client>>
      /\ Line("authorization", <<Bearer, id.token>>) \in own
      /\ Line("x-claude-code-session-id", <<id.session>>) \in own
  BY <1>1, AddedLines
<1>4. \A i \in DOMAIN lines : lines[i].name \notin Removed \cup Replaced
  <2>1. DOMAIN c.headers \subseteq Nat
    <3>1. c.headers \in Seq(Range(c.headers))
      BY InboundAssumption
    <3> QED
      BY <3>1
  <2> QED
    BY <2>1, KeptLine
<1> HIDE DEF own, lines
<1>5. /\ \A l \in own : sent.headers[l.name] = l.value
      /\ \A name \in DOMAIN sent.headers : \/ \E l \in own : l.name = name
                                           \/ \E i \in DOMAIN lines : lines[i].name = name
  BY <1>2, <1>3, InsertedValues
<1>6. \A name \in (Removed \cup Replaced) \cap DOMAIN sent.headers : sent.headers[name] # <<Client>>
  BY <1>3, <1>4, <1>5
<1>7. /\ sent.headers["authorization"] = <<Bearer, id.token>>
      /\ sent.headers["x-claude-code-session-id"] = <<id.session>>
  BY <1>3, <1>5 DEF Line
<1>8. sent.user \in {<<>>, <<id.device, id.account, id.session>>}
  BY <1>2 DEF User
<1> QED
  BY <1>6, <1>7, <1>8 DEF Owned, sent, host
(* What ensure_oauth_beta makes of the betas of a line. *)
LEMMA RequiredOnce ==
  ASSUME NEW asked, asked \in Seq(Range(asked))
  PROVE  LET betas == WithRequired(asked)
         IN \/ Required \in Range(asked) /\ betas = asked
            \/ Required \notin Range(asked)
                 /\ \E k \in DOMAIN betas : betas[k] = Required /\ RemoveAt(betas, k) = asked
<1> DEFINE betas == WithRequired(asked)
           n == Len(asked)
           B == Range(asked) \cup {ClaudeCode, Required}
<1>0. asked \in Seq(B) /\ n \in Nat /\ DOMAIN asked = 1..n /\ Required \in B /\ ClaudeCode \in B
  OBVIOUS
<1> HIDE DEF B
<1>1. CASE Required \in Range(asked)
  BY <1>1 DEF WithRequired
<1>2. CASE Required \notin Range(asked) /\ asked # <<>> /\ Head(asked) = ClaudeCode
  <2>1. betas = <<ClaudeCode, Required>> \o Tail(asked)
    BY <1>2 DEF WithRequired
  <2> HIDE DEF betas
  <2>2. /\ betas \in Seq(B) /\ Len(betas) = n + 1
        /\ betas[2] = Required /\ betas[1] = asked[1] /\ n >= 1
        /\ \A i \in 3..(n + 1) : betas[i] = asked[i - 1]
    BY <1>0, <1>2, <2>1
  <2>3. RemoveAt(betas, 2) = asked
    <3>1. SubSeq(betas, 1, 1) \o SubSeq(betas, 3, n + 1) = asked
      BY <1>0, <2>2
    <3> QED
      BY <2>2, <3>1 DEF RemoveAt
  <2> QED
    BY <1>2, <2>2, <2>3 DEF betas
<1>3. CASE Required \notin Range(asked) /\ ~(asked # <<>> /\ Head(asked) = ClaudeCode)
  <2>1. betas = <<Required>> \o asked
    BY <1>3 DEF WithRequired
  <2> HIDE DEF betas
  <2>2. /\ betas \in Seq(B) /\ Len(betas) = n + 1 /\ betas[1] = Required
        /\ \A i \in 2..(n + 1) : betas[i] = asked[i - 1]
    BY <1>0, <2>1
  <2>3. RemoveAt(betas, 1) = asked
    <3>1. SubSeq(betas, 1, 0) \o SubSeq(betas, 2, n + 1) = asked
      BY <1>0, <2>2
    <3> QED
      BY <2>2, <3>1 DEF RemoveAt
  <2> QED
    BY <1>3, <2>2, <2>3 DEF betas
<1> QED
  BY <1>1, <1>2, <1>3
(* For every request that has its betas in one line, that line is sent with the required
   beta. *)
LEMMA AttemptMerged ==
  ASSUME NEW c \in Inbound, NEW a, NEW route \in Routes
  PROVE  Merged(c, Attempt(c, a, HostOf(route)))
<1> DEFINE id == Identity(c, a)
           host == HostOf(route)
           key == IF host = "ai-gateway.vercel.sh" THEN <<"vercel key">> ELSE <<>>
           own == Added(id, <<"length">>, host, key)
           lines == Kept(c.headers, Removed \cup Replaced)
           sent == Attempt(c, a, host)
           beta == "anthropic-beta"
<1> SUFFICES ASSUME NEW i \in DOMAIN c.headers, BetaLines(c) = {i}
             PROVE  LET asked == c.headers[i].value
                        betas == sent.headers[beta]
                    IN \/ Required \in Range(asked) /\ betas = asked
                       \/ Required \notin Range(asked)
                            /\ \E k \in DOMAIN betas : betas[k] = Required /\ RemoveAt(betas, k) = asked
  BY DEF Merged
<1>1. host \in Hosts /\ key \in {<<>>, <<"vercel key">>}
  BY DEF HostOf, Hosts
<1>2. sent.headers = Inserted(lines, own)
  BY DEF Attempt, Headers
<1>3. \A l \in own : l.name # beta
  BY <1>1, AddedLines
<1>4. DOMAIN c.headers \subseteq Nat /\ c.headers[i].value \in Seq(Range(c.headers[i].value))
  <2>1. c.headers \in Seq(Range(c.headers))
    BY InboundAssumption
  <2> QED
    BY <2>1, InboundAssumption
<1>5. /\ i \in DOMAIN lines /\ lines[i].name = beta
      /\ lines[i].value = WithRequired(c.headers[i].value)
      /\ \A j \in DOMAIN lines : lines[j].name = beta => j = i
  <2>1. c.headers[i].name = beta /\ \A j \in DOMAIN c.headers : c.headers[j].name = beta => j = i
    BY DEF BetaLines
  <2>2. beta \notin Removed \cup Replaced
    BY DEF Removed, Replaced
  <2>3. {j \in DOMAIN c.headers : c.headers[j].name = "anthropic-beta"} = {i}
    BY DEF BetaLines
  <2>4. \A j \in DOMAIN lines : j \in DOMAIN c.headers /\ lines[j].name = c.headers[j].name
    BY <1>4, KeptLine
  <2> QED
    BY <1>4, <2>1, <2>2, <2>3, <2>4, KeptLine
<1> HIDE DEF own, lines, sent
<1>6. LastOf(lines, beta) = i
  <2>1. \A j \in DOMAIN lines : lines[j].name = beta => j <= i
    BY <1>4, <1>5
  <2> QED
    BY <1>5, <2>1 DEF LastOf
<1>7. sent.headers[beta] = WithRequired(c.headers[i].value)
  <2>1. beta \notin {l.name : l \in own} /\ beta \in {lines[j].name : j \in DOMAIN lines}
    BY <1>3, <1>5
  <2>2. Inserted(lines, own)[beta] = lines[LastOf(lines, beta)].value
    BY <2>1 DEF Inserted
  <2> QED
    BY <1>2, <1>5, <1>6, <2>2
<1> QED
  BY <1>4, <1>7, RequiredOnce

(* A request that is sending has an account and a route. *)
LEMMA SendingOn ==
  ASSUME TypeOK, RequestInv, NEW r \in Sending
  PROVE  req[r].account \in Accounts /\ req[r].route \in Routes
BY DEF Sending, TypeOK, Request, RequestInv, LocalInv, PathInv, OnAccount

(* Whatever credentials clients send, in whatever lines, and after whatever retries and
   failovers: each attempt names the account in use and nothing of the client's
   (build_outbound_headers, apply_metadata_in_place; builder.rs:39-129, 283-315). *)
THEOREM OneIdentityKept == Spec => []OneIdentity
<1>1. TypeOK /\ RequestInv => OneIdentity
  <2> SUFFICES ASSUME TypeOK, RequestInv, NEW r \in Sending
               PROVE  \E v \in Verdicts :
                        v.account = req[r].account /\ v.route = req[r].route /\ v.owned
    BY DEF OneIdentity
  <2> DEFINE a == req[r].account
             route == req[r].route
             v == [account |-> a, route |-> route,
                   owned |-> Owns(a, route), merged |-> Merges(a, route)]
  <2>1. a \in Accounts /\ route \in Routes
    BY SendingOn
  <2>2. Owns(a, route)
    BY <2>1, AttemptOwned DEF Owns, Admitted
  <2> QED
    <3>1. v \in Verdicts
      <4> HIDE DEF a, route
      <4> QED
        BY <2>1 DEF Verdicts
    <3>2. v.account = a /\ v.route = route
      OBVIOUS
    <3>3. v.owned
      BY <2>2
    <3> QED
      BY <3>1, <3>2, <3>3
<1> QED
  BY <1>1, InitInv, NextInv, PTL DEF Spec

(* Whichever betas a client asks for in one line: every attempt asks for them in their
   order, and for the account's once more only if it is missing (ensure_oauth_beta,
   builder.rs:211-246). *)
THEOREM BetaAlwaysMerged == Spec => []BetaMerged
<1>1. TypeOK /\ RequestInv => BetaMerged
  <2> SUFFICES ASSUME TypeOK, RequestInv, NEW r \in Sending
               PROVE  \E v \in Verdicts :
                        v.account = req[r].account /\ v.route = req[r].route /\ v.merged
    BY DEF BetaMerged
  <2> DEFINE a == req[r].account
             route == req[r].route
             v == [account |-> a, route |-> route,
                   owned |-> Owns(a, route), merged |-> Merges(a, route)]
  <2>1. a \in Accounts /\ route \in Routes
    BY SendingOn
  <2>2. Merges(a, route)
    BY <2>1, AttemptMerged DEF Merges, Admitted
  <2> QED
    <3>1. v \in Verdicts
      <4> HIDE DEF a, route
      <4> QED
        BY <2>1 DEF Verdicts
    <3>2. v.account = a /\ v.route = route
      OBVIOUS
    <3>3. v.merged
      BY <2>2
    <3> QED
      BY <3>1, <3>2, <3>3
<1> QED
  BY <1>1, InitInv, NextInv, PTL DEF Spec
=============================================================================
