--------------------------- MODULE ProxyPoolProofs ---------------------------
(* Theorems about ProxyPool, for every value of its constants. *)
EXTENDS ProxyPool, FiniteSetTheorems, FunctionTheorems, SequenceTheorems, TLAPS

(* The placeholder values have their types. *)
LEMMA NoSessionType == NoSession \in Session /\ NoChoice \in [session : Session, country : Countries]
<1>1. (CHOOSE c \in Countries : TRUE) \in Countries
  BY CountriesAssumption
<1> QED
  BY <1>1, BoundsAssumption DEF NoSession, NoChoice, Session, SessionIds

(* The elements of a sequence and its prefixes. *)
LEMMA PrefixType ==
  ASSUME NEW S, NEW s \in Seq(S), NEW i \in DOMAIN s
  PROVE  s[i] \in S /\ SubSeq(s, 1, i - 1) \in Seq(S)
<1>1. s[i] \in S
  OBVIOUS
<1>2. SubSeq(s, 1, i - 1) \in Seq(S)
  BY SubSeqProperties
<1> QED
  BY <1>1, <1>2

LEMMA SingletonType ==
  ASSUME NEW S, NEW x \in S
  PROVE  <<x>> \in Seq(S) /\ <<>> \in Seq(S)
<1>1. <<x>> \in Seq(S)
  OBVIOUS
<1> QED
  BY <1>1, EmptySeq

(* What eviction keeps of the idle connections is made of idle connections. *)
LEMMA KeptType ==
  ASSUME NEW S, NEW s \in Seq(S), NEW t \in Kept(s)
  PROVE  t \in Seq(S) /\ \A i \in DOMAIN t : \E j \in DOMAIN s : t[i] = s[j]
<1>0. PICK n \in 0..Len(s) : t \in {[i \in 1..n |-> s[f[i]]] : f \in Increasing(n, s)}
  BY DEF Kept
<1>1. PICK f \in Increasing(n, s) : t = [i \in 1..n |-> s[f[i]]]
  BY <1>0
<1>2. n \in Nat /\ f \in [1..n -> DOMAIN s]
  BY <1>1 DEF Increasing
<1>3. \A i \in 1..n : s[f[i]] \in S /\ f[i] \in DOMAIN s
  BY <1>2
<1>4. t \in [1..n -> S]
  BY <1>1, <1>3
<1>5. t \in Seq(S)
  BY <1>2, <1>4
<1>6. DOMAIN t = 1..n
  BY <1>1
<1>7. \A i \in DOMAIN t : f[i] \in DOMAIN s /\ t[i] = s[f[i]]
  BY <1>1, <1>3, <1>6
<1> QED
  BY <1>5, <1>7

(* Every step keeps every variable in its type. *)
LEMMA TypeStep == TypeOK /\ [Next]_vars => TypeOK'
<1> SUFFICES ASSUME TypeOK, [Next]_vars PROVE TypeOK'
  OBVIOUS
<1> USE DEF Goto, Leave, Free, Procs, Fresh, CanAllocate, entryVars, fileVars, sharedVars, localVars,
            RequestPCs, MaintainPCs, SwitchPCs
<1>s. NoSession \in Session /\ NoSession.country \in Countries
      /\ NoChoice \in [session : Session, country : Countries]
      /\ MaxSessions \in Nat
  BY NoSessionType, BoundsAssumption DEF Session
<1>i. SessionIds \subseteq Nat /\ 0 \in SessionIds
      /\ \A n \in Nat : n =< MaxSessions => n \in SessionIds
  BY BoundsAssumption DEF SessionIds
<1>1. ASSUME NEW r \in Requests, NEW c \in Countries, Start(r, c) PROVE TypeOK'
  BY <1>1 DEF TypeOK, Start
<1>2. ASSUME NEW r \in Requests, Ensure(r) PROVE TypeOK'
  <2>1. CASE EnsureFast(r)
    BY <2>1 DEF TypeOK, EnsureFast
  <2>2. CASE UpdateCountry(r)
    BY <2>2 DEF TypeOK, UpdateCountry
  <2>3. CASE EnsureMiss(r)
    BY <2>3 DEF TypeOK, EnsureMiss
  <2>4. CASE EnsureLocked(r)
    BY <2>4 DEF TypeOK, EnsureLocked
  <2>5. CASE EnsureAllocate(r)
    BY <2>5, <1>s, <1>i DEF TypeOK, EnsureAllocate, Session
  <2>6. CASE EnsureExhausted(r)
    BY <2>6, <1>s, <1>i DEF TypeOK, EnsureExhausted
  <2>7. CASE EnsureReadFlag(r)
    BY <2>7 DEF TypeOK, EnsureReadFlag
  <2>8. CASE EnsureInsert(r)
    BY <2>8 DEF TypeOK, EnsureInsert
  <2> QED
    BY <1>2, <2>1, <2>2, <2>3, <2>4, <2>5, <2>6, <2>7, <2>8 DEF Ensure
<1>3. ASSUME NEW r \in Requests, Lease(r) PROVE TypeOK'
  <2>1. CASE ReadUrl(r)
    BY <2>1, <1>s, <1>i DEF TypeOK, ReadUrl
  <2>2. CASE AcquireDisabled(r)
    BY <2>2, <1>s, <1>i DEF TypeOK, AcquireDisabled
  <2>3. CASE AcquireHit(r)
    <3>1. PICK n \in DOMAIN idle : idle' = SubSeq(idle, 1, n - 1)
            /\ mine' = [mine EXCEPT ![r] = [sid |-> idle[n], country |-> active.country]]
      BY <2>3 DEF AcquireHit
    <3>2. idle' \in Seq(SessionIds)
      BY <3>1, PrefixType DEF TypeOK
    <3>3. idle[n] \in SessionIds
      BY <3>1, PrefixType DEF TypeOK
    <3>4. mine' \in [Procs -> Session]
      BY <3>1, <3>3 DEF TypeOK, Session
    <3>5. want' \in [Procs -> Countries]
      BY <2>3, <1>s DEF TypeOK, AcquireHit
    <3> QED
      BY <2>3, <3>2, <3>4, <3>5 DEF TypeOK, AcquireHit
  <2>4. CASE AcquireMiss(r)
    <3>1. want' \in [Procs -> Countries]
      BY <2>4, <1>s DEF TypeOK, AcquireMiss
    <3> QED
      BY <2>4, <1>s, <3>1 DEF TypeOK, AcquireMiss
  <2>5. CASE Established(r)
    BY <2>5 DEF TypeOK, Established
  <2>6. CASE EstablishFailed(r)
    BY SMTT(60), <2>6 DEF TypeOK, EstablishFailed
  <2>7. CASE SendOk(r)
    BY <2>7 DEF TypeOK, SendOk
  <2>8. CASE SendFailed(r)
    BY <2>8 DEF TypeOK, SendFailed
  <2>9. CASE GiveBack(r)
    BY <2>9 DEF TypeOK, GiveBack, Release, Message, Session
  <2>10. CASE Renew(r)
    BY <2>10, <1>s, <1>i DEF TypeOK, Renew
  <2>11. ASSUME NEW k \in {"return", "discard"}, BodyDropped(r, k) PROVE TypeOK'
    <3>1. Release(k, r) \in Seq(Message)
      <4>1. [kind |-> k, sid |-> mine[r].sid, pooled |-> pooled[r]] \in Message
        <5>1. mine[r].sid \in SessionIds
          BY DEF TypeOK, Session
        <5> QED
          BY <5>1 DEF TypeOK, Message
      <4> QED
        BY <4>1, AppendProperties DEF TypeOK, Release
    <3>2. releases' \in Seq(Message) /\ pooled' \in [Requests -> BOOLEAN]
      BY <2>11, <3>1 DEF TypeOK, BodyDropped
    <3>3. pc' \in [Procs -> RequestPCs \cup MaintainPCs \cup SwitchPCs]
      BY <2>11 DEF TypeOK, BodyDropped
    <3>4. mine' \in [Procs -> Session] /\ want' \in [Procs -> Countries]
      BY <2>11, <1>s DEF TypeOK, BodyDropped
    <3> QED
      BY <2>11, <3>2, <3>3, <3>4 DEF TypeOK, BodyDropped
  <2> QED
    BY <1>3, <2>1, <2>2, <2>3, <2>4, <2>5, <2>6, <2>7, <2>8, <2>9, <2>10, <2>11 DEF Lease, Send
<1>4. ASSUME NEW r \in Requests, Disconnect(r) PROVE TypeOK'
  BY <1>4, <1>s, <1>i DEF TypeOK, Disconnect
<1>5. ASSUME NEW p \in Procs, Switch(p) PROVE TypeOK'
  <2>1. CASE SwitchBegin(p)
    <3>1. choice' \in [session : Session, country : Countries]
      BY <2>1 DEF TypeOK, SwitchBegin
    <3>2. pc' \in [Procs -> RequestPCs \cup MaintainPCs \cup SwitchPCs]
      BY <2>1 DEF TypeOK, SwitchBegin
    <3> QED
      BY <2>1, <3>1, <3>2 DEF TypeOK, SwitchBegin
  <2>2. CASE SwitchCommit(p)
    BY <2>2 DEF TypeOK, SwitchCommit, Session
  <2>3. CASE SwitchCommitFresh(p)
    <3>1. sessions + 1 \in SessionIds
      BY <2>3, <1>s DEF TypeOK, SwitchCommitFresh, SessionIds
    <3>2. Fresh(choice.country) \in Session
      BY <3>1 DEF TypeOK, Session
    <3> QED
      BY <2>3, <3>1, <3>2 DEF TypeOK, SwitchCommitFresh
  <2>4. CASE SwitchFailed(p)
    BY <2>4, <1>s, <1>i DEF TypeOK, SwitchFailed, SwitchReturn
  <2>5. CASE SwitchInstall(p)
    <3>1. active' \in Session
      BY <2>5 DEF TypeOK, SwitchInstall, Session
    <3>2. idle' \in Seq(SessionIds) /\ standby' \in SUBSET Session
      <4>1. choice.session.sid \in SessionIds
        BY DEF TypeOK, Session
      <4>2. idle' = <<choice.session.sid>> \/ idle' = <<>>
        BY <2>5 DEF SwitchInstall
      <4>3. idle' \in Seq(SessionIds)
        BY <4>1, <4>2, SingletonType
      <4> QED
        BY <2>5, <4>3 DEF TypeOK, SwitchInstall
    <3>3. pc' \in [Procs -> RequestPCs \cup MaintainPCs \cup SwitchPCs]
      <4>1. after[p] \in RequestPCs \cup MaintainPCs \cup SwitchPCs
        BY DEF TypeOK
      <4>2. pc' = [pc EXCEPT ![p] = "idle"] \/ pc' = [pc EXCEPT ![p] = after[p]]
        BY <2>5 DEF SwitchInstall, SwitchReturn
      <4> QED
        BY <4>1, <4>2 DEF TypeOK
    <3>a. after' \in [Procs -> {"idle", "ready", "sending", "switch", "renew"}]
      BY <2>5 DEF TypeOK, SwitchInstall, SwitchReturn
    <3>4. mine' \in [Procs -> Session] /\ want' \in [Procs -> Countries]
      BY ZenonT(60), <2>5, <1>s, <1>i DEF TypeOK, SwitchInstall, SwitchReturn
    <3> QED
      BY <2>5, <3>1, <3>2, <3>3, <3>a, <3>4, <1>s, <1>i DEF TypeOK, SwitchInstall, SwitchReturn
  <2> QED
    BY <1>5, <2>1, <2>2, <2>3, <2>4, <2>5 DEF Switch
<1>6. ASSUME Cycle PROVE TypeOK'
  <2>1. CASE CycleBegin
    BY <2>1 DEF TypeOK, CycleBegin
  <2>2. CASE CycleDone
    <3>1. idle' \in Seq(SessionIds)
      BY <2>2, KeptType DEF TypeOK, CycleDone
    <3> QED
      BY <2>2, <3>1, <1>s, <1>i DEF TypeOK, CycleDone
  <2>3. CASE DisabledRenew
    BY <2>3, <1>s, <1>i DEF TypeOK, DisabledRenew, Session
  <2>4. CASE DisabledReinstall
    BY <2>4, <1>s, <1>i DEF TypeOK, DisabledReinstall
  <2>5. CASE ProbeMisplaced
    BY <2>5 DEF TypeOK, ProbeMisplaced, ProbeSwitch
  <2>6. CASE ProbeDone
    <3>1. idle' \in Seq(SessionIds)
      <4>1. active.sid \in SessionIds
        BY DEF TypeOK, Session
      <4>2. idle' = Append(idle, active.sid) \/ idle' = idle
        BY <2>6 DEF ProbeDone
      <4>3. Append(idle, active.sid) \in Seq(SessionIds)
        BY <4>1, AppendProperties DEF TypeOK
      <4> QED
        BY <4>2, <4>3 DEF TypeOK
    <3>2. pc' \in [Procs -> RequestPCs \cup MaintainPCs \cup SwitchPCs] /\ seen' \in SUBSET Session
      BY <2>6 DEF TypeOK, ProbeDone, ProbeSwitch
    <3> QED
      BY <2>6, <3>1, <3>2 DEF TypeOK, ProbeDone
  <2>7. CASE StandbySlots
    <3>1. PICK bad \in SUBSET seen, n \in 0..(MaxStandby - Cardinality(seen)) :
            /\ CanAllocate(n)
            /\ standby' = (standby \cup {[sid |-> sessions + i, country |-> want[Maintain]] : i \in 1..n})
                             \ bad
            /\ sessions' = sessions + n
      BY <2>7 DEF StandbySlots
    <3>2. n \in Nat
      BY <3>1
    <3>3. sessions' \in SessionIds
      BY <3>1, <3>2, <1>s, <1>i DEF TypeOK
    <3>4. standby' \in SUBSET Session
      <4>1. \A i \in 1..n : sessions + i \in SessionIds
        BY <3>1, <3>2, <1>s, <1>i DEF TypeOK
      <4>2. \A i \in 1..n : [sid |-> sessions + i, country |-> want[Maintain]] \in Session
        BY <4>1 DEF TypeOK, Session
      <4> QED
        BY <3>1, <4>2 DEF TypeOK
    <3> QED
      BY <2>7, <3>3, <3>4 DEF TypeOK, StandbySlots
  <2>8. CASE ChallengerWins
    BY <2>8, <1>s, <1>i DEF TypeOK, ChallengerWins, Session
  <2>9. CASE ChallengerLoses
    BY <2>9 DEF TypeOK, ChallengerLoses
  <2> QED
    BY <1>6, <2>1, <2>2, <2>3, <2>4, <2>5, <2>6, <2>7, <2>8, <2>9 DEF Cycle
<1>7. ASSUME Consume PROVE TypeOK'
  <2> DEFINE m == Head(releases)
  <2>1. m \in Message /\ releases' \in Seq(Message)
    BY <1>7 DEF TypeOK, Consume
  <2>2. idle' \in Seq(SessionIds)
    <3>1. m.sid \in SessionIds
      BY <2>1 DEF Message
    <3>2. idle' = Append(idle, m.sid) \/ idle' = idle
      BY <1>7 DEF Consume
    <3>3. Append(idle, m.sid) \in Seq(SessionIds)
      BY <3>1, AppendProperties DEF TypeOK
    <3> QED
      BY <3>2, <3>3 DEF TypeOK
  <2>3. checkedOut' \in Nat
    BY <1>7, <2>1 DEF TypeOK, Consume
  <2> QED
    BY <1>7, <2>1, <2>2, <2>3 DEF TypeOK, Consume
<1>8. ASSUME Toggle PROVE TypeOK'
  <2>1. ASSUME NEW b \in BOOLEAN, SetUserDisabled(b) PROVE TypeOK'
    BY <2>1 DEF TypeOK, SetUserDisabled
  <2>2. CASE DisableInPool
    <3>1. <<>> \in Seq(SessionIds)
      BY EmptySeq
    <3> QED
      BY <2>2, <3>1 DEF TypeOK, DisableInPool
  <2>3. CASE EnableInPool
    BY <2>3 DEF TypeOK, EnableInPool
  <2> QED
    BY <1>8, <2>1, <2>2, <2>3 DEF Toggle
<1>9. CASE WriteSnapshot
  BY <1>9, BoundsAssumption DEF TypeOK, WriteSnapshot, SessionIds
<1>10. CASE UNCHANGED vars
  BY <1>10 DEF TypeOK, vars
<1> QED
  BY <1>1, <1>2, <1>3, <1>4, <1>5, <1>6, <1>7, <1>8, <1>9, <1>10 DEF Next

(* ProxyPool is type-correct: no counter goes below zero, no session number is
   used before it is allocated, and no lock has a holder that is not a process. *)
THEOREM TypeCorrect == Spec => []TypeOK
<1>1. Init => TypeOK
  <2> SUFFICES ASSUME Init PROVE TypeOK
    OBVIOUS
  <2>1. /\ NoSession.country \in Countries /\ MaxSessions \in Nat
        /\ <<>> \in Seq(Message) /\ <<>> \in Seq(SessionIds)
          /\ 0 \in SessionIds
    BY NoSessionType, BoundsAssumption, EmptySeq DEF Session, SessionIds
  <2> QED
    BY NoSessionType, <2>1 DEF Init, TypeOK, RequestPCs, MaintainPCs, SwitchPCs
<1> QED
  BY <1>1, TypeStep, PTL DEF Spec

-----------------------------------------------------------------------------
(* A queue holds finitely many messages, a natural number of them pooled. *)
LEMMA PooledFinite ==
  ASSUME NEW s \in Seq(Message)
  PROVE  IsFiniteSet(PooledIn(s)) /\ Cardinality(PooledIn(s)) \in Nat
<1>1. PooledIn(s) \in SUBSET (1..Len(s)) /\ Len(s) \in Nat
  BY DEF PooledIn
<1>2. IsFiniteSet(1..Len(s))
  BY <1>1, FS_Interval
<1> QED
  BY <1>1, <1>2, FS_Subset, FS_CardinalityType

(* A message that enters the queue adds its slot, if it has one. *)
LEMMA PooledAppend ==
  ASSUME NEW s \in Seq(Message), NEW m \in Message
  PROVE  Cardinality(PooledIn(Append(s, m))) =
           IF m.pooled THEN Cardinality(PooledIn(s)) + 1 ELSE Cardinality(PooledIn(s))
<1> DEFINE t == Append(s, m)
<1>1. /\ DOMAIN s = 1..Len(s) /\ Len(s) \in Nat /\ DOMAIN t = 1..(Len(s) + 1)
      /\ \A i \in 1..Len(s) : t[i] = s[i]
      /\ t[Len(s) + 1] = m
  BY AppendProperties, LenProperties
<1>2. CASE m.pooled
  <2>1. PooledIn(t) = PooledIn(s) \cup {Len(s) + 1}
    BY <1>1, <1>2 DEF PooledIn
  <2>2. Len(s) + 1 \notin PooledIn(s)
    BY <1>1 DEF PooledIn
  <2> QED
    BY <1>2, <2>1, <2>2, PooledFinite, FS_AddElement
<1>3. CASE ~m.pooled
  <2>1. PooledIn(t) = PooledIn(s)
    BY <1>1, <1>3 DEF PooledIn
  <2> QED
    BY <1>3, <2>1
<1> QED
  BY <1>2, <1>3

(* A message that leaves the queue takes its slot with it, if it has one. *)
LEMMA PooledTail ==
  ASSUME NEW s \in Seq(Message), s # <<>>
  PROVE  Cardinality(PooledIn(s)) =
           IF Head(s).pooled THEN Cardinality(PooledIn(Tail(s))) + 1 ELSE Cardinality(PooledIn(Tail(s)))
<1> DEFINE A == PooledIn(Tail(s))
           B == PooledIn(s) \ {1}
           f == [i \in A |-> i + 1]
<1>1. /\ Len(s) \in Nat \ {0} /\ DOMAIN s = 1..Len(s) /\ DOMAIN Tail(s) = 1..(Len(s) - 1)
      /\ Tail(s) \in Seq(Message)
      /\ \A i \in 1..(Len(s) - 1) : Tail(s)[i] = s[i + 1]
      /\ Head(s) = s[1]
  BY HeadTailProperties, LenProperties, EmptySeq
<1>2. f \in [A -> B]
  BY <1>1 DEF PooledIn
<1>3. \A i, j \in A : f[i] = f[j] => i = j
  BY <1>1 DEF PooledIn
<1>4. \A k \in B : \E i \in A : f[i] = k
  <2>1. TAKE k \in B
  <2>2. k \in 2..Len(s) /\ s[k].pooled
    BY <1>1 DEF PooledIn
  <2>3. k - 1 \in A
    BY <1>1, <2>2 DEF PooledIn
  <2>4. f[k - 1] = k
    BY <2>2, <2>3
  <2> QED
    BY <2>3, <2>4
<1>5. f \in Bijection(A, B)
  BY <1>2, <1>3, <1>4, Fun_IsBij
<1>6. Cardinality(B) = Cardinality(A)
  <2>1. IsFiniteSet(A) /\ ExistsBijection(A, B)
    BY <1>1, <1>5, PooledFinite DEF ExistsBijection
  <2> QED
    BY <2>1, FS_Bijection
<1>7. Cardinality(B) = IF 1 \in PooledIn(s) THEN Cardinality(PooledIn(s)) - 1
                                            ELSE Cardinality(PooledIn(s))
  BY PooledFinite, FS_RemoveElement
<1>8. 1 \in PooledIn(s) <=> Head(s).pooled
  BY <1>1 DEF PooledIn
<1>9. Cardinality(PooledIn(s)) \in Nat /\ Cardinality(A) \in Nat
  BY <1>1, PooledFinite
<1> QED
  BY <1>6, <1>7, <1>8, <1>9

(* The requests that hold a slot. *)
Holders == {r \in Requests : pooled[r]}

(* A request that changes its is_pooled adds or removes one holder. *)
LEMMA HoldersChange ==
  ASSUME TypeOK, NEW r \in Requests, NEW b \in BOOLEAN, pooled' = [pooled EXCEPT ![r] = b]
  PROVE  /\ Cardinality(Holders) \in Nat /\ Cardinality(Holders') \in Nat
         /\ b = pooled[r] => Cardinality(Holders') = Cardinality(Holders)
         /\ b /\ ~pooled[r] => Cardinality(Holders') = Cardinality(Holders) + 1
         /\ ~b /\ pooled[r] => Cardinality(Holders') = Cardinality(Holders) - 1
<1>1. IsFiniteSet(Holders)
  BY RequestsAssumption, FS_Subset DEF Holders
<1>2. CASE b = pooled[r]
  <2>1. Holders' = Holders
    BY <1>2 DEF Holders, TypeOK
  <2> QED
    BY <1>1, <1>2, <2>1, FS_CardinalityType
<1>3. CASE b /\ ~pooled[r]
  <2>1. Holders' = Holders \cup {r} /\ r \notin Holders
    BY <1>3 DEF Holders, TypeOK
  <2> QED
    BY <1>1, <1>3, <2>1, FS_AddElement, FS_CardinalityType
<1>4. CASE ~b /\ pooled[r]
  <2>1. Holders' = Holders \ {r} /\ r \in Holders
    BY <1>4 DEF Holders, TypeOK
  <2> QED
    BY <1>1, <1>4, <2>1, FS_RemoveElement, FS_CardinalityType
<1> QED
  BY <1>2, <1>3, <1>4 DEF TypeOK

-----------------------------------------------------------------------------
(* Where a request can be before the account has an entry, while it creates
   one, and while it holds a slot. *)
Creating == {"allocate", "readFlag", "insert", "insertDisabled"}
Before == {"idle", "ensure", "ensureLock"} \cup Creating
Holding == {"establish", "giveBack", "sending", "streaming", "gone"}

(* The creator holds the ensure_lock and finds no entry; before the entry
   exists nothing of it is in use; only a request on its way holds a slot. *)
CreatorInv == \A r \in Requests : pc[r] \in Creating => ensureLock = r /\ ~present
AbsentInv == ~present => /\ \A r \in Requests : pc[r] \in Before
                         /\ pc[Maintain] = "idle"
                         /\ releases = <<>> /\ checkedOut = 0
HolderInv == \A r \in Requests : pooled[r] => pc[r] \in Holding
EntryInv == CreatorInv /\ AbsentInv /\ HolderInv

(* Only the holder of the ensure_lock creates the entry, and creates it once. *)
LEMMA EntryStep == TypeOK /\ EntryInv /\ [Next]_vars => EntryInv'
<1> SUFFICES ASSUME TypeOK, EntryInv, [Next]_vars PROVE EntryInv'
  OBVIOUS
<1> USE ProcessAssumption
    DEF Goto, Leave, Free, Procs, entryVars, fileVars, sharedVars, localVars,
        EntryInv, CreatorInv, AbsentInv, HolderInv, Creating, Before, Holding
<1>1. ASSUME NEW r \in Requests, NEW c \in Countries, Start(r, c) PROVE EntryInv'
  BY <1>1 DEF TypeOK, Start
<1>2. ASSUME NEW r \in Requests, Ensure(r) PROVE EntryInv'
  <2>1. CASE EnsureFast(r)
    BY <2>1 DEF TypeOK, EnsureFast
  <2>2. CASE UpdateCountry(r)
    BY <2>2 DEF TypeOK, UpdateCountry
  <2>3. CASE EnsureMiss(r)
    BY <2>3 DEF TypeOK, EnsureMiss
  <2>4. CASE EnsureLocked(r)
    BY <2>4 DEF TypeOK, EnsureLocked
  <2>5. CASE EnsureAllocate(r)
    BY <2>5 DEF TypeOK, EnsureAllocate
  <2>6. CASE EnsureExhausted(r)
    BY <2>6 DEF TypeOK, EnsureExhausted
  <2>7. CASE EnsureReadFlag(r)
    BY <2>7 DEF TypeOK, EnsureReadFlag
  <2>8. CASE EnsureInsert(r)
    BY <2>8 DEF TypeOK, EnsureInsert
  <2> QED
    BY <1>2, <2>1, <2>2, <2>3, <2>4, <2>5, <2>6, <2>7, <2>8 DEF Ensure
<1>3. ASSUME NEW r \in Requests, Lease(r) PROVE EntryInv'
  <2>1. CASE ReadUrl(r)
    BY <2>1 DEF TypeOK, ReadUrl
  <2>2. CASE AcquireDisabled(r)
    BY <2>2 DEF TypeOK, AcquireDisabled
  <2>3. CASE AcquireHit(r)
    BY <2>3 DEF TypeOK, AcquireHit
  <2>4. CASE AcquireMiss(r)
    BY <2>4 DEF TypeOK, AcquireMiss
  <2>5. CASE Established(r)
    BY <2>5 DEF TypeOK, Established
  <2>6. CASE EstablishFailed(r)
    BY <2>6 DEF TypeOK, EstablishFailed
  <2>7. CASE SendOk(r)
    BY <2>7 DEF TypeOK, SendOk
  <2>8. CASE SendFailed(r)
    BY <2>8 DEF TypeOK, SendFailed
  <2>9. CASE GiveBack(r)
    BY <2>9 DEF TypeOK, GiveBack
  <2>10. CASE Renew(r)
    BY <2>10 DEF TypeOK, Renew
  <2>11. ASSUME NEW k \in {"return", "discard"}, BodyDropped(r, k) PROVE EntryInv'
    BY SMTT(60), <2>11 DEF TypeOK, BodyDropped
  <2> QED
    BY <1>3, <2>1, <2>2, <2>3, <2>4, <2>5, <2>6, <2>7, <2>8, <2>9, <2>10, <2>11 DEF Lease, Send
<1>4. ASSUME NEW r \in Requests, Disconnect(r) PROVE EntryInv'
  BY <1>4 DEF TypeOK, Disconnect
<1>5. ASSUME NEW p \in Procs, Switch(p) PROVE EntryInv'
  <2>1. CASE SwitchBegin(p)
    BY <2>1 DEF TypeOK, SwitchBegin, SwitchReturn
  <2>2. CASE SwitchCommit(p)
    BY <2>2 DEF TypeOK, SwitchCommit, SwitchReturn
  <2>3. CASE SwitchCommitFresh(p)
    BY <2>3 DEF TypeOK, SwitchCommitFresh, SwitchReturn
  <2>4. CASE SwitchFailed(p)
    BY <2>4 DEF TypeOK, SwitchFailed, SwitchReturn
  <2>5. CASE SwitchInstall(p)
    BY <2>5 DEF TypeOK, SwitchInstall, SwitchReturn
  <2> QED
    BY <1>5, <2>1, <2>2, <2>3, <2>4, <2>5 DEF Switch
<1>6. ASSUME Cycle PROVE EntryInv'
  BY SMTT(60), <1>6 DEF TypeOK, Cycle, CycleBegin, CycleDone, DisabledRenew,
    DisabledReinstall, ProbeMisplaced,
              ProbeDone, ProbeSwitch, StandbySlots, ChallengerWins, ChallengerLoses
<1>7. ASSUME Consume PROVE EntryInv'
  BY <1>7 DEF TypeOK, Consume
<1>8. ASSUME Toggle PROVE EntryInv'
  <2>1. ASSUME NEW b \in BOOLEAN, SetUserDisabled(b) PROVE EntryInv'
    BY <2>1 DEF SetUserDisabled
  <2>2. CASE DisableInPool
    BY <2>2 DEF DisableInPool
  <2>3. CASE EnableInPool
    BY <2>3 DEF EnableInPool
  <2> QED
    BY <1>8, <2>1, <2>2, <2>3 DEF Toggle
<1>9. CASE WriteSnapshot \/ UNCHANGED vars
  BY <1>9 DEF WriteSnapshot, vars
<1> QED
  BY <1>1, <1>2, <1>3, <1>4, <1>5, <1>6, <1>7, <1>8, <1>9 DEF Next

(* The count follows the holders and the slots in the queue. *)
LEMMA SlotStep == TypeOK /\ EntryInv /\ SlotAccounting /\ [Next]_vars => SlotAccounting'
<1> SUFFICES ASSUME TypeOK, EntryInv, SlotAccounting, [Next]_vars PROVE SlotAccounting'
  OBVIOUS
<1> DEFINE queued == Cardinality(PooledIn(releases))
<1>a. SlotAccounting <=> checkedOut = Cardinality(Holders) + queued
  BY DEF SlotAccounting, Holders
<1>b. SlotAccounting' <=> checkedOut' = Cardinality(Holders') + queued'
  BY DEF SlotAccounting, Holders
<1>c. /\ IsFiniteSet(Holders) /\ Cardinality(Holders) \in Nat
      /\ queued \in Nat
  BY RequestsAssumption, FS_Subset, FS_CardinalityType, PooledFinite DEF Holders, TypeOK
<1>s. UNCHANGED <<checkedOut, releases, pooled>> => SlotAccounting'
  BY DEF SlotAccounting
<1> USE DEF entryVars, fileVars, sharedVars, localVars
<1>1. ASSUME NEW r \in Requests, NEW c \in Countries, Start(r, c) PROVE SlotAccounting'
  BY <1>1, <1>s DEF Start
<1>2. ASSUME NEW r \in Requests, Ensure(r) PROVE SlotAccounting'
  <2>1. CASE EnsureInsert(r)
    <3>1. ~present
      BY <2>1 DEF EnsureInsert, EntryInv, CreatorInv, Creating
    <3>2. releases = <<>> /\ checkedOut = 0
      BY <3>1 DEF EntryInv, AbsentInv
    <3>3. checkedOut' = 0 /\ UNCHANGED <<releases, pooled>>
      BY <2>1 DEF EnsureInsert
    <3> QED
      BY <3>2, <3>3, <1>s
  <2>2. CASE ~EnsureInsert(r)
    BY <1>2, <2>2, <1>s DEF Ensure, EnsureFast, UpdateCountry, EnsureMiss, EnsureLocked,
                            EnsureAllocate, EnsureExhausted, EnsureReadFlag
  <2> QED
    BY <2>1, <2>2
<1>3. ASSUME NEW r \in Requests, Lease(r) PROVE SlotAccounting'
  <2>1. CASE AcquireHit(r)
    <3>1. pooled' = [pooled EXCEPT ![r] = TRUE] /\ ~pooled[r]
      BY <2>1 DEF AcquireHit, EntryInv, HolderInv, Holding
    <3>2. Cardinality(Holders') = Cardinality(Holders) + 1
      BY <3>1, HoldersChange
    <3> QED
      BY <2>1, <3>2, <1>a, <1>b, <1>c DEF AcquireHit, TypeOK
  <2>2. CASE AcquireMiss(r)
    <3>1. /\ pooled' = [pooled EXCEPT ![r] = checkedOut < MaxConns]
          /\ (checkedOut < MaxConns) \in BOOLEAN /\ ~pooled[r]
          /\ checkedOut' = IF checkedOut < MaxConns THEN checkedOut + 1 ELSE checkedOut
          /\ releases' = releases
      BY <2>2 DEF AcquireMiss, EntryInv, HolderInv, Holding
    <3>2. Cardinality(Holders') = IF checkedOut < MaxConns THEN Cardinality(Holders) + 1
                                                          ELSE Cardinality(Holders)
      <4>1. CASE checkedOut < MaxConns
        BY <3>1, <4>1, HoldersChange
      <4>2. CASE ~(checkedOut < MaxConns)
        <5>1. pooled[r] = FALSE
          BY <3>1 DEF TypeOK
        <5> QED
          BY <3>1, <4>2, <5>1, HoldersChange
      <4> QED
        BY <4>1, <4>2
    <3> QED
      BY <3>1, <3>2, <1>a, <1>b, <1>c DEF TypeOK
  <2>3. ASSUME NEW k \in {"return", "discard"}, pooled' = [pooled EXCEPT ![r] = FALSE],
               releases' = Release(k, r), checkedOut' = checkedOut
        PROVE  SlotAccounting'
    <3> DEFINE m == [kind |-> k, sid |-> mine[r].sid, pooled |-> pooled[r]]
    <3>1. m \in Message
      <4>1. mine[r].sid \in SessionIds
        BY DEF TypeOK, Session, Procs
      <4> QED
        BY <4>1 DEF TypeOK, Message
    <3>2. queued' = IF pooled[r] THEN queued + 1 ELSE queued
      <4>1. releases' = Append(releases, m)
        BY <2>3 DEF Release
      <4> HIDE DEF m
      <4>2. Cardinality(PooledIn(Append(releases, m))) =
              IF m.pooled THEN Cardinality(PooledIn(releases)) + 1 ELSE Cardinality(PooledIn(releases))
        BY <3>1, PooledAppend DEF TypeOK
      <4>3. m.pooled = pooled[r]
        BY DEF m
      <4> QED
        BY <4>1, <4>2, <4>3
    <3>3. Cardinality(Holders') = IF pooled[r] THEN Cardinality(Holders) - 1 ELSE Cardinality(Holders)
      <4>1. pooled[r] \in BOOLEAN
        BY DEF TypeOK
      <4> QED
        BY <2>3, <4>1, HoldersChange
    <3> QED
      BY <2>3, <3>2, <3>3, <1>a, <1>b, <1>c
  <2>4. CASE GiveBack(r)
    BY <2>4, <2>3 DEF GiveBack
  <2>5. ASSUME NEW k \in {"return", "discard"}, BodyDropped(r, k) PROVE SlotAccounting'
    BY <2>5, <2>3, <1>s DEF BodyDropped
  <2> QED
    BY <1>3, <2>1, <2>2, <2>4, <2>5, <1>s
    DEF Lease, Send, ReadUrl, AcquireDisabled, Established, EstablishFailed, SendOk, SendFailed, Renew
<1>4. ASSUME NEW r \in Requests, Disconnect(r) PROVE SlotAccounting'
  BY <1>4, <1>s DEF Disconnect
<1>5. ASSUME NEW p \in Procs, Switch(p) PROVE SlotAccounting'
  BY <1>5, <1>s DEF Switch, SwitchBegin, SwitchCommit, SwitchCommitFresh, SwitchFailed,
    SwitchInstall
<1>6. ASSUME Cycle PROVE SlotAccounting'
  BY <1>6, <1>s DEF Cycle, CycleBegin, CycleDone, DisabledRenew, DisabledReinstall,
    ProbeMisplaced,
                    ProbeDone, ProbeSwitch, StandbySlots, ChallengerWins, ChallengerLoses
<1>7. ASSUME Consume PROVE SlotAccounting'
  <2> DEFINE m == Head(releases)
  <2>1. releases # <<>> /\ releases' = Tail(releases) /\ pooled' = pooled
        /\ checkedOut' = IF m.pooled /\ checkedOut > 0 THEN checkedOut - 1 ELSE checkedOut
    BY <1>7 DEF Consume
  <2>2. queued = (IF m.pooled THEN queued' + 1 ELSE queued') /\ queued' \in Nat
    BY <2>1, PooledTail, PooledFinite, HeadTailProperties DEF TypeOK
  <2>3. Holders' = Holders
    BY <2>1 DEF Holders
  <2> QED
    BY <2>1, <2>2, <2>3, <1>a, <1>b, <1>c DEF TypeOK
<1>8. ASSUME Toggle PROVE SlotAccounting'
  BY <1>8, <1>s DEF Toggle, SetUserDisabled, DisableInPool, EnableInPool
<1>9. CASE WriteSnapshot \/ UNCHANGED vars
  BY <1>9, <1>s DEF WriteSnapshot, vars
<1> QED
  BY <1>1, <1>2, <1>3, <1>4, <1>5, <1>6, <1>7, <1>8, <1>9 DEF Next

(* No slot is lost or counted twice: checked_out is the number of requests that
   hold one plus the slots under way in the release channel, so the test
   checked_out = 0 in release_consumer_loop never hides an underflow. *)
THEOREM SlotsAccounted == Spec => []SlotAccounting
<1>1. Init => EntryInv
  BY DEF Init, EntryInv, CreatorInv, AbsentInv, HolderInv, Creating, Before, Procs
<1>2. Init => SlotAccounting
  <2> SUFFICES ASSUME Init PROVE SlotAccounting
    OBVIOUS
  <2>1. {r \in Requests : pooled[r]} = {} /\ PooledIn(releases) = {} /\ checkedOut = 0
    BY DEF Init, PooledIn
  <2> QED
    BY <2>1, FS_EmptySet DEF SlotAccounting
<1> QED
  BY <1>1, <1>2, TypeCorrect, EntryStep, SlotStep, PTL DEF Spec

-----------------------------------------------------------------------------
(* An ensure_proxy that read "enabled" and has not inserted yet keeps a later
   disable waiting; a toggle that waits agrees with the account file. *)
ToggleInv ==
  /\ \A r \in Requests : pc[r] = "insert" /\ userDisabled => toggle = "disable"
  /\ toggle = "enable" => ~userDisabled
  /\ toggle = "disable" => userDisabled

(* The toggle and the entry stay in step. *)
LEMMA ToggleStep ==
  TypeOK /\ EntryInv /\ ToggleInv /\ DisableSticks /\ [Next]_vars => ToggleInv' /\ DisableSticks'
<1> SUFFICES ASSUME TypeOK, EntryInv, ToggleInv, DisableSticks, [Next]_vars
             PROVE  ToggleInv' /\ DisableSticks'
  OBVIOUS
<1> USE ProcessAssumption
    DEF Goto, Leave, Procs, entryVars, fileVars, sharedVars, localVars, ToggleInv, DisableSticks
<1>s. ASSUME UNCHANGED <<present, disabled, userDisabled, toggle>>,
             \A r \in Requests : pc'[r] = "insert" => pc[r] = "insert"
      PROVE  ToggleInv' /\ DisableSticks'
  BY <1>s
<1>1. ASSUME NEW r \in Requests, NEW c \in Countries, Start(r, c) PROVE ToggleInv' /\ DisableSticks'
  BY <1>1, <1>s DEF Start, TypeOK
<1>2. ASSUME NEW r \in Requests, Ensure(r) PROVE ToggleInv' /\ DisableSticks'
  <2>1. CASE EnsureReadFlag(r)
    BY <2>1 DEF EnsureReadFlag, TypeOK
  <2>2. CASE EnsureInsert(r)
    BY <2>2 DEF EnsureInsert, TypeOK
  <2>3. CASE ~EnsureReadFlag(r) /\ ~EnsureInsert(r)
    BY <1>2, <2>3, <1>s DEF Ensure, EnsureFast, UpdateCountry, EnsureMiss, EnsureLocked,
                            EnsureAllocate, EnsureExhausted, TypeOK
  <2> QED
    BY <2>1, <2>2, <2>3
<1>3. ASSUME NEW r \in Requests, Lease(r) PROVE ToggleInv' /\ DisableSticks'
  BY <1>3, <1>s DEF Lease, Send, ReadUrl, AcquireDisabled, AcquireHit, AcquireMiss, Established,
                    EstablishFailed, SendOk, SendFailed, GiveBack, Renew, BodyDropped, TypeOK
<1>4. ASSUME NEW r \in Requests, Disconnect(r) PROVE ToggleInv' /\ DisableSticks'
  BY <1>4, <1>s DEF Disconnect, TypeOK
<1>5. ASSUME NEW p \in Procs, Switch(p) PROVE ToggleInv' /\ DisableSticks'
  BY <1>5, <1>s DEF Switch, SwitchBegin, SwitchCommit, SwitchCommitFresh, SwitchFailed,
                    SwitchInstall, SwitchReturn, TypeOK
<1>6. ASSUME Cycle PROVE ToggleInv' /\ DisableSticks'
  BY <1>6, <1>s DEF Cycle, CycleBegin, CycleDone, DisabledRenew, DisabledReinstall,
    ProbeMisplaced,
                    ProbeDone, ProbeSwitch, StandbySlots, ChallengerWins, ChallengerLoses, TypeOK
<1>7. ASSUME Consume PROVE ToggleInv' /\ DisableSticks'
  BY <1>7, <1>s DEF Consume
<1>8. ASSUME Toggle PROVE ToggleInv' /\ DisableSticks'
  <2>1. ASSUME NEW b \in BOOLEAN, SetUserDisabled(b) PROVE ToggleInv' /\ DisableSticks'
    BY <2>1 DEF SetUserDisabled
  <2>2. CASE DisableInPool
    <3>1. \A r \in Requests : pc[r] # "insert"
      BY <2>2 DEF DisableInPool, EntryInv, CreatorInv, Creating
    <3> QED
      BY <2>2, <3>1 DEF DisableInPool
  <2>3. CASE EnableInPool
    BY <2>3 DEF EnableInPool
  <2> QED
    BY <1>8, <2>1, <2>2, <2>3 DEF Toggle
<1>9. CASE WriteSnapshot \/ UNCHANGED vars
  BY <1>9, <1>s DEF WriteSnapshot, vars
<1> QED
  BY <1>1, <1>2, <1>3, <1>4, <1>5, <1>6, <1>7, <1>8, <1>9 DEF Next

(* A disabled account never comes back to life through the pool: whatever
   disable_in_pool and ensure_proxy interleave, once the toggle is routed the
   entry is disabled or absent. *)
THEOREM DisableAlwaysSticks == Spec => []DisableSticks
<1>1. Init => EntryInv /\ ToggleInv /\ DisableSticks
  BY DEF Init, EntryInv, CreatorInv, AbsentInv, HolderInv, Creating, Before, Procs, ToggleInv,
         DisableSticks
<1> QED
  BY <1>1, TypeCorrect, EntryStep, ToggleStep, PTL DEF Spec

-----------------------------------------------------------------------------
(* What idle connections and the account file say of the active session, as long as the *)
(* IP service in use reports no country (the ipify setting).  With one that does, the   *)
(* renewal of a disabled account replaces the session without the switch_lock.          *)

(* Without a reported country no session is found misplaced. *)
LEMMA NeverMisplaced == ASSUME ~GeoReports PROVE ~Misplaced
BY DEF Misplaced

(* ... so the disabled renewal never runs. *)
NoReinstall == pc[Maintain] # "reinstall"

(* No step but DisabledRenew leads to a reinstallation. *)
LEMMA ReinstallStep == ASSUME ~GeoReports, TypeOK, NoReinstall, [Next]_vars PROVE NoReinstall'
<1> USE ProcessAssumption
    DEF Goto, Leave, Procs, NoReinstall, entryVars, fileVars, sharedVars, localVars
<1>1. ASSUME NEW r \in Requests, NEW c \in Countries, Start(r, c) PROVE NoReinstall'
  BY <1>1 DEF Start, TypeOK
<1>2. ASSUME NEW r \in Requests, Ensure(r) \/ Lease(r) \/ Disconnect(r) PROVE NoReinstall'
  <2>1. pc'[Maintain] = pc[Maintain]
    BY <1>2 DEF Ensure, EnsureFast, UpdateCountry, EnsureMiss, EnsureLocked, EnsureAllocate,
                EnsureExhausted, EnsureReadFlag, EnsureInsert, Lease, Send, ReadUrl, AcquireDisabled,
                AcquireHit, AcquireMiss, Established, EstablishFailed, SendOk, SendFailed, GiveBack,
                Renew, BodyDropped, Disconnect, TypeOK
  <2> QED
    BY <2>1
<1>3. ASSUME NEW p \in Procs, Switch(p) PROVE NoReinstall'
  BY <1>3 DEF Switch, SwitchBegin, SwitchCommit, SwitchCommitFresh, SwitchFailed,
              SwitchInstall, SwitchReturn, TypeOK
<1>4. ASSUME Cycle PROVE NoReinstall'
  BY <1>4, NeverMisplaced DEF Cycle, CycleBegin, CycleDone, DisabledRenew, DisabledReinstall,
              ProbeMisplaced, ProbeDone, ProbeSwitch, StandbySlots, ChallengerWins,
              ChallengerLoses, TypeOK
<1>5. CASE Consume \/ Toggle \/ WriteSnapshot
  BY <1>5 DEF Consume, Toggle, SetUserDisabled, DisableInPool, EnableInPool, WriteSnapshot
<1>6. CASE UNCHANGED vars
  BY <1>6 DEF vars
<1> QED
  BY <1>1, <1>2, <1>3, <1>4, <1>5, <1>6 DEF Next

-----------------------------------------------------------------------------
(* Each step that changes the active session replaces the idle connections. *)
LEMMA IdleStep ==
  ASSUME TypeOK, NoReinstall, IdleOnActive, [Next]_vars PROVE IdleOnActive'
<1> USE DEF IdleOnActive, entryVars, fileVars, sharedVars, localVars
<1>s. UNCHANGED <<active, idle>> => IdleOnActive'
  OBVIOUS
<1>e. \A i \in DOMAIN <<>> : FALSE
  OBVIOUS
<1>1. ASSUME NEW r \in Requests, NEW c \in Countries, Start(r, c) PROVE IdleOnActive'
  BY <1>1, <1>s DEF Start
<1>2. ASSUME NEW r \in Requests, Ensure(r) PROVE IdleOnActive'
  <2>1. CASE EnsureInsert(r)
    BY <2>1, <1>e DEF EnsureInsert
  <2>2. CASE ~EnsureInsert(r)
    BY <1>2, <2>2, <1>s DEF Ensure, EnsureFast, UpdateCountry, EnsureMiss, EnsureLocked,
                            EnsureAllocate, EnsureExhausted, EnsureReadFlag
  <2> QED
    BY <2>1, <2>2
<1>3. ASSUME NEW r \in Requests, Lease(r) PROVE IdleOnActive'
  <2>1. CASE AcquireHit(r)
    <3>1. PICK n \in DOMAIN idle : idle' = SubSeq(idle, 1, n - 1)
      BY <2>1 DEF AcquireHit
    <3>2. n \in 1..Len(idle) /\ idle \in Seq(SessionIds)
      BY DEF TypeOK
    <3>3. DOMAIN idle' = 1..(n - 1) /\ \A i \in 1..(n - 1) : idle'[i] = idle[i] /\ i \in DOMAIN idle
      BY <3>1, <3>2
    <3> QED
      BY <2>1, <3>3 DEF AcquireHit
  <2>2. CASE AcquireMiss(r)
    BY <2>2, <1>e DEF AcquireMiss
  <2>3. CASE ~AcquireHit(r) /\ ~AcquireMiss(r)
    BY <1>3, <2>3, <1>s DEF Lease, Send, ReadUrl, AcquireDisabled, Established, EstablishFailed,
      SendOk,
                            SendFailed, GiveBack, Renew, BodyDropped
  <2> QED
    BY <2>1, <2>2, <2>3
<1>4. ASSUME NEW r \in Requests, Disconnect(r) PROVE IdleOnActive'
  BY <1>4, <1>s DEF Disconnect
<1>5. ASSUME NEW p \in Procs, Switch(p) PROVE IdleOnActive'
  <2>1. CASE SwitchInstall(p)
    <3>1. \/ idle' = <<choice.session.sid>> /\ active' = choice.session
          \/ idle' = <<>>
      BY <2>1 DEF SwitchInstall
    <3> QED
      BY <3>1, <1>e
  <2>2. CASE ~SwitchInstall(p)
    BY <1>5, <2>2, <1>s DEF Switch, SwitchBegin, SwitchCommit, SwitchCommitFresh, SwitchFailed
  <2> QED
    BY <2>1, <2>2
<1>a. ASSUME NEW x, x = active.sid, idle' = Append(idle, x), active' = active PROVE IdleOnActive'
  <2>1. /\ DOMAIN idle' = 1..(Len(idle) + 1) /\ DOMAIN idle = 1..Len(idle) /\ Len(idle) \in Nat
        /\ \A i \in 1..Len(idle) : idle'[i] = idle[i]
        /\ idle'[Len(idle) + 1] = x
    BY <1>a DEF TypeOK
  <2> QED
    BY <1>a, <2>1
<1>6. ASSUME Cycle PROVE IdleOnActive'
  <2>1. CASE CycleDone
    <3>1. idle' \in Kept(idle) \/ idle' = idle
      BY <2>1 DEF CycleDone
    <3>2. \A i \in DOMAIN idle' : \E j \in DOMAIN idle : idle'[i] = idle[j]
      BY <3>1, KeptType DEF TypeOK
    <3> QED
      BY <2>1, <3>2 DEF CycleDone
  <2>2. CASE ProbeDone
    BY <2>2, <1>a, <1>s DEF ProbeDone
  <2>3. CASE ~CycleDone /\ ~ProbeDone
    BY <1>6, <2>3, <1>s DEF Cycle, CycleBegin, DisabledRenew, DisabledReinstall, NoReinstall,
                            ProbeMisplaced, StandbySlots, ChallengerWins, ChallengerLoses
  <2> QED
    BY <2>1, <2>2, <2>3
<1>7. ASSUME Consume PROVE IdleOnActive'
  BY <1>7, <1>a, <1>s DEF Consume
<1>8. ASSUME Toggle PROVE IdleOnActive'
  <2>1. CASE DisableInPool
    BY <2>1, <1>e, <1>s DEF DisableInPool
  <2>2. CASE ~DisableInPool
    BY <1>8, <2>2, <1>s DEF Toggle, SetUserDisabled, EnableInPool
  <2> QED
    BY <2>1, <2>2
<1>9. CASE WriteSnapshot \/ UNCHANGED vars
  BY <1>9, <1>s DEF WriteSnapshot, vars
<1> QED
  BY <1>1, <1>2, <1>3, <1>4, <1>5, <1>6, <1>7, <1>8, <1>9 DEF Next

(* A connection that acquire takes from idle_conns is always one of the active
   session: no release, probe or switch that raced leaves another one there. *)
THEOREM IdleAlwaysOnActive == ASSUME ~GeoReports PROVE Spec => []IdleOnActive
<1>1. Init => NoReinstall /\ IdleOnActive
  BY DEF Init, NoReinstall, IdleOnActive, Procs
<1>2. TypeOK /\ NoReinstall /\ IdleOnActive /\ [Next]_vars => NoReinstall' /\ IdleOnActive'
  BY ReinstallStep, IdleStep
<1> QED
  BY <1>1, <1>2, TypeCorrect, PTL DEF Spec

-----------------------------------------------------------------------------
(* Where a process holds the switch_lock, and where it has committed a session
   that it has not installed yet. *)
Committed == {"install", "installFresh"}
Switching == {"commit", "commitFresh"} \cup Committed

LockedInv == \A p \in Procs : pc[p] \in Switching <=> switchLock = p
ActiveInv == present /\ (\A p \in Procs : pc[p] \notin Committed) => persisted \in {0, active.sid}
CommitInv == \A p \in Procs : pc[p] \in Committed => persisted \in {0, choice.session.sid}
CreatedInv == \A r \in Requests :
                pc[r] \in {"readFlag", "insert", "insertDisabled"} => persisted \in {0, mine[r].sid}
FileInv == LockedInv /\ ActiveInv /\ CommitInv /\ CreatedInv

(* The account file runs ahead of the entry only inside a switch or a creation. *)
LEMMA FileStep ==
  ASSUME ~GeoReports, ~Disconnects, TypeOK, EntryInv, NoReinstall, FileInv, [Next]_vars
  PROVE  FileInv'
<1> USE ProcessAssumption
    DEF Goto, Leave, Procs, entryVars, fileVars, sharedVars, localVars,
        FileInv, LockedInv, ActiveInv, CommitInv, CreatedInv, Switching, Committed
<1>s. ASSUME NEW p \in Procs,
             UNCHANGED <<present, active, persisted, switchLock, choice>>,
             \E l : pc' = [pc EXCEPT ![p] = l] /\ l \notin Switching
                   /\ (p \in Requests => l \notin {"readFlag", "insert", "insertDisabled"}),
             pc[p] \notin Switching,
             \A q \in Procs : q # p => mine'[q] = mine[q]
      PROVE  FileInv'
  BY <1>s DEF TypeOK
<1>1. ASSUME NEW r \in Requests, NEW c \in Countries, Start(r, c) PROVE FileInv'
  BY <1>1, <1>s DEF Start, TypeOK
<1>2. ASSUME NEW r \in Requests, Ensure(r) PROVE FileInv'
  <2>1. CASE EnsureAllocate(r)
    <3>1. /\ ~present /\ \A q \in Procs : pc[q] \notin Switching
          /\ \A q \in Requests : pc[q] \in {"readFlag", "insert", "insertDisabled"} => q = r
      BY <2>1 DEF EnsureAllocate, EntryInv, CreatorInv, AbsentInv, Creating, Before
    <3> QED
      BY <2>1, <3>1 DEF EnsureAllocate, Fresh, TypeOK
  <2>2. CASE EnsureReadFlag(r)
    BY <2>2 DEF EnsureReadFlag, TypeOK
  <2>3. CASE EnsureInsert(r)
    <3>1. /\ ~present /\ \A q \in Procs : pc[q] \notin Switching
          /\ \A q \in Requests : pc[q] \in {"readFlag", "insert", "insertDisabled"} => q = r
      BY <2>3 DEF EnsureInsert, EntryInv, CreatorInv, AbsentInv, Creating, Before
    <3> QED
      BY <2>3, <3>1 DEF EnsureInsert, TypeOK
  <2>4. CASE EnsureFast(r) \/ UpdateCountry(r) \/ EnsureMiss(r) \/ EnsureLocked(r)
    BY <2>4, <1>s DEF EnsureFast, UpdateCountry, EnsureMiss, EnsureLocked, TypeOK
  <2>5. CASE EnsureExhausted(r)
    BY <2>5, <1>s DEF EnsureExhausted, TypeOK
  <2> QED
    BY <1>2, <2>1, <2>2, <2>3, <2>4, <2>5 DEF Ensure
<1>3. ASSUME NEW r \in Requests, Lease(r) PROVE FileInv'
  <2>1. CASE ReadUrl(r) \/ AcquireDisabled(r)
    <3>1. /\ pc[r] = "ready" /\ pc' = [pc EXCEPT ![r] = "idle"]
          /\ UNCHANGED <<present, active, persisted, switchLock, choice>>
      BY <2>1 DEF ReadUrl, AcquireDisabled
    <3>2. \A q \in Procs : q # r => mine'[q] = mine[q]
      BY <2>1 DEF ReadUrl, AcquireDisabled, TypeOK
    <3> QED
      BY <3>1, <3>2, <1>s
  <2>2. CASE AcquireHit(r) \/ AcquireMiss(r)
    <3>1. /\ pc[r] = "ready" /\ \E l \in {"sending", "establish"} : pc' = [pc EXCEPT ![r] = l]
          /\ UNCHANGED <<present, active, persisted, switchLock, choice>>
      BY <2>2 DEF AcquireHit, AcquireMiss
    <3>2. \A q \in Procs : q # r => mine'[q] = mine[q]
      BY <2>2 DEF AcquireHit, AcquireMiss, TypeOK
    <3> QED
      BY <3>1, <3>2, <1>s
  <2>3. CASE Established(r) \/ EstablishFailed(r) \/ SendOk(r) \/ SendFailed(r)
    BY <2>3, <1>s DEF Established, EstablishFailed, SendOk, SendFailed, TypeOK
  <2>4. CASE GiveBack(r)
    <3>1. after[r] \notin Switching \cup {"readFlag", "insert", "insertDisabled"}
      BY DEF TypeOK
    <3> QED
      BY <2>4, <3>1, <1>s DEF GiveBack, TypeOK
  <2>5. CASE Renew(r)
    BY <2>5, <1>s DEF Renew, TypeOK
  <2>6. ASSUME NEW k \in {"return", "discard"}, BodyDropped(r, k) PROVE FileInv'
    <3>1. /\ pc[r] = "streaming" /\ \E l \in {"idle", "gone"} : pc' = [pc EXCEPT ![r] = l]
          /\ UNCHANGED <<present, active, persisted, switchLock, choice>>
      BY <2>6 DEF BodyDropped
    <3>2. \A q \in Procs : q # r => mine'[q] = mine[q]
      BY <2>6 DEF BodyDropped, TypeOK
    <3> QED
      BY <3>1, <3>2, <1>s
  <2> QED
    BY <1>3, <2>1, <2>2, <2>3, <2>4, <2>5, <2>6 DEF Lease, Send
<1>4. ASSUME NEW r \in Requests, Disconnect(r) PROVE FileInv'
  BY <1>4 DEF Disconnect
<1>5. ASSUME NEW p \in Procs, Switch(p) PROVE FileInv'
  <2>1. \A q \in Procs : switchLock = p /\ q # p => pc[q] \notin Switching
    OBVIOUS
  <2>2. after[p] \notin Switching \cup {"readFlag", "insert", "insertDisabled"}
    BY DEF TypeOK
  <2>a. ASSUME SwitchReturn(p), switchLock = p PROVE LockedInv' /\ \A q \in Procs : pc'[q] \notin Switching
    <3>1. \E l : l \notin Switching /\ pc' = [pc EXCEPT ![p] = l]
      BY <2>a, <2>2 DEF SwitchReturn
    <3>2. \A q \in Procs : pc'[q] \notin Switching
      BY <2>a, <3>1 DEF TypeOK
    <3>3. switchLock' = NoOne
      BY <2>a DEF SwitchReturn
    <3> QED
      BY <3>2, <3>3
  <2>b. ASSUME SwitchReturn(p), persisted' = persisted PROVE CreatedInv'
    <3>1. \E l : pc' = [pc EXCEPT ![p] = l] /\ l \notin {"readFlag", "insert", "insertDisabled"}
      BY <2>b, <2>2 DEF SwitchReturn
    <3>2. \A q \in Procs : q # p => mine'[q] = mine[q] /\ pc'[q] = pc[q]
      BY <2>b, <3>1 DEF SwitchReturn, TypeOK
    <3> QED
      BY <2>b, <3>1, <3>2 DEF TypeOK
  <2>3. CASE SwitchBegin(p)
    BY <2>3 DEF SwitchBegin, TypeOK
  <2>4. CASE SwitchCommit(p)
    <3>1. switchLock = p /\ present
      BY <2>4 DEF SwitchCommit, EntryInv, AbsentInv, Before, Creating
    <3>2. \A r \in Requests : pc[r] \notin Creating
      BY <3>1 DEF EntryInv, CreatorInv
    <3> QED
      BY <2>4, <2>1, <3>1, <3>2 DEF SwitchCommit, TypeOK, Creating
  <2>5. CASE SwitchCommitFresh(p)
    <3>1. switchLock = p /\ present
      BY <2>5 DEF SwitchCommitFresh, EntryInv, AbsentInv, Before, Creating
    <3>2. \A r \in Requests : pc[r] \notin Creating
      BY <3>1 DEF EntryInv, CreatorInv
    <3> QED
      BY <2>5, <2>1, <3>1, <3>2 DEF SwitchCommitFresh, Fresh, TypeOK, Creating
  <2>6. CASE SwitchFailed(p)
    <3>1. switchLock = p /\ \A q \in Procs : pc[q] \notin Committed
      BY <2>6, <2>1 DEF SwitchFailed
    <3> QED
      BY <2>6, <2>a, <2>b, <3>1 DEF SwitchFailed
  <2>7. CASE SwitchInstall(p)
    <3>1. switchLock = p /\ persisted \in {0, choice.session.sid}
      BY <2>7 DEF SwitchInstall
    <3>2. active'.sid = choice.session.sid
      BY <2>7 DEF SwitchInstall
    <3> QED
      BY <2>7, <2>a, <2>b, <3>1, <3>2 DEF SwitchInstall
  <2> QED
    BY <1>5, <2>3, <2>4, <2>5, <2>6, <2>7 DEF Switch
<1>6. ASSUME Cycle PROVE FileInv'
  <2>1. ~DisabledRenew /\ ~DisabledReinstall
    BY NeverMisplaced DEF DisabledRenew, DisabledReinstall, NoReinstall
  <2> QED
    BY <1>6, <2>1, <1>s DEF Cycle, CycleBegin, CycleDone, ProbeMisplaced,
             ProbeDone, ProbeSwitch, StandbySlots, ChallengerWins, ChallengerLoses, TypeOK
<1>7. CASE Consume \/ Toggle
  <2>1. UNCHANGED <<present, active, persisted, switchLock, choice, pc, mine>>
    BY <1>7 DEF Consume, Toggle, SetUserDisabled, DisableInPool, EnableInPool
  <2> QED
    BY <2>1
<1>8. CASE WriteSnapshot
  BY <1>8 DEF WriteSnapshot
<1>9. CASE UNCHANGED vars
  BY <1>9 DEF vars
<1> QED
  BY <1>1, <1>2, <1>3, <1>4, <1>5, <1>6, <1>7, <1>8, <1>9 DEF Next

(* What the account file tells the rest of the program is the session in use:
   outside a switch it names the active one (or none of the pool's), as long as
   no client hangs up in the middle of one. *)
THEOREM FileNamesActive == ASSUME ~GeoReports, ~Disconnects PROVE Spec => []PersistedIsActive
<1>1. Init => EntryInv /\ NoReinstall /\ FileInv
  BY ProcessAssumption
  DEF Init, EntryInv, CreatorInv, AbsentInv, HolderInv, Creating, Before, NoReinstall, Procs,
      FileInv, LockedInv, ActiveInv, CommitInv, CreatedInv, Switching, Committed
<1>2. TypeOK /\ EntryInv /\ NoReinstall /\ FileInv /\ [Next]_vars => NoReinstall' /\ FileInv'
  BY ReinstallStep, FileStep
<1>3. FileInv => PersistedIsActive
  BY ProcessAssumption DEF FileInv, LockedInv, ActiveInv, PersistedIsActive, Switching, Procs
<1> QED
  BY <1>1, <1>2, <1>3, TypeCorrect, EntryStep, PTL DEF Spec

-----------------------------------------------------------------------------
(* The two locks are taken in one order.  Whoever holds the switch_lock is inside the
   switch, where it asks for no lock and for no room in the channel; whoever holds the
   ensure_lock creates the entry or has found it, and then asks for the switch_lock at
   most (the fast path, which it enters again, finds the entry and takes no lock). *)
SwitchHolder == \A p \in Procs : switchLock = p <=> pc[p] \in Switching
EnsureHolder == \A r \in Requests : ensureLock = r =>
                  \/ pc[r] \in Creating \cup Switching
                  \/ pc[r] \in {"ensure", "switch"} /\ present
LocksNested == SwitchHolder /\ EnsureHolder

(* Every step takes and frees the locks in that order. *)
LEMMA NestedStep == TypeOK /\ LocksNested /\ [Next]_vars => LocksNested'
<1> SUFFICES ASSUME TypeOK, LocksNested, [Next]_vars PROVE LocksNested'
  OBVIOUS
<1> USE ProcessAssumption
    DEF Goto, Leave, Free, Procs, entryVars, fileVars, sharedVars, localVars,
        LocksNested, SwitchHolder, EnsureHolder, Creating, Switching, Committed
<1>1. ASSUME NEW r \in Requests, NEW c \in Countries, Start(r, c) PROVE LocksNested'
  BY <1>1 DEF TypeOK, Start
<1>2. ASSUME NEW r \in Requests, Ensure(r) PROVE LocksNested'
  <2>1. CASE EnsureFast(r)
    BY <2>1 DEF TypeOK, EnsureFast
  <2>2. CASE UpdateCountry(r)
    BY <2>2 DEF TypeOK, UpdateCountry
  <2>3. CASE EnsureMiss(r)
    BY <2>3 DEF TypeOK, EnsureMiss
  <2>4. CASE EnsureLocked(r)
    BY <2>4 DEF TypeOK, EnsureLocked
  <2>5. CASE EnsureAllocate(r)
    BY <2>5 DEF TypeOK, EnsureAllocate
  <2>6. CASE EnsureExhausted(r)
    BY <2>6 DEF TypeOK, EnsureExhausted
  <2>7. CASE EnsureReadFlag(r)
    BY <2>7 DEF TypeOK, EnsureReadFlag
  <2>8. CASE EnsureInsert(r)
    BY <2>8 DEF TypeOK, EnsureInsert
  <2> QED
    BY <1>2, <2>1, <2>2, <2>3, <2>4, <2>5, <2>6, <2>7, <2>8 DEF Ensure
<1>3. ASSUME NEW r \in Requests, Lease(r) PROVE LocksNested'
  <2>1. CASE ReadUrl(r) \/ AcquireDisabled(r)
    BY <2>1 DEF TypeOK, ReadUrl, AcquireDisabled
  <2>2. CASE AcquireHit(r) \/ AcquireMiss(r)
    BY <2>2 DEF TypeOK, AcquireHit, AcquireMiss
  <2>3. CASE Established(r) \/ EstablishFailed(r)
    BY <2>3 DEF TypeOK, Established, EstablishFailed
  <2>4. CASE SendOk(r) \/ SendFailed(r) \/ Renew(r)
    BY <2>4 DEF TypeOK, SendOk, SendFailed, Renew
  <2>5. CASE GiveBack(r)
    BY <2>5 DEF TypeOK, GiveBack
  <2>6. ASSUME NEW k \in {"return", "discard"}, BodyDropped(r, k) PROVE LocksNested'
    BY <2>6 DEF TypeOK, BodyDropped
  <2> QED
    BY <1>3, <2>1, <2>2, <2>3, <2>4, <2>5, <2>6 DEF Lease, Send
<1>4. ASSUME NEW r \in Requests, Disconnect(r) PROVE LocksNested'
  BY <1>4 DEF TypeOK, Disconnect
<1>5. ASSUME NEW p \in Procs, Switch(p) PROVE LocksNested'
  <2>1. ASSUME SwitchReturn(p), switchLock = p, UNCHANGED present PROVE LocksNested'
    <3>1. \E l \in {"idle", "ready", "sending", "switch", "renew"} : pc' = [pc EXCEPT ![p] = l]
      BY <2>1 DEF TypeOK, SwitchReturn
    <3>2. switchLock' = NoOne /\ ensureLock' # p /\ ensureLock' \in {ensureLock, NoOne}
      BY <2>1 DEF SwitchReturn
    <3> QED
      BY <2>1, <3>1, <3>2 DEF TypeOK
  <2>2. CASE SwitchBegin(p)
    BY <2>2 DEF TypeOK, SwitchBegin
  <2>3. CASE SwitchCommit(p)
    BY <2>3 DEF TypeOK, SwitchCommit
  <2>4. CASE SwitchCommitFresh(p)
    BY <2>4 DEF TypeOK, SwitchCommitFresh
  <2>5. CASE SwitchFailed(p)
    BY <2>1, <2>5 DEF SwitchFailed
  <2>6. CASE SwitchInstall(p)
    BY <2>1, <2>6 DEF SwitchInstall
  <2> QED
    BY <1>5, <2>2, <2>3, <2>4, <2>5, <2>6 DEF Switch
<1>6. ASSUME Cycle PROVE LocksNested'
  <2>1. \E l \in MaintainPCs \cup {"switch"} : pc' = [pc EXCEPT ![Maintain] = l]
    BY <1>6 DEF Cycle, CycleBegin, CycleDone, DisabledRenew, DisabledReinstall, ProbeMisplaced,
                ProbeDone, ProbeSwitch, StandbySlots, ChallengerWins, ChallengerLoses, MaintainPCs
  <2>2. pc[Maintain] \in MaintainPCs /\ UNCHANGED <<present, ensureLock, switchLock>>
    BY <1>6 DEF Cycle, CycleBegin, CycleDone, DisabledRenew, DisabledReinstall, ProbeMisplaced,
                ProbeDone, ProbeSwitch, StandbySlots, ChallengerWins, ChallengerLoses, MaintainPCs
  <2> QED
    BY <2>1, <2>2 DEF TypeOK, MaintainPCs
<1>7. CASE Consume \/ Toggle
  <2>1. UNCHANGED <<present, ensureLock, switchLock, pc>>
    BY <1>7 DEF Consume, Toggle, SetUserDisabled, DisableInPool, EnableInPool
  <2> QED
    BY <2>1
<1>8. CASE WriteSnapshot \/ UNCHANGED vars
  BY <1>8 DEF WriteSnapshot, vars
<1> QED
  BY <1>1, <1>2, <1>3, <1>4, <1>5, <1>6, <1>7, <1>8 DEF Next

(* No requests, maintain loop and toggle can wait for each other in a circle, however
   many there are: the locks are always nested in the one order. *)
THEOREM LocksAlwaysNested == Spec => []LocksNested
<1>1. Init => LocksNested
  BY ProcessAssumption DEF Init, LocksNested, SwitchHolder, EnsureHolder, Switching, Committed, Procs
<1> QED
  BY <1>1, TypeCorrect, NestedStep, PTL DEF Spec
=============================================================================
