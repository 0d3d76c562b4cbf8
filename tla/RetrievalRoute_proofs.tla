------------------------- MODULE RetrievalRoute_proofs ------------------------
(***************************************************************************)
(* Proofs about the lifecycle resolver, for any requests, versions,        *)
(* signers and policies.                                                   *)
(*                                                                         *)
(* The inductive invariant says of the lock that it queues those that wait *)
(* or verify, once each, the one that verifies first (LockInv); of what    *)
(* was verified last that its policy is the policy on record (GoodInv);    *)
(* and of each request under way that it has seen every version active     *)
(* since it began, that the version it read is one of them, attested by an *)
(* identity its policy trusts, and that a policy which verifies still      *)
(* rotates the one on record (CallInv): it was compared before the lock    *)
(* was taken, or again under it, and the holder alone can change it.       *)
(***************************************************************************)
EXTENDS RetrievalRoute, TLAPS

USE RouteAssumption

Step == {"idle", "active", "resolved", "waiting", "verify", "retrieve"}
CallType ==
  [step : Step, policy : Policy \union {None}, target : Version \union {None},
   revision : 0 .. MaxRevision, outcome : {"retrieved", None}]

Queue(s) == s \in Seq(Request) /\ IsInjective(s)
Queued == {c \in Request : call[c].step \in {"waiting", "verify"}}

LockInv ==
  /\ Queue(refreshLock)
  /\ ToSet(refreshLock) = Queued
  /\ \A c \in Request : At(c, "verify") => Holds(c)

TypesInv ==
  /\ served \in Seq(Version) /\ Len(served) <= MaxRevision + 1
  /\ policy \in Policy
  /\ lastGood \in FingerprintType \union {None}
  /\ lastPair \in Pairs \union {None}
  /\ call \in [Request -> CallType]
  /\ activeDuring \in [Request -> SUBSET Version]

GoodInv == (lastGood = None /\ lastPair = None) \/ (lastGood # None /\ lastGood.pair = lastPair)

\* What k, the resolution of a request, rests on, given the versions active
\* during it.
Vouched(k, during) == k.target \in during /\ SignerOf[k.target] \in k.policy.trusted

CallInv ==
  \A c \in Request :
    /\ ~ At(c, "idle") => call[c].policy \in Policy /\ Registry!Active \subseteq activeDuring[c]
    /\ \/ call[c].step \in {"resolved", "waiting", "verify", "retrieve"}
       \/ call[c].outcome = "retrieved"
       => Vouched(call[c], activeDuring[c])
    /\ At(c, "verify") => Rotates(Pair(call[c].policy))

RouteInv == TypesInv /\ LockInv /\ GoodInv /\ CallInv

-----------------------------------------------------------------------------
(* The queue of the lock.                                                  *)

\* A request joins at the end.
LEMMA AppendQueue ==
  ASSUME NEW s, Queue(s), NEW c \in Request, c \notin ToSet(s)
  PROVE  /\ Queue(Append(s, c))
         /\ ToSet(Append(s, c)) = ToSet(s) \union {c}
         /\ Append(s, c) # <<>>
         /\ Head(Append(s, c)) = IF s = <<>> THEN c ELSE Head(s)
<1>1. Append(s, c) \in Seq(Request) /\ Len(Append(s, c)) = Len(s) + 1
  BY DEF Queue
<1>2. \A i \in 1 .. Len(s) : Append(s, c)[i] = s[i]
  BY DEF Queue
<1>3. Append(s, c)[Len(s) + 1] = c
  BY DEF Queue
<1>4. DOMAIN s = 1 .. Len(s) /\ DOMAIN Append(s, c) = 1 .. (Len(s) + 1) /\ Len(s) \in Nat
  BY DEF Queue
<1>5. \A i \in 1 .. Len(s) : s[i] # c
  BY <1>4 DEF ToSet
<1>6. Queue(Append(s, c))
  BY <1>1, <1>2, <1>3, <1>4, <1>5 DEF Queue, IsInjective
<1>7. ToSet(Append(s, c)) = ToSet(s) \union {c}
  BY <1>2, <1>3, <1>4 DEF ToSet
<1>8. Append(s, c) # <<>> /\ Head(Append(s, c)) = IF s = <<>> THEN c ELSE Head(s)
  BY <1>1, <1>2, <1>3, <1>4 DEF Queue
<1> QED BY <1>6, <1>7, <1>8

\* The holder leaves.
LEMMA TailQueue ==
  ASSUME NEW s, Queue(s), s # <<>>
  PROVE  /\ Queue(Tail(s))
         /\ ToSet(Tail(s)) = ToSet(s) \ {Head(s)}
         /\ Head(s) \in ToSet(s)
<1>1. Tail(s) \in Seq(Request) /\ Len(Tail(s)) = Len(s) - 1 /\ Len(s) \in Nat \ {0}
  BY DEF Queue
<1>2. \A i \in 1 .. (Len(s) - 1) : Tail(s)[i] = s[i + 1]
  BY DEF Queue
<1>3. DOMAIN s = 1 .. Len(s) /\ DOMAIN Tail(s) = 1 .. (Len(s) - 1) /\ Head(s) = s[1]
  BY <1>1 DEF Queue
<1>4. Queue(Tail(s))
  BY <1>1, <1>2, <1>3 DEF Queue, IsInjective
<1>5. ToSet(Tail(s)) \subseteq ToSet(s) \ {Head(s)}
  BY <1>1, <1>2, <1>3 DEF ToSet, Queue, IsInjective
<1>6. ToSet(s) \ {Head(s)} \subseteq ToSet(Tail(s))
  <2> SUFFICES ASSUME NEW i \in 1 .. Len(s), s[i] # s[1]
               PROVE  s[i] \in ToSet(Tail(s))
    BY <1>3 DEF ToSet
  <2>1. i - 1 \in 1 .. (Len(s) - 1) /\ Tail(s)[i - 1] = s[i]
    BY <1>1, <1>2
  <2> QED BY <2>1, <1>3 DEF ToSet
<1>7. Head(s) \in ToSet(s)
  BY <1>1, <1>3 DEF ToSet
<1> QED BY <1>4, <1>5, <1>6, <1>7

\* A cancelled request leaves, wherever it is.
LEMMA WithoutQueue ==
  ASSUME NEW s, Queue(s), NEW c
  PROVE  /\ Queue(Without(s, c))
         /\ ToSet(Without(s, c)) = ToSet(s) \ {c}
         /\ s # <<>> /\ Head(s) # c => Without(s, c) # <<>> /\ Head(Without(s, c)) = Head(s)
<1>1. CASE c \notin ToSet(s)
  BY <1>1 DEF Without
<1>2. CASE c \in ToSet(s)
  <2> DEFINE i == CHOOSE i \in DOMAIN s : s[i] = c
             t == [j \in 1 .. Len(s) - 1 |-> IF j < i THEN s[j] ELSE s[j + 1]]
  <2>1. i \in DOMAIN s /\ s[i] = c
    BY <1>2 DEF ToSet
  <2>2. DOMAIN s = 1 .. Len(s) /\ Len(s) \in Nat \ {0} /\ \A j \in 1 .. Len(s) : s[j] \in Request
    BY <2>1 DEF Queue
  <2>3. Without(s, c) = t
    BY <1>2 DEF Without
  <2> HIDE DEF i
  <2>4. \A j \in 1 .. Len(s) - 1 : t[j] = IF j < i THEN s[j] ELSE s[j + 1]
    OBVIOUS
  <2>5. Len(s) - 1 \in Nat /\ t \in [1 .. Len(s) - 1 -> Request]
    BY <2>1, <2>2
  <2>6. t \in Seq(Request) /\ Len(t) = Len(s) - 1 /\ DOMAIN t = 1 .. Len(s) - 1
    BY <2>5
  <2> HIDE DEF t
  <2>7. IsInjective(t)
    BY <2>1, <2>2, <2>4, <2>6 DEF Queue, IsInjective
  <2>8. ToSet(t) \subseteq ToSet(s) \ {c}
    BY <2>1, <2>2, <2>4, <2>6 DEF ToSet, Queue, IsInjective
  <2>9. ToSet(s) \ {c} \subseteq ToSet(t)
    <3> SUFFICES ASSUME NEW k \in 1 .. Len(s), s[k] # c
                 PROVE  s[k] \in ToSet(t)
      BY <2>2 DEF ToSet
    <3>1. k # i
      BY <2>1
    <3>2. CASE k < i
      <4>1. k \in 1 .. Len(s) - 1 /\ t[k] = s[k]
        BY <3>2, <2>1, <2>2, <2>4
      <4> QED BY <4>1, <2>6 DEF ToSet
    <3>3. CASE k > i
      <4>1. k - 1 \in 1 .. Len(s) - 1 /\ t[k - 1] = s[k]
        BY <3>3, <2>1, <2>2, <2>4
      <4> QED BY <4>1, <2>6 DEF ToSet
    <3> QED BY <3>1, <3>2, <3>3, <2>1, <2>2
  <2>10. ASSUME s # <<>>, Head(s) # c
         PROVE  t # <<>> /\ Head(t) = Head(s)
    <3>1. i > 1
      BY <2>1, <2>2, <2>10 DEF Queue
    <3>2. Len(s) - 1 >= 1 /\ t[1] = s[1]
      BY <3>1, <2>1, <2>2, <2>4
    <3> QED BY <3>2, <2>6, <2>10 DEF Queue
  <2> QED BY <2>3, <2>6, <2>7, <2>8, <2>9, <2>10 DEF Queue
<1> QED BY <1>1, <1>2

-----------------------------------------------------------------------------
(* The invariant.                                                          *)

\* Nothing is resolved, verified or queued for at the start.
LEMMA RouteInit == ASSUME Init PROVE RouteInv
<1>1. TypesInv
  BY DEF Init, Registry!Init, TypesInv, CallType, Step, Idle
<1>2. LockInv
  BY DEF Init, LockInv, Queue, Queued, IsInjective, ToSet, Idle, At
<1>3. GoodInv
  BY DEF Init, GoodInv
<1>4. CallInv
  BY DEF Init, CallInv, Idle, At
<1> QED BY <1>1, <1>2, <1>3, <1>4 DEF RouteInv

\* The parts of a resolution in a state of the invariant.
LEMMA CallParts ==
  ASSUME RouteInv, NEW c \in Request
  PROVE  /\ call[c] \in CallType
         /\ At(c, "verify") => Holds(c)
         /\ ~ At(c, "idle") => call[c].policy \in Policy /\ Registry!Active \subseteq activeDuring[c]
         /\ call[c].step \in {"resolved", "waiting", "verify", "retrieve"} =>
              Vouched(call[c], activeDuring[c]) /\ call[c].target \in Version
         /\ At(c, "verify") => Rotates(Pair(call[c].policy))
         /\ activeDuring[c] \subseteq Version
BY DEF RouteInv, TypesInv, LockInv, CallInv, Vouched, At

\* Two requests do not verify at once.
LEMMA OneVerifies ==
  ASSUME RouteInv, NEW c \in Request, NEW d \in Request, At(c, "verify"), At(d, "verify")
  PROVE  c = d
BY DEF RouteInv, LockInv, Holds

\* The record of one request is replaced by k.
LEMMA OneCall ==
  ASSUME RouteInv, NEW c \in Request, NEW k \in CallType,
         call' = [call EXCEPT ![c] = k], UNCHANGED served,
         activeDuring' \in [Request -> SUBSET Version],
         \A d \in Request \ {c} : activeDuring'[d] = activeDuring[d],
         k.step # "idle" => k.policy \in Policy /\ Registry!Active \subseteq activeDuring'[c],
         k.step \in {"resolved", "waiting", "verify", "retrieve"} \/ k.outcome = "retrieved" =>
           Vouched(k, activeDuring'[c]),
         k.step = "verify" => Rotates(Pair(k.policy)),
         UNCHANGED lastPair \/ \A d \in Request \ {c} : ~ At(d, "verify"),
         UNCHANGED lastPair \/ k.step # "verify"
  PROVE  CallInv' /\ call' \in [Request -> CallType]
<1>1. call \in [Request -> CallType]
  BY DEF RouteInv, TypesInv
<1>2. call' \in [Request -> CallType] /\ call'[c] = k /\ \A d \in Request \ {c} : call'[d] = call[d]
  BY <1>1
<1>3. Registry!Active' = Registry!Active
  BY DEF Registry!Active
<1>4. ASSUME NEW d \in Request
      PROVE  /\ ~ At(d, "idle")' => call'[d].policy \in Policy /\ Registry!Active' \subseteq activeDuring'[d]
             /\ \/ call'[d].step \in {"resolved", "waiting", "verify", "retrieve"}
                \/ call'[d].outcome = "retrieved"
                => Vouched(call'[d], activeDuring'[d])
             /\ At(d, "verify")' => Rotates(Pair(call[d].policy))'
  <2>1. CASE d = c
    <3>1. At(d, "verify")' => Rotates(Pair(call[d].policy))'
      BY <2>1, <1>2 DEF At, Rotates
    <3> QED BY <2>1, <1>2, <1>3, <3>1 DEF At
  <2>2. CASE d # c
    <3>1. call'[d] = call[d] /\ activeDuring'[d] = activeDuring[d]
      BY <2>2, <1>2
    <3>2. At(d, "verify")' => Rotates(Pair(call[d].policy))'
      BY <2>2, <3>1 DEF RouteInv, CallInv, At, Rotates
    <3> QED BY <3>1, <3>2, <1>3 DEF RouteInv, CallInv, At
  <2> QED BY <2>1, <2>2
<1> QED BY <1>2, <1>4 DEF CallInv

-----------------------------------------------------------------------------
(* The steps of a resolution.                                              *)

\* A resolution begins: what is active now is active during it.
LEMMA StepResolveRoute ==
  ASSUME RouteInv, NEW c \in Request, ResolveRoute(c)
  PROVE  RouteInv'
<1> DEFINE k == [Idle EXCEPT !.step = "active", !.policy = policy]
<1>1. /\ call' = [call EXCEPT ![c] = k] /\ At(c, "idle") /\ UNCHANGED served
      /\ activeDuring' = [activeDuring EXCEPT ![c] = Registry!Active]
      /\ UNCHANGED <<policy, lastGood, lastPair, refreshLock>>
  BY DEF ResolveRoute, registryVars, resolverVars
<1>2. policy \in Policy /\ activeDuring \in [Request -> SUBSET Version] /\ call \in [Request -> CallType]
  BY DEF RouteInv, TypesInv
<1>3. Registry!Active \subseteq Version
  BY DEF RouteInv, TypesInv, Registry!Active
<1>4. k \in CallType /\ k.step = "active" /\ k.policy = policy /\ k.outcome = None
  <2>1. Idle \in CallType /\ Idle.outcome = None
    BY DEF CallType, Step, Idle
  <2> QED BY <2>1, <1>2 DEF CallType, Step
<1>5. activeDuring' \in [Request -> SUBSET Version] /\ activeDuring'[c] = Registry!Active
      /\ \A d \in Request \ {c} : activeDuring'[d] = activeDuring[d]
  BY <1>1, <1>2, <1>3
<1> HIDE DEF k
<1>6. CallInv' /\ call' \in [Request -> CallType]
  BY <1>1, <1>2, <1>4, <1>5, OneCall
<1>7. \A d \in Request : call'[d] = IF d = c THEN k ELSE call[d]
  BY <1>1, <1>2
<1>8. LockInv'
  BY <1>1, <1>4, <1>7 DEF RouteInv, LockInv, Queued, At, Holds
<1>9. TypesInv' /\ GoodInv'
  BY <1>1, <1>5, <1>6 DEF RouteInv, TypesInv, GoodInv
<1> QED BY <1>6, <1>8, <1>9 DEF RouteInv

\* A request fails: it leaves the lock, if it was in the queue for it.
LEMMA StepFail ==
  ASSUME RouteInv, NEW c \in Request, Fail(c), UNCHANGED <<registryVars, policy, activeDuring>>,
         UNCHANGED <<lastGood, lastPair>>,
         Queue(refreshLock'), ToSet(refreshLock') = ToSet(refreshLock) \ {c},
         \A d \in Request \ {c} : At(d, "verify") => Holds(d)'
  PROVE  RouteInv'
<1>1. Idle \in CallType /\ Idle.step = "idle" /\ Idle.outcome = None
  BY DEF CallType, Step, Idle, RouteInv, TypesInv
<1>2. UNCHANGED served /\ activeDuring \in [Request -> SUBSET Version] /\ call \in [Request -> CallType]
  BY DEF registryVars, RouteInv, TypesInv
<1>3. CallInv' /\ call' \in [Request -> CallType]
  BY <1>1, <1>2, OneCall DEF Fail
<1>4. \A d \in Request : call'[d] = IF d = c THEN Idle ELSE call[d]
  BY <1>2 DEF Fail
<1>5. Queued' = Queued \ {c}
  BY <1>1, <1>4 DEF Queued
<1>6. LockInv'
  BY <1>1, <1>4, <1>5 DEF RouteInv, LockInv, At
<1>7. TypesInv' /\ GoodInv'
  BY <1>2, <1>3 DEF RouteInv, TypesInv, GoodInv
<1> QED BY <1>3, <1>6, <1>7 DEF RouteInv

\* A request fails without the lock.
LEMMA FailOutside ==
  ASSUME RouteInv, NEW c \in Request, Fail(c), c \notin Queued,
         UNCHANGED <<registryVars, policy, activeDuring>>, UNCHANGED <<lastGood, lastPair, refreshLock>>
  PROVE  RouteInv'
<1>1. Queue(refreshLock') /\ ToSet(refreshLock') = ToSet(refreshLock) \ {c}
  BY DEF RouteInv, LockInv, Queue
<1>2. \A d \in Request \ {c} : At(d, "verify") => Holds(d)'
  BY DEF RouteInv, LockInv, Holds
<1> QED BY <1>1, <1>2, StepFail

\* A request fails that holds the lock.
LEMMA FailHolding ==
  ASSUME RouteInv, NEW c \in Request, Fail(c), Holds(c), refreshLock' = Tail(refreshLock),
         UNCHANGED <<registryVars, policy, activeDuring>>, UNCHANGED <<lastGood, lastPair>>
  PROVE  RouteInv'
<1>1. Queue(refreshLock) /\ refreshLock # <<>> /\ Head(refreshLock) = c
  BY DEF RouteInv, LockInv, Holds
<1>2. Queue(refreshLock') /\ ToSet(refreshLock') = ToSet(refreshLock) \ {c}
  BY <1>1, TailQueue
<1>3. \A d \in Request \ {c} : ~ At(d, "verify")
  BY <1>1 DEF RouteInv, LockInv, Holds
<1> QED BY <1>2, <1>3, StepFail

\* The pointer is read: the version is active now.
LEMMA StepActiveState ==
  ASSUME RouteInv, NEW c \in Request, ActiveState(c)
  PROVE  RouteInv'
<1>1. At(c, "active") /\ UNCHANGED <<registryVars, policy, activeDuring>>
      /\ UNCHANGED <<lastGood, lastPair, refreshLock>>
  BY DEF ActiveState, resolverVars
<1>2. CASE Fail(c)
  <2>1. c \notin Queued
    BY <1>1 DEF Queued, At
  <2> QED BY <1>1, <1>2, <2>1, FailOutside
<1>3. CASE /\ \E v \in Registry!Active : SignerOf[v] \in call[c].policy.trusted
           /\ call' = [call EXCEPT ![c].step = "resolved", ![c].target = Last(served),
                                   ![c].revision = Len(served) - 1]
  <2> DEFINE k == [call[c] EXCEPT !.step = "resolved", !.target = Last(served),
                                  !.revision = Len(served) - 1]
  <2>1. served \in Seq(Version) /\ Len(served) <= MaxRevision + 1 /\ served # <<>>
    BY <1>3 DEF RouteInv, TypesInv, Registry!Active
  <2>2. Len(served) \in 1 .. (MaxRevision + 1) /\ Last(served) \in Version
    BY <2>1 DEF Last
  <2>3. Len(served) - 1 \in 0 .. MaxRevision
    BY <2>2
  <2>4. Registry!Active = {Last(served)} /\ SignerOf[Last(served)] \in call[c].policy.trusted
    BY <1>3, <2>1 DEF Registry!Active, Last
  <2>5. /\ call[c] \in CallType /\ call[c].policy \in Policy /\ Registry!Active \subseteq activeDuring[c]
    BY <1>1, CallParts DEF At
  <2>6. k \in CallType /\ k.step = "resolved" /\ k.policy = call[c].policy /\ k.target = Last(served)
    BY <2>2, <2>3, <2>5 DEF CallType, Step
  <2>7. Vouched(k, activeDuring[c])
    BY <2>4, <2>5, <2>6 DEF Vouched
  <2>8. call \in [Request -> CallType] /\ activeDuring \in [Request -> SUBSET Version] /\ UNCHANGED served
    BY <1>1 DEF RouteInv, TypesInv, registryVars
  <2>9. call' = [call EXCEPT ![c] = k]
    BY <1>3, <2>8
  <2> HIDE DEF k
  <2>10. CallInv' /\ call' \in [Request -> CallType]
    BY <1>1, <2>5, <2>6, <2>7, <2>8, <2>9, OneCall
  <2>11. \A d \in Request : call'[d] = IF d = c THEN k ELSE call[d]
    BY <2>8, <2>9
  <2>12. LockInv'
    BY <1>1, <2>6, <2>11 DEF RouteInv, LockInv, Queued, At, Holds
  <2>13. TypesInv' /\ GoodInv'
    BY <1>1, <2>8, <2>10 DEF RouteInv, TypesInv, GoodInv
  <2> QED BY <2>10, <2>12, <2>13 DEF RouteInv
<1> QED BY <1>2, <1>3 DEF ActiveState

\* A step that goes on with the version read, here or at the lock.
LEMMA StepGoto ==
  ASSUME RouteInv, NEW c \in Request, NEW place \in Step \ {"idle", "active"}, Goto(c, place),
         call[c].step \in {"resolved", "waiting", "verify"},
         UNCHANGED <<registryVars, policy, activeDuring>>,
         lastGood' \in FingerprintType \union {None}, lastPair' \in Pairs \union {None}, GoodInv',
         UNCHANGED lastPair \/ \A d \in Request \ {c} : ~ At(d, "verify"),
         UNCHANGED lastPair \/ place # "verify",
         place = "verify" => Rotates(Pair(call[c].policy)),
         Queue(refreshLock'),
         ToSet(refreshLock') = IF place \in {"waiting", "verify"} THEN ToSet(refreshLock) \union {c}
                                                                 ELSE ToSet(refreshLock) \ {c},
         place = "verify" => Holds(c)',
         \A d \in Request \ {c} : At(d, "verify") => Holds(d)'
  PROVE  RouteInv' /\ call'[c].step = place /\ call'[c].policy = call[c].policy
                   /\ call'[c].target = call[c].target
<1> DEFINE k == [call[c] EXCEPT !.step = place]
<1>1. /\ call[c] \in CallType /\ call[c].policy \in Policy /\ Registry!Active \subseteq activeDuring[c]
      /\ Vouched(call[c], activeDuring[c])
  BY CallParts DEF At
<1>2. k \in CallType /\ k.step = place /\ k.policy = call[c].policy /\ k.target = call[c].target
  BY <1>1 DEF CallType
<1>3. Vouched(k, activeDuring[c])
  BY <1>1, <1>2 DEF Vouched
<1>4. call \in [Request -> CallType] /\ activeDuring \in [Request -> SUBSET Version] /\ UNCHANGED served
  BY DEF RouteInv, TypesInv, registryVars
<1>5. call' = [call EXCEPT ![c] = k]
  BY <1>4 DEF Goto
<1> HIDE DEF k
<1>6. CallInv' /\ call' \in [Request -> CallType]
  BY <1>1, <1>2, <1>3, <1>4, <1>5, OneCall
<1>7. \A d \in Request : call'[d] = IF d = c THEN k ELSE call[d]
  BY <1>4, <1>5
<1>8. Queued' = IF place \in {"waiting", "verify"} THEN Queued \union {c} ELSE Queued \ {c}
  BY <1>2, <1>7 DEF Queued
<1>9. LockInv'
  BY <1>2, <1>7, <1>8 DEF RouteInv, LockInv, At
<1>10. TypesInv'
  BY <1>4, <1>6 DEF RouteInv, TypesInv
<1> QED BY <1>2, <1>6, <1>7, <1>9, <1>10 DEF RouteInv

\* The policy is compared; what was verified last is served, the rest queues.
LEMMA StepResolved ==
  ASSUME RouteInv, NEW c \in Request, Resolved(c)
  PROVE  RouteInv'
<1>1. At(c, "resolved") /\ UNCHANGED <<registryVars, policy, activeDuring>>
      /\ UNCHANGED <<lastGood, lastPair>>
  BY DEF Resolved
<1>2. Queue(refreshLock) /\ c \notin ToSet(refreshLock) /\ c \notin Queued
  BY <1>1 DEF RouteInv, LockInv, Queued, At
<1>3. /\ lastGood' \in FingerprintType \union {None} /\ lastPair' \in Pairs \union {None} /\ GoodInv'
      /\ call[c].step = "resolved"
  BY <1>1 DEF RouteInv, TypesInv, GoodInv, At
<1>4. CASE Fail(c) /\ UNCHANGED refreshLock
  BY <1>1, <1>2, <1>4, FailOutside
<1>5. CASE Serve(c) /\ UNCHANGED refreshLock
  <2>1. Goto(c, "retrieve") /\ "retrieve" \in Step \ {"idle", "active"}
    BY <1>5 DEF Serve, Step
  <2>2. Queue(refreshLock') /\ ToSet(refreshLock') = ToSet(refreshLock) \ {c}
    BY <1>2, <1>5 DEF Queue
  <2>3. \A d \in Request \ {c} : At(d, "verify") => Holds(d)'
    BY <1>5 DEF RouteInv, LockInv, Holds
  <2> QED BY <1>1, <1>3, <2>1, <2>2, <2>3, StepGoto
<1>6. CASE /\ Rotates(Pair(call[c].policy))
           /\ refreshLock' = Append(refreshLock, c)
           /\ Goto(c, IF refreshLock = <<>> THEN "verify" ELSE "waiting")
  <2> DEFINE place == IF refreshLock = <<>> THEN "verify" ELSE "waiting"
  <2>1. place \in Step \ {"idle", "active"} /\ Goto(c, place) /\ place \in {"waiting", "verify"}
    BY <1>6 DEF Step
  <2>2. /\ Queue(refreshLock') /\ ToSet(refreshLock') = ToSet(refreshLock) \union {c}
        /\ refreshLock' # <<>>
        /\ Head(refreshLock') = IF refreshLock = <<>> THEN c ELSE Head(refreshLock)
    BY <1>2, <1>6, AppendQueue
  <2>3. place = "verify" => Holds(c)'
    BY <2>2 DEF Holds
  <2>4. \A d \in Request \ {c} : At(d, "verify") => Holds(d)'
    BY <2>2 DEF RouteInv, LockInv, Holds
  <2>5. Rotates(Pair(call[c].policy))
    BY <1>6
  <2> HIDE DEF place
  <2> QED BY <1>1, <1>3, <2>1, <2>2, <2>3, <2>4, <2>5, StepGoto
<1> QED BY <1>4, <1>5, <1>6 DEF Resolved

\* Under the lock all is compared again.
LEMMA StepRefresh ==
  ASSUME RouteInv, NEW c \in Request, Refresh(c)
  PROVE  RouteInv'
<1>1. At(c, "waiting") /\ Holds(c) /\ UNCHANGED <<registryVars, policy, activeDuring>>
      /\ UNCHANGED <<lastGood, lastPair>>
  BY DEF Refresh
<1>2. Queue(refreshLock) /\ refreshLock # <<>> /\ Head(refreshLock) = c /\ c \in ToSet(refreshLock)
  BY <1>1 DEF RouteInv, LockInv, Queued, At, Holds
<1>3. /\ lastGood' \in FingerprintType \union {None} /\ lastPair' \in Pairs \union {None} /\ GoodInv'
      /\ call[c].step = "waiting"
  BY <1>1 DEF RouteInv, TypesInv, GoodInv, At
<1>4. \A d \in Request \ {c} : ~ At(d, "verify")
  BY <1>1 DEF RouteInv, LockInv, Holds
<1>5. CASE Fail(c) /\ refreshLock' = Tail(refreshLock)
  BY <1>1, <1>5, FailHolding
<1>6. CASE Serve(c) /\ refreshLock' = Tail(refreshLock)
  <2>1. Goto(c, "retrieve") /\ "retrieve" \in Step \ {"idle", "active"}
    BY <1>6 DEF Serve, Step
  <2>2. Queue(refreshLock') /\ ToSet(refreshLock') = ToSet(refreshLock) \ {c}
    BY <1>2, <1>6, TailQueue
  <2> QED BY <1>1, <1>3, <1>4, <2>1, <2>2, StepGoto
<1>7. CASE /\ Rotates(Pair(call[c].policy))
           /\ Goto(c, "verify") /\ UNCHANGED refreshLock
  <2>1. "verify" \in Step \ {"idle", "active"}
    BY DEF Step
  <2>2. Queue(refreshLock') /\ ToSet(refreshLock') = ToSet(refreshLock) \union {c} /\ Holds(c)'
    BY <1>1, <1>2, <1>7 DEF Queue, Holds
  <2> QED BY <1>1, <1>3, <1>4, <1>7, <2>1, <2>2, StepGoto
<1> QED BY <1>5, <1>6, <1>7 DEF Refresh

\* A verification that succeeds is recorded with its policy.
LEMMA StepVerifyRefresh ==
  ASSUME RouteInv, NEW c \in Request, VerifyRefresh(c)
  PROVE  RouteInv'
<1>1. At(c, "verify") /\ refreshLock' = Tail(refreshLock)
      /\ UNCHANGED <<registryVars, policy, activeDuring>>
  BY DEF VerifyRefresh
<1>2. Holds(c) /\ Queue(refreshLock) /\ refreshLock # <<>> /\ Head(refreshLock) = c
  BY <1>1 DEF RouteInv, LockInv, Holds
<1>3. CASE Fail(c) /\ UNCHANGED <<lastGood, lastPair>>
  BY <1>1, <1>2, <1>3, FailHolding
<1>4. CASE lastGood' = Fingerprint(c) /\ lastPair' = Pair(call[c].policy) /\ Serve(c)
  <2>1. /\ call[c].step = "verify" /\ call[c] \in CallType
        /\ call[c].policy \in Policy /\ call[c].target \in Version
    BY <1>1, CallParts DEF At
  <2>2. Pair(call[c].policy) \in Pairs
    BY <2>1 DEF Pairs
  <2>3. Fingerprint(c) \in FingerprintType /\ Fingerprint(c).pair = Pair(call[c].policy)
    BY <2>1, <2>2 DEF Fingerprint, FingerprintType, CallType
  <2>4. lastGood' \in FingerprintType \union {None} /\ lastPair' \in Pairs \union {None} /\ GoodInv'
    BY <1>4, <2>2, <2>3 DEF GoodInv
  <2>5. Goto(c, "retrieve") /\ "retrieve" \in Step \ {"idle", "active"}
    BY <1>4 DEF Serve, Step
  <2>6. \A d \in Request \ {c} : ~ At(d, "verify")
    BY <1>1, OneVerifies
  <2>7. Queue(refreshLock') /\ ToSet(refreshLock') = ToSet(refreshLock) \ {c}
    BY <1>1, <1>2, TailQueue
  <2> QED BY <1>1, <2>1, <2>4, <2>5, <2>6, <2>7, StepGoto
<1> QED BY <1>3, <1>4 DEF VerifyRefresh

\* What was retrieved keeps the version it was retrieved from.
LEMMA StepRetrieve ==
  ASSUME RouteInv, NEW c \in Request, Retrieve(c)
  PROVE  RouteInv'
<1>1. At(c, "retrieve") /\ UNCHANGED <<registryVars, policy, activeDuring>>
      /\ UNCHANGED <<lastGood, lastPair, refreshLock>>
  BY DEF Retrieve, resolverVars
<1>2. c \notin Queued
  BY <1>1 DEF Queued, At
<1>3. CASE Fail(c)
  BY <1>1, <1>2, <1>3, FailOutside
<1>4. CASE call' = [call EXCEPT ![c].step = "idle", ![c].outcome = "retrieved"]
  <2> DEFINE k == [call[c] EXCEPT !.step = "idle", !.outcome = "retrieved"]
  <2>1. call[c] \in CallType /\ Vouched(call[c], activeDuring[c])
    BY <1>1, CallParts DEF At
  <2>2. k \in CallType /\ k.step = "idle" /\ k.policy = call[c].policy /\ k.target = call[c].target
    BY <2>1 DEF CallType, Step
  <2>3. Vouched(k, activeDuring[c])
    BY <2>1, <2>2 DEF Vouched
  <2>4. call \in [Request -> CallType] /\ activeDuring \in [Request -> SUBSET Version] /\ UNCHANGED served
    BY <1>1 DEF RouteInv, TypesInv, registryVars
  <2>5. call' = [call EXCEPT ![c] = k]
    BY <1>4, <2>4
  <2> HIDE DEF k
  <2>6. CallInv' /\ call' \in [Request -> CallType]
    BY <1>1, <2>2, <2>3, <2>4, <2>5, OneCall
  <2>7. \A d \in Request : call'[d] = IF d = c THEN k ELSE call[d]
    BY <2>4, <2>5
  <2>8. LockInv'
    BY <1>1, <2>2, <2>7 DEF RouteInv, LockInv, Queued, At, Holds
  <2>9. TypesInv' /\ GoodInv'
    BY <1>1, <2>4, <2>6 DEF RouteInv, TypesInv, GoodInv
  <2> QED BY <2>6, <2>8, <2>9 DEF RouteInv
<1> QED BY <1>3, <1>4 DEF Retrieve

\* A cancelled request leaves no trace in the lock.
LEMMA StepCancel ==
  ASSUME RouteInv, NEW c \in Request, Cancel(c)
  PROVE  RouteInv'
<1>1. /\ Fail(c) /\ refreshLock' = Without(refreshLock, c)
      /\ UNCHANGED <<registryVars, policy, activeDuring>> /\ UNCHANGED <<lastGood, lastPair>>
  BY DEF Cancel
<1>2. Queue(refreshLock)
  BY DEF RouteInv, LockInv
<1>3. /\ Queue(refreshLock') /\ ToSet(refreshLock') = ToSet(refreshLock) \ {c}
      /\ refreshLock # <<>> /\ Head(refreshLock) # c =>
           refreshLock' # <<>> /\ Head(refreshLock') = Head(refreshLock)
  BY <1>1, <1>2, WithoutQueue
<1>4. \A d \in Request \ {c} : At(d, "verify") => Holds(d)'
  BY <1>3 DEF RouteInv, LockInv, Holds
<1> QED BY <1>1, <1>3, <1>4, StepFail

-----------------------------------------------------------------------------
(* The steps around the resolutions.                                       *)

\* The registry activates one version after another; requests under way see it.
LEMMA StepOperate ==
  ASSUME RouteInv, Operate
  PROVE  RouteInv'
<1>1. /\ Registry!Next /\ UNCHANGED <<policy, lastGood, lastPair, refreshLock, call>>
      /\ activeDuring' = [c \in Request |-> IF At(c, "idle") THEN activeDuring[c]
                                            ELSE activeDuring[c] \union Registry!Active']
  BY DEF Operate, resolverVars
<1>2. served \in Seq(Version) /\ Len(served) <= MaxRevision + 1 /\ activeDuring \in [Request -> SUBSET Version]
  BY DEF RouteInv, TypesInv
<1>3. served' \in Seq(Version) /\ Len(served') <= MaxRevision + 1
  <2>1. PICK v \in Version : Registry!Register(v) \/ Registry!Activate(v) \/ Registry!Remove(v)
    BY <1>1 DEF Registry!Next
  <2>2. CASE UNCHANGED served
    BY <1>2, <2>2
  <2>3. CASE Len(served) <= MaxRevision /\ served' = Append(served, v)
    BY <1>2, <2>3
  <2> QED BY <2>1, <2>2, <2>3 DEF Registry!Register, Registry!Activate, Registry!Remove
<1>4. Registry!Active' \subseteq Version
  BY <1>3 DEF Registry!Active
<1>5. activeDuring' \in [Request -> SUBSET Version]
  BY <1>1, <1>2, <1>4
<1>6. ASSUME NEW c \in Request
      PROVE  /\ activeDuring[c] \subseteq activeDuring'[c]
             /\ ~ At(c, "idle") => Registry!Active' \subseteq activeDuring'[c]
  BY <1>1
<1>7. TypesInv' /\ GoodInv'
  BY <1>1, <1>3, <1>5 DEF RouteInv, TypesInv, GoodInv
<1>8. LockInv'
  BY <1>1 DEF RouteInv, LockInv, Queue, Queued, At, Holds
<1>9. ASSUME NEW c \in Request
      PROVE  /\ ~ At(c, "idle")' => call'[c].policy \in Policy /\ Registry!Active' \subseteq activeDuring'[c]
             /\ \/ call'[c].step \in {"resolved", "waiting", "verify", "retrieve"}
                \/ call'[c].outcome = "retrieved"
                => Vouched(call'[c], activeDuring'[c])
             /\ At(c, "verify")' => Rotates(Pair(call[c].policy))'
  <2>1. call'[c] = call[c] /\ (At(c, "idle")' <=> At(c, "idle")) /\ (At(c, "verify")' <=> At(c, "verify"))
    BY <1>1 DEF At
  <2>2. Rotates(Pair(call[c].policy))' <=> Rotates(Pair(call[c].policy))
    BY <1>1 DEF Rotates
  <2>3. ~ At(c, "idle")' => call'[c].policy \in Policy /\ Registry!Active' \subseteq activeDuring'[c]
    <3>1. ASSUME ~ At(c, "idle")
          PROVE  call[c].policy \in Policy /\ Registry!Active' \subseteq activeDuring'[c]
      <4>1. Registry!Active' \subseteq activeDuring'[c]
        BY <1>6, <3>1
      <4> QED BY <3>1, <4>1 DEF RouteInv, CallInv
    <3> QED BY <2>1, <3>1
  <2>4. ASSUME \/ call'[c].step \in {"resolved", "waiting", "verify", "retrieve"}
               \/ call'[c].outcome = "retrieved"
        PROVE  Vouched(call'[c], activeDuring'[c])
    <3>1. Vouched(call[c], activeDuring[c])
      BY <2>1, <2>4 DEF RouteInv, CallInv
    <3>2. activeDuring[c] \subseteq activeDuring'[c]
      BY <1>6
    <3> QED BY <2>1, <3>1, <3>2 DEF Vouched
  <2>5. At(c, "verify")' => Rotates(Pair(call[c].policy))'
    BY <2>1, <2>2 DEF RouteInv, CallInv
  <2> QED BY <2>3, <2>4, <2>5
<1> QED BY <1>7, <1>8, <1>9 DEF RouteInv, CallInv

\* A policy that is supplied touches no request under way.
LEMMA StepSupplyPolicy ==
  ASSUME RouteInv, NEW p \in Policy, SupplyPolicy(p)
  PROVE  RouteInv'
<1>1. policy' = p /\ UNCHANGED <<served, lastGood, lastPair, refreshLock, call, activeDuring>>
  BY DEF SupplyPolicy, registryVars, resolverVars
<1>2. TypesInv' /\ GoodInv'
  BY <1>1 DEF RouteInv, TypesInv, GoodInv
<1>3. LockInv'
  BY <1>1 DEF RouteInv, LockInv, Queue, Queued, At, Holds
<1>4. CallInv'
  BY <1>1 DEF RouteInv, CallInv, At, Rotates, Registry!Active
<1> QED BY <1>2, <1>3, <1>4 DEF RouteInv

\* Nothing happens.
LEMMA StepNothing ==
  ASSUME RouteInv, UNCHANGED vars
  PROVE  RouteInv'
<1>1. UNCHANGED <<served, policy, lastGood, lastPair, refreshLock, call, activeDuring>>
  BY DEF vars, registryVars, resolverVars
<1>2. TypesInv' /\ GoodInv'
  BY <1>1 DEF RouteInv, TypesInv, GoodInv
<1>3. LockInv'
  BY <1>1 DEF RouteInv, LockInv, Queue, Queued, At, Holds
<1>4. CallInv'
  BY <1>1 DEF RouteInv, CallInv, At, Rotates, Registry!Active
<1> QED BY <1>2, <1>3, <1>4 DEF RouteInv

LEMMA StepInvariant == RouteInv /\ [Next]_vars => RouteInv'
<1> SUFFICES ASSUME RouteInv, [Next]_vars PROVE RouteInv'
  OBVIOUS
<1>1. CASE \E c \in Request : ResolveRoute(c) \/ Progress(c) \/ Cancel(c)
  BY <1>1, StepResolveRoute, StepActiveState, StepResolved, StepRefresh, StepVerifyRefresh,
     StepRetrieve, StepCancel DEF Progress
<1>2. CASE Operate
  BY <1>2, StepOperate
<1>3. CASE \E p \in Policy : SupplyPolicy(p)
  BY <1>3, StepSupplyPolicy
<1>4. CASE UNCHANGED vars
  BY <1>4, StepNothing
<1> QED BY <1>1, <1>2, <1>3, <1>4 DEF Next

LEMMA RouteInvariant == Spec => []RouteInv
<1>1. Init => RouteInv
  BY RouteInit
<1> QED BY <1>1, StepInvariant, PTL DEF Spec

-----------------------------------------------------------------------------
(* What follows.                                                           *)

\* The tables are well formed, and the lock queues the requests that wait or
\* verify, once each, the one that verifies first, however requests fail or
\* are cancelled.
THEOREM RouteTypeCorrect == Spec => []RouteTypeOK
<1>1. RouteInv => RouteTypeOK
  BY DEF RouteInv, TypesInv, LockInv, Queue, Queued, RouteTypeOK, CallType, Step
<1> QED BY <1>1, RouteInvariant, PTL

\* A request retrieves from a version that was active during that request, and
\* whose signer its policy trusts, for any number of requests and switches.
THEOREM RouteWasActiveAlways == Spec => []RouteWasActive
<1>1. RouteInv => RouteWasActive
  BY DEF RouteInv, CallInv, Vouched, RouteWasActive, At
<1> QED BY <1>1, RouteInvariant, PTL

\* What changes in a step of a request: its own record only, and of the
\* resolver's memory what its verification records.
LEMMA StepOfOne ==
  ASSUME RouteInv, NEW d \in Request, ResolveRoute(d) \/ Progress(d) \/ Cancel(d)
  PROVE  /\ \A c \in Request \ {d} : call'[c] = call[c]
         /\ \/ UNCHANGED <<lastGood, lastPair>>
            \/ /\ At(d, "verify") /\ At(d, "retrieve")' /\ Rotates(Pair(call[d].policy))
               /\ lastGood' = Fingerprint(d) /\ lastPair' = Pair(call[d].policy)
               /\ call'[d].policy = call[d].policy /\ call'[d].target = call[d].target
         /\ ~ At(d, "retrieve") /\ At(d, "retrieve")' => Pair(call'[d].policy) = lastPair'
<1>0. call \in [Request -> CallType]
  BY DEF RouteInv, TypesInv
<1>1. ASSUME Fail(d), UNCHANGED <<lastGood, lastPair>>
      PROVE  /\ \A c \in Request \ {d} : call'[c] = call[c]
             /\ UNCHANGED <<lastGood, lastPair>> /\ ~ At(d, "retrieve")'
  BY <1>0, <1>1 DEF Fail, Idle, At
<1>2. ASSUME Serve(d), lastGood = Fingerprint(d), UNCHANGED <<lastGood, lastPair>>,
             call[d].step \in {"resolved", "waiting"}
      PROVE  /\ \A c \in Request \ {d} : call'[c] = call[c]
             /\ UNCHANGED <<lastGood, lastPair>> /\ Pair(call'[d].policy) = lastPair'
  <2>1. call[d] \in CallType /\ call[d].policy \in Policy /\ call[d].target \in Version
    BY <1>2, CallParts DEF At
  <2>2. Pair(call[d].policy) \in Pairs
    BY <2>1 DEF Pairs
  <2>3. Fingerprint(d) \in FingerprintType /\ Fingerprint(d).pair = Pair(call[d].policy)
    BY <2>1, <2>2 DEF Fingerprint, FingerprintType, CallType
  <2>4. lastPair = Pair(call[d].policy)
    BY <1>2, <2>3 DEF RouteInv, GoodInv
  <2> QED BY <1>0, <1>2, <2>4 DEF Serve, Goto
<1>3. ASSUME NEW place, Goto(d, place), place # "retrieve", UNCHANGED <<lastGood, lastPair>>
      PROVE  /\ \A c \in Request \ {d} : call'[c] = call[c]
             /\ UNCHANGED <<lastGood, lastPair>> /\ ~ At(d, "retrieve")'
  BY <1>0, <1>3 DEF Goto, At
<1>4. CASE ResolveRoute(d)
  BY <1>0, <1>4 DEF ResolveRoute, resolverVars, At
<1>5. CASE ActiveState(d)
  <2>1. UNCHANGED <<lastGood, lastPair>>
    BY <1>5 DEF ActiveState, resolverVars
  <2>2. CASE Fail(d)
    BY <1>1, <2>1, <2>2
  <2>3. CASE call' = [call EXCEPT ![d].step = "resolved", ![d].target = Last(served),
                                  ![d].revision = Len(served) - 1]
    BY <1>0, <2>1, <2>3 DEF At
  <2> QED BY <1>5, <2>2, <2>3 DEF ActiveState
<1>6. CASE Resolved(d)
  BY <1>1, <1>2, <1>3, <1>6 DEF Resolved, At
<1>7. CASE Refresh(d)
  BY <1>1, <1>2, <1>3, <1>7 DEF Refresh, At
<1>8. CASE VerifyRefresh(d)
  <2>1. CASE Fail(d) /\ UNCHANGED <<lastGood, lastPair>>
    BY <1>1, <2>1
  <2>2. CASE lastGood' = Fingerprint(d) /\ lastPair' = Pair(call[d].policy) /\ Serve(d)
    <3>1. At(d, "verify") /\ Rotates(Pair(call[d].policy))
      BY <1>8, CallParts DEF VerifyRefresh
    <3>2. /\ \A c \in Request \ {d} : call'[c] = call[c]
          /\ call'[d].policy = call[d].policy /\ call'[d].target = call[d].target
          /\ At(d, "retrieve")'
      BY <1>0, <2>2 DEF Serve, Goto, At, CallType
    <3> QED BY <2>2, <3>1, <3>2
  <2> QED BY <1>8, <2>1, <2>2 DEF VerifyRefresh
<1>9. CASE Retrieve(d)
  BY <1>0, <1>9 DEF Retrieve, resolverVars, At, Fail
<1>10. CASE Cancel(d)
  BY <1>1, <1>10 DEF Cancel
<1> QED BY <1>4, <1>5, <1>6, <1>7, <1>8, <1>9, <1>10 DEF Progress

\* A policy that has vouched for a route is followed only by newer ones of another
\* version, and a route is served under the policy on record.
THEOREM PolicyNeverRegressesAlways == Spec => PolicyNeverRegresses
<1> DEFINE A == /\ lastPair # None =>
                     \/ lastPair' = lastPair
                     \/ /\ lastPair' # None
                        /\ lastPair'.generation > lastPair.generation
                        /\ lastPair'.version # lastPair.version
                /\ \A c \in Request :
                     ~ At(c, "retrieve") /\ At(c, "retrieve")' => Pair(call'[c].policy) = lastPair'
<1>1. ASSUME RouteInv, NEW d \in Request, ResolveRoute(d) \/ Progress(d) \/ Cancel(d)
      PROVE  A
  <2>1. \A c \in Request \ {d} : At(c, "retrieve")' => At(c, "retrieve")
    BY <1>1, StepOfOne DEF At
  <2>2. ~ At(d, "retrieve") /\ At(d, "retrieve")' => Pair(call'[d].policy) = lastPair'
    BY <1>1, StepOfOne
  <2>3. ASSUME lastPair # None
        PROVE  \/ lastPair' = lastPair
               \/ /\ lastPair' # None
                  /\ lastPair'.generation > lastPair.generation
                  /\ lastPair'.version # lastPair.version
    <3>1. CASE UNCHANGED lastPair
      BY <3>1
    <3>2. CASE lastPair' = Pair(call[d].policy) /\ Rotates(Pair(call[d].policy)) /\ At(d, "verify")
      <4>1. call[d].policy \in Policy
        BY <1>1, <3>2, CallParts DEF At
      <4>2. lastPair' # None
        BY <4>1, <3>2 DEF Pairs
      <4> QED BY <2>3, <3>2, <4>2 DEF Rotates
    <3> QED BY <1>1, <3>1, <3>2, StepOfOne
  <2> QED BY <2>1, <2>2, <2>3
<1>2. ASSUME UNCHANGED <<lastPair, call>>
      PROVE  A
  BY <1>2 DEF At
<1>3. RouteInv /\ [Next]_vars => A \/ UNCHANGED vars
  <2> SUFFICES ASSUME RouteInv, Next PROVE A
    OBVIOUS
  <2>1. CASE Operate
    BY <1>2, <2>1 DEF Operate, resolverVars
  <2>2. CASE \E p \in Policy : SupplyPolicy(p)
    BY <1>2, <2>2 DEF SupplyPolicy, resolverVars
  <2> QED BY <1>1, <2>1, <2>2 DEF Next
<1>4. RouteInv /\ [Next]_vars => [A]_vars
  BY <1>3
<1> HIDE DEF A
<1>5. Spec => [][A]_vars
  BY <1>4, RouteInvariant, PTL DEF Spec
<1> QED BY <1>5 DEF PolicyNeverRegresses, A

\* The version on record as verified is one its own request goes on with, and
\* it comes with that request's policy.
THEOREM RecordedByItsOwnAlways == Spec => RecordedByItsOwn
<1> DEFINE A == lastGood' # lastGood =>
                  \E c \in Request :
                    /\ At(c, "verify") /\ At(c, "retrieve")'
                    /\ lastGood'.target = call'[c].target /\ lastGood'.pair = lastPair'
<1>1. ASSUME RouteInv, NEW d \in Request, ResolveRoute(d) \/ Progress(d) \/ Cancel(d)
      PROVE  A
  <2>1. CASE UNCHANGED lastGood
    BY <2>1
  <2>2. CASE /\ At(d, "verify") /\ At(d, "retrieve")'
             /\ lastGood' = Fingerprint(d) /\ lastPair' = Pair(call[d].policy)
             /\ call'[d].target = call[d].target
    BY <2>2 DEF Fingerprint
  <2> QED BY <1>1, <2>1, <2>2, StepOfOne
<1>2. RouteInv /\ [Next]_vars => A \/ UNCHANGED vars
  <2> SUFFICES ASSUME RouteInv, Next PROVE A
    OBVIOUS
  <2>1. CASE Operate \/ \E p \in Policy : SupplyPolicy(p)
    BY <2>1 DEF Operate, SupplyPolicy, resolverVars
  <2> QED BY <1>1, <2>1 DEF Next
<1>3. RouteInv /\ [Next]_vars => [A]_vars
  BY <1>2
<1> HIDE DEF A
<1>4. Spec => [][A]_vars
  BY <1>3, RouteInvariant, PTL DEF Spec
<1> QED BY <1>4 DEF RecordedByItsOwn, A
=============================================================================
