---------------------------- MODULE RetrievalRoute ----------------------------
(***************************************************************************)
(* LifecycleRetrievalRouteResolver (retrieval_route.py) over the corpus    *)
(* lifecycle registry: each request takes the trust policy now supplied,   *)
(* reads the active version, has its candidate verified once for a new     *)
(* pointer or policy, and retrieves from that exact version.  Operators    *)
(* switch and remove versions, and policies are replaced, at any time      *)
(* between two awaits of a request.                                        *)
(*                                                                         *)
(* A version's evidence is a function of the version, candidates being     *)
(* immutable, so a fingerprint is the version, the pointer's revision and  *)
(* the policy's version and generation.                                    *)
(***************************************************************************)
EXTENDS Integers, Sequences, SequencesExt

CONSTANTS
  Request,
  Version, MaxRevision,
  None,
  SignerOf,     \* SignerOf[v]: the identity that attested version v
  Compatible,   \* versions of the expected embedding identity and dimensions
  Policy,       \* policies supplied: version, generation, trusted identities
  MaxCalls,     \* bound: routes resolved
  MaxSupplied   \* bound: policies supplied

Pair(p) == [version |-> p.version, generation |-> p.generation]
Pairs == {Pair(p) : p \in Policy}
FingerprintType == [target : Version, revision : 0 .. MaxRevision, pair : Pairs]

ASSUME RouteAssumption ==
  /\ Compatible \subseteq Version
  /\ None \notin Version \union Pairs \union FingerprintType \union {"retrieved"}
  /\ \A p \in Policy : p.generation \in Nat
  /\ MaxRevision \in Nat /\ MaxCalls \in Nat /\ MaxSupplied \in Nat

VARIABLES
  registered, removed, served,   \* the registry (CorpusHistory)
  policy,       \* the policy the supplier answers with
  lastGood,     \* _last_good_fingerprint
  lastPair,     \* _last_policy_pair
  refreshLock,  \* _refresh_lock: its holder, then those waiting, in order
  call,         \* the resolution each request is in
  activeDuring, \* versions active at some time of it
  calls, supplied

Registry == INSTANCE CorpusHistory
registryVars == <<registered, removed, served>>
resolverVars == <<lastGood, lastPair, refreshLock>>
vars == <<registryVars, policy, resolverVars, call, activeDuring, calls, supplied>>

-----------------------------------------------------------------------------

Idle ==
  [step |-> "idle", policy |-> None, target |-> None, revision |-> 0, outcome |-> None]

Fingerprint(c) ==
  [target |-> call[c].target, revision |-> call[c].revision, pair |-> Pair(call[c].policy)]

At(c, step) == call[c].step = step
Holds(c) == refreshLock # <<>> /\ Head(refreshLock) = c

\* _validate_policy_rotation
Rotates(pair) ==
  \/ lastPair = None
  \/ pair = lastPair
  \/ pair.generation > lastPair.generation /\ pair.version # lastPair.version

\* A queue that c is in once at most, without c.
Without(s, c) ==
  IF c \notin ToSet(s) THEN s
  ELSE LET i == CHOOSE i \in DOMAIN s : s[i] = c
       IN [j \in 1 .. Len(s) - 1 |-> IF j < i THEN s[j] ELSE s[j + 1]]

Goto(c, step) == call' = [call EXCEPT ![c].step = step]
Fail(c) == call' = [call EXCEPT ![c] = Idle]

\* As below, bound to the version that was verified last.
ServeLast(c) ==
  call' = [call EXCEPT ![c].step = "retrieve",
                       ![c].target = IF lastGood = None THEN @ ELSE lastGood.target]

\* The binding and the route are made without an await.
Serve(c) == Goto(c, "retrieve")

-----------------------------------------------------------------------------

\* The supplier's policy is the one of the whole resolution.
ResolveRoute(c) ==
  /\ At(c, "idle") /\ calls < MaxCalls
  /\ calls' = calls + 1
  /\ call' = [call EXCEPT ![c] = [Idle EXCEPT !.step = "active", !.policy = policy]]
  /\ activeDuring' = [activeDuring EXCEPT ![c] = Registry!Active]
  /\ UNCHANGED <<registryVars, policy, resolverVars, supplied>>

\* resolve_active_state: the pointer is read, and its signer must be allowed.
ActiveState(c) ==
  /\ At(c, "active")
  /\ IF \E v \in Registry!Active : SignerOf[v] \in call[c].policy.trusted
     THEN call' = [call EXCEPT ![c].step = "resolved",
                               ![c].target = Last(served),
                               ![c].revision = Len(served) - 1]
     ELSE Fail(c)
  /\ UNCHANGED <<registryVars, policy, resolverVars, activeDuring, calls, supplied>>

Resolved(c) ==
  /\ At(c, "resolved")
  /\ IF call[c].target \notin Compatible \/ ~ Rotates(Pair(call[c].policy))
     THEN Fail(c) /\ UNCHANGED refreshLock
     ELSE IF lastGood = Fingerprint(c)
     THEN Serve(c) /\ UNCHANGED refreshLock
     ELSE /\ refreshLock' = Append(refreshLock, c)
          /\ Goto(c, IF refreshLock = <<>> THEN "verify" ELSE "waiting")
  /\ UNCHANGED <<registryVars, policy, lastGood, lastPair, activeDuring, calls, supplied>>

\* As below, without the second look at the policy.
RefreshUnchecked(c) ==
  /\ At(c, "waiting") /\ Holds(c)
  /\ IF lastGood = Fingerprint(c)
     THEN Serve(c) /\ refreshLock' = Tail(refreshLock)
     ELSE Goto(c, "verify") /\ UNCHANGED refreshLock
  /\ UNCHANGED <<registryVars, policy, lastGood, lastPair, activeDuring, calls, supplied>>

\* Under the lock the policy and the fingerprint are compared again.
Refresh(c) ==
  /\ At(c, "waiting") /\ Holds(c)
  /\ IF ~ Rotates(Pair(call[c].policy))
     THEN Fail(c) /\ refreshLock' = Tail(refreshLock)
     ELSE IF lastGood = Fingerprint(c)
     THEN Serve(c) /\ refreshLock' = Tail(refreshLock)
     ELSE Goto(c, "verify") /\ UNCHANGED refreshLock
  /\ UNCHANGED <<registryVars, policy, lastGood, lastPair, activeDuring, calls, supplied>>

\* The candidate is verified by the policy's own verifier and gives the very
\* evidence of the registry, or the request fails and the old one stays.
VerifyRefresh(c) ==
  /\ At(c, "verify")
  /\ \/ /\ lastGood' = Fingerprint(c)
        /\ lastPair' = Pair(call[c].policy)
        /\ Serve(c)
     \/ Fail(c) /\ UNCHANGED <<lastGood, lastPair>>
  /\ refreshLock' = Tail(refreshLock)
  /\ UNCHANGED <<registryVars, policy, activeDuring, calls, supplied>>

\* chat_event_stream: the request and the adapter keep the route's exact scope.
Retrieve(c) ==
  /\ At(c, "retrieve")
  /\ \/ call' = [call EXCEPT ![c].step = "idle", ![c].outcome = "retrieved"]
     \/ Fail(c)
  /\ UNCHANGED <<registryVars, policy, resolverVars, activeDuring, calls, supplied>>

\* As below, leaving the lock with a request that is gone.
CancelHolding(c) ==
  /\ ~ At(c, "idle")
  /\ Fail(c)
  /\ refreshLock' = IF Holds(c) THEN refreshLock ELSE Without(refreshLock, c)
  /\ UNCHANGED <<registryVars, policy, lastGood, lastPair, activeDuring, calls, supplied>>

\* A cancellation at any await leaves the lock.
Cancel(c) ==
  /\ ~ At(c, "idle")
  /\ Fail(c)
  /\ refreshLock' = Without(refreshLock, c)
  /\ UNCHANGED <<registryVars, policy, lastGood, lastPair, activeDuring, calls, supplied>>

\* Operators change the registry, through the corpus lifecycle service.
Operate ==
  /\ Registry!Next
  /\ activeDuring' =
       [c \in Request |-> IF At(c, "idle") THEN activeDuring[c]
                          ELSE activeDuring[c] \union Registry!Active']
  /\ UNCHANGED <<policy, resolverVars, call, calls, supplied>>

\* The supplier is given another policy, not always a newer one.
SupplyPolicy(p) ==
  /\ supplied < MaxSupplied /\ supplied' = supplied + 1
  /\ policy' = p
  /\ UNCHANGED <<registryVars, resolverVars, call, activeDuring, calls>>

Init ==
  /\ Registry!Init
  /\ policy \in Policy
  /\ lastGood = None /\ lastPair = None /\ refreshLock = <<>>
  /\ call = [c \in Request |-> Idle]
  /\ activeDuring = [c \in Request |-> {}]
  /\ calls = 0 /\ supplied = 0

Progress(c) ==
  ActiveState(c) \/ Resolved(c) \/ Refresh(c) \/ VerifyRefresh(c) \/ Retrieve(c)

Next ==
  \/ \E c \in Request : ResolveRoute(c) \/ Progress(c) \/ Cancel(c)
  \/ Operate
  \/ \E p \in Policy : SupplyPolicy(p)

Spec == Init /\ [][Next]_vars

\* Every await of a request is bounded by a timeout, and the lock is fair.
FairSpec == Spec /\ \A c \in Request : WF_vars(Progress(c))

-----------------------------------------------------------------------------

\* The type of the state; the lock is queued for by each request once, by those
\* that verify or wait, the one that verifies first.
RouteTypeOK ==
  /\ policy \in Policy
  /\ lastGood \in FingerprintType \union {None}
  /\ lastPair \in Pairs \union {None}
  /\ call \in [Request ->
       [step : {"idle", "active", "resolved", "waiting", "verify", "retrieve"},
        policy : Policy \union {None}, target : Version \union {None},
        revision : 0 .. MaxRevision, outcome : {"retrieved", None}]]
  /\ IsInjective(refreshLock)
  /\ ToSet(refreshLock) = {c \in Request : call[c].step \in {"waiting", "verify"}}
  /\ \A c \in Request : At(c, "verify") => Holds(c)

\* What a request retrieves from was the active version at some time of that
\* very request, attested by an identity its policy trusts - not a version
\* that was rolled back or removed before the request began, however long
\* others held the lock.
RouteWasActive ==
  \A c \in Request :
    At(c, "retrieve") \/ call[c].outcome = "retrieved" =>
      /\ call[c].target \in activeDuring[c]
      /\ SignerOf[call[c].target] \in call[c].policy.trusted

\* Once a policy has vouched for a route, no request is given a route under an
\* older policy, nor under another one of the same generation, nor under a newer
\* one that goes by the same version (_validate_policy_rotation, asked again
\* once the lock is held).
PolicyNeverRegresses ==
  [][/\ lastPair # None =>
          \/ lastPair' = lastPair
          \/ /\ lastPair' # None
             /\ lastPair'.generation > lastPair.generation
             /\ lastPair'.version # lastPair.version
     /\ \A c \in Request :
          ~ At(c, "retrieve") /\ At(c, "retrieve")' => Pair(call'[c].policy) = lastPair']_vars

\* The fingerprint on record and the policy on record are of one verification,
\* and it is replaced only by a verification that succeeded: the request that
\* ran it goes on with the version it verified.
RecordedByItsOwn ==
  [][lastGood' # lastGood =>
       \E c \in Request :
         /\ At(c, "verify") /\ At(c, "retrieve")'
         /\ lastGood'.target = call'[c].target /\ lastGood'.pair = lastPair']_vars

\* Every resolution ends: a request that fails or is cancelled with the lock in
\* its hands does not leave the others waiting.
ResolutionEnds == \A c \in Request : ~ At(c, "idle") ~> At(c, "idle")
=============================================================================
