----------------------- MODULE CorpusLifecycle_proofs -----------------------
(***************************************************************************)
(* Proofs about the corpus lifecycle registry, for any operators, versions *)
(* and revision bound.                                                     *)
(*                                                                         *)
(* The inductive invariant has three parts: the documents fit one another  *)
(* and chain (RegistryInv); every commit that can still reach the store    *)
(* asks for a switch that leads elsewhere and within the revision bound    *)
(* (StrayInv); a call in progress has checked what its phase says it has   *)
(* (CallsInv).  ReceiptsHonest rides on it, because no step loses an audit.*)
(***************************************************************************)
EXTENDS CorpusLifecycle, Sequences, TLAPS

USE NoneAssumption, RetryAssumption, RevisionBound

Committing == {"commit", "conflict", "unknown"}

RegistryTypes ==
  /\ states \in [Version -> State]
  /\ lifecycleAudits \in [Version -> SUBSET {0, 1}]
  /\ pointer \in ActiveCorpusPointer \cup {None}
  /\ DOMAIN activeAudits \subseteq Revision
  /\ \A r \in DOMAIN activeAudits : activeAudits[r] \in ActiveAudit

RegistryInv ==
  /\ RegistryTypes
  /\ \A v \in Version : lifecycleAudits[v] = AuditsOf(states[v])
  /\ pointer # None => states[pointer.target] = "ready"
  /\ AuditsChain
  /\ 0 \in DOMAIN activeAudits => activeAudits[0].action = "promote"

\* A switch that may be committed.
Fits(t) ==
  t.action \in SwitchAction =>
    /\ t.expected = None => t.action = "promote"
    /\ t.expected # None => /\ t.expected.target # t.target
                            /\ t.expected.revision < MaxRevision
StrayInv == stray \subseteq Transaction /\ \A t \in stray : Fits(t)

\* What a call in each phase has established.
CallFits(call) ==
  /\ call.phase # "idle" => call.request \in Request /\ call.outcome = None
  /\ call.outcome # None => call.request \in Request
  /\ call.outcome = "resolved" => call.seen # None
  /\ call.phase = "verify" => call.request.action = "ready"
  /\ call.phase \in {"verify", "lookup"} => call.seen = None
  /\ call.phase = "lookup" => call.request.action \in {"ready", "remove"}
  /\ call.phase \in {"active", "removed"} => call.request.action = "remove"
  /\ call.phase = "removed" => 1 \in lifecycleAudits[call.request.target]
  /\ call.phase = "current" =>
       call.request.action \in SwitchAction \cup {"resolve"}
  /\ call.phase = "target" =>
       /\ call.request.action \in SwitchAction
       /\ \/ Expects(call.request, call.seen)
          \/ ReplayCandidate(call.request, call.seen)
       /\ call.seen # None =>
            /\ call.seen.revision \in DOMAIN activeAudits
            /\ activeAudits[call.seen.revision] =
                 [action |-> call.seen.action, before |-> call.seen.before,
                  after |-> call.seen.target]
  /\ call.phase \in Committing =>
       /\ call.request.action \in {"ready", "remove"} \cup SwitchAction
       /\ call.request.action \in SwitchAction =>
            Expects(call.request, call.seen)
CallsInv ==
  calls \in [Operator -> Call] /\ \A o \in Operator : CallFits(calls[o])

IInv == RegistryInv /\ StrayInv /\ CallsInv /\ ReceiptsHonest

\* No step loses an audit.
Kept ==
  /\ \A r \in DOMAIN activeAudits :
       r \in DOMAIN activeAudits' /\ activeAudits'[r] = activeAudits[r]
  /\ \A v \in Version : lifecycleAudits[v] \subseteq lifecycleAudits'[v]

-----------------------------------------------------------------------------
(* Requests and calls.                                                     *)

LEMMA RequestParts ==
  ASSUME NEW r \in Request
  PROVE  /\ r.action \in {"ready", "remove", "resolve"} \cup SwitchAction
         /\ r.action # "resolve" => r.target \in Version
         /\ r.action \in {"ready", "remove"} => r.expected = None
         /\ r.action \in SwitchAction =>
              /\ r.expected \in ActiveCorpusPointer \cup {None}
              /\ r.action = "rollback" => r.expected # None
              /\ r.expected # None => /\ r.expected.target # r.target
                                      /\ r.expected.revision < MaxRevision
<1>1. CASE r \in [action : {"ready", "remove"}, target : Version,
                  expected : {None}]
  BY <1>1 DEF SwitchAction
<1>2. CASE r \in [action : {"resolve"}, target : {None}, expected : {None}]
  BY <1>2 DEF SwitchAction
<1>3. CASE /\ r \in [action : SwitchAction, target : Version,
                     expected : ActiveCorpusPointer \cup {None}]
           /\ r.action = "rollback" => r.expected # None
           /\ r.expected # None => /\ r.expected.target # r.target
                                   /\ r.expected.revision < MaxRevision
  BY <1>3 DEF SwitchAction
<1> QED
  BY <1>1, <1>2, <1>3 DEF Request

\* What the pointer document shows is one of its audits.
LEMMA SnapshotParts ==
  ASSUME RegistryInv
  PROVE  /\ ActiveSnapshot \in ActivePointerSnapshot \cup {None}
         /\ ActiveSnapshot = None <=> pointer = None
         /\ pointer # None =>
              /\ ActiveSnapshot.target = pointer.target
              /\ ActiveSnapshot.revision = pointer.revision
              /\ pointer.revision \in DOMAIN activeAudits
              /\ activeAudits[pointer.revision] =
                   [action |-> ActiveSnapshot.action,
                    before |-> ActiveSnapshot.before,
                    after |-> ActiveSnapshot.target]
<1>1. CASE pointer = None
  BY <1>1 DEF ActiveSnapshot
<1>2. CASE pointer # None
  <2>1. /\ pointer \in ActiveCorpusPointer
        /\ pointer.revision \in DOMAIN activeAudits
        /\ activeAudits[pointer.revision].after = pointer.target
        /\ activeAudits[pointer.revision] \in ActiveAudit
    BY <1>2 DEF RegistryInv, RegistryTypes, AuditsChain, ActiveCorpusPointer,
                Revision
  <2>2. ActiveSnapshot \in ActivePointerSnapshot
    BY <1>2, <2>1 DEF ActiveSnapshot, ActivePointerSnapshot,
                      ActiveCorpusPointer, ActiveAudit
  <2>3. ActiveSnapshot # None
    BY <2>2
  <2> QED
    BY <1>2, <2>1, <2>2, <2>3 DEF ActiveSnapshot, ActiveAudit
<1> QED
  BY <1>1, <1>2

-----------------------------------------------------------------------------
(* The three commits.                                                      *)

LEMMA SwitchKeeps ==
  ASSUME RegistryInv, NEW t \in Transaction, t.action \in SwitchAction,
         Fits(t), Valid(t), Switch(t)
  PROVE  /\ RegistryInv' /\ Kept
         /\ NextRevision(t.expected) \in DOMAIN activeAudits'
         /\ activeAudits'[NextRevision(t.expected)] =
              [action |-> t.action, before |-> TargetOf(t.expected),
               after |-> t.target]
<1> DEFINE revision == NextRevision(t.expected)
           audit == [action |-> t.action, before |-> TargetOf(t.expected),
                     after |-> t.target]
<1>1. ActiveSnapshot = t.expected /\ states[t.target] = "ready"
  BY DEF Valid, SwitchAction
<1>2. /\ t.target \in Version
      /\ t.expected \in ActivePointerSnapshot \cup {None}
  BY DEF Transaction
<1>3. /\ pointer' = [target |-> t.target, revision |-> revision]
      /\ activeAudits' = [r \in DOMAIN activeAudits \cup {revision} |->
                            IF r = revision THEN audit ELSE activeAudits[r]]
      /\ UNCHANGED <<states, lifecycleAudits>>
  BY DEF Switch
<1>4. /\ revision \in Revision
      /\ revision \notin DOMAIN activeAudits
      /\ DOMAIN activeAudits \cup {revision} = 0 .. revision
  <2>1. CASE pointer = None
    <3>1. t.expected = None
      BY <1>1, <2>1, SnapshotParts
    <3>2. revision = 0 /\ DOMAIN activeAudits = {}
      BY <3>1, <2>1 DEF NextRevision, RegistryInv, AuditsChain
    <3> QED
      BY <3>2 DEF Revision
  <2>2. CASE pointer # None
    <3>1. t.expected # None /\ t.expected.revision = pointer.revision
      BY <1>1, <2>2, SnapshotParts
    <3>2. pointer.revision \in 0 .. MaxRevision
      BY <2>2 DEF RegistryInv, RegistryTypes, ActiveCorpusPointer, Revision
    <3>3. revision = pointer.revision + 1 /\ pointer.revision < MaxRevision
      BY <3>1 DEF NextRevision, Fits
    <3>4. DOMAIN activeAudits = 0 .. pointer.revision
      BY <2>2 DEF RegistryInv, AuditsChain
    <3> QED
      BY <3>2, <3>3, <3>4 DEF Revision
  <2> QED
    BY <2>1, <2>2
<1>5. audit.before \in Version \cup {None} /\ audit.before # t.target
  BY <1>2 DEF TargetOf, ActivePointerSnapshot, Fits
<1>6. audit \in ActiveAudit
  BY <1>2, <1>5 DEF ActiveAudit
<1>7. DOMAIN activeAudits' = 0 .. revision
  BY <1>3, <1>4
<1>8. /\ activeAudits'[revision] = audit
      /\ \A r \in DOMAIN activeAudits : activeAudits'[r] = activeAudits[r]
  BY <1>3, <1>4
<1>9. RegistryTypes'
  <2>1. pointer' \in ActiveCorpusPointer
    BY <1>2, <1>3, <1>4 DEF ActiveCorpusPointer
  <2>2. \A r \in DOMAIN activeAudits' : activeAudits'[r] \in ActiveAudit
    BY <1>3, <1>6, <1>8 DEF RegistryInv, RegistryTypes
  <2>3. DOMAIN activeAudits' \subseteq Revision
    BY <1>4, <1>7 DEF Revision
  <2> QED
    BY <1>3, <2>1, <2>2, <2>3 DEF RegistryInv, RegistryTypes
<1>10. AuditsChain'
  <2>1. pointer' # None
    <3>1. pointer' \in ActiveCorpusPointer
      BY <1>2, <1>3, <1>4 DEF ActiveCorpusPointer
    <3> QED
      BY <3>1
  <2>2. activeAudits'[pointer'.revision].after = pointer'.target
    BY <1>3, <1>8
  <2>3. ASSUME NEW r \in DOMAIN activeAudits'
        PROVE  /\ activeAudits'[r].before # activeAudits'[r].after
               /\ activeAudits'[r].before =
                    IF r = 0 THEN None ELSE activeAudits'[r - 1].after
    <3>1. CASE r = revision
      <4>1. activeAudits'[r].before # activeAudits'[r].after
        BY <3>1, <1>5, <1>8
      <4>2. CASE pointer = None
        <5>1. t.expected = None
          BY <1>1, <4>2, SnapshotParts
        <5>2. r = 0 /\ audit.before = None
          BY <5>1, <3>1 DEF NextRevision, TargetOf
        <5> QED
          BY <4>1, <5>2, <3>1, <1>8
      <4>3. CASE pointer # None
        <5>1. /\ t.expected # None /\ t.expected.revision = pointer.revision
              /\ t.expected.target = pointer.target
          BY <1>1, <4>3, SnapshotParts
        <5>2. /\ pointer.revision \in Nat
              /\ pointer.revision \in DOMAIN activeAudits
              /\ activeAudits[pointer.revision].after = pointer.target
          BY <4>3, SnapshotParts
          DEF RegistryInv, RegistryTypes, ActiveCorpusPointer, Revision,
              AuditsChain
        <5>3. r = pointer.revision + 1 /\ r # 0 /\ r - 1 = pointer.revision
          BY <3>1, <5>1, <5>2 DEF NextRevision
        <5>4. activeAudits'[r].before = pointer.target
          BY <3>1, <1>8, <5>1 DEF TargetOf
        <5>5. activeAudits'[r - 1].after = pointer.target
          BY <5>3, <5>2, <1>8
        <5> QED
          BY <4>1, <5>3, <5>4, <5>5
      <4> QED
        BY <4>1, <4>2, <4>3
    <3>2. CASE r # revision
      <4>1. r \in DOMAIN activeAudits /\ r \in 0 .. revision
        BY <3>2, <1>3, <1>7
      <4>2. /\ activeAudits[r].before # activeAudits[r].after
            /\ activeAudits[r].before =
                 IF r = 0 THEN None ELSE activeAudits[r - 1].after
        BY <4>1 DEF RegistryInv, AuditsChain
      <4>3. r # 0 => r - 1 \in DOMAIN activeAudits
        <5>1. revision \in Nat
          BY <1>4 DEF Revision
        <5>2. r # 0 => r - 1 \in 0 .. revision /\ r - 1 # revision
          BY <4>1, <5>1
        <5> QED
          BY <5>2, <1>4
      <4> QED
        BY <4>1, <4>2, <4>3, <1>8
    <3> QED
      BY <3>1, <3>2
  <2>4. pointer'.revision = revision
    BY <1>3
  <2> QED
    BY <1>7, <2>1, <2>2, <2>3, <2>4 DEF AuditsChain
<1>11. 0 \in DOMAIN activeAudits' => activeAudits'[0].action = "promote"
  <2>1. CASE pointer = None
    <3>1. revision = 0 /\ t.action = "promote"
      BY <2>1, <1>1, SnapshotParts DEF NextRevision, Fits
    <3> QED
      BY <3>1, <1>8
  <2>2. CASE pointer # None
    <3>1. 0 \in DOMAIN activeAudits
      BY <2>2 DEF RegistryInv, RegistryTypes, AuditsChain, ActiveCorpusPointer,
                  Revision
    <3> QED
      BY <3>1, <1>8 DEF RegistryInv
  <2> QED
    BY <2>1, <2>2
<1>12. RegistryInv'
  BY <1>1, <1>3, <1>9, <1>10, <1>11 DEF RegistryInv
<1>13. Kept
  BY <1>3, <1>8 DEF Kept
<1> QED
  BY <1>7, <1>8, <1>12, <1>13, <1>3, <1>4

LEMMA MarkKeeps ==
  ASSUME RegistryInv, NEW v \in Version, NEW state \in State,
         Mark(v, state),
         \/ states[v] = "absent" /\ state = "ready"
         \/ /\ states[v] = "ready" /\ state = "logically_removed"
            /\ pointer # None => pointer.target # v
  PROVE  /\ RegistryInv' /\ Kept
         /\ states'[v] = state /\ lifecycleAudits'[v] = AuditsOf(state)
<1>1. /\ states' = [states EXCEPT ![v] = state]
      /\ lifecycleAudits' = [lifecycleAudits EXCEPT ![v] = AuditsOf(state)]
      /\ UNCHANGED <<pointer, activeAudits>>
  BY DEF Mark
<1>2. RegistryTypes
  BY DEF RegistryInv
<1>3. AuditsOf(state) \in SUBSET {0, 1}
  BY DEF AuditsOf
<1>4. RegistryTypes'
  BY <1>1, <1>2, <1>3 DEF RegistryTypes
<1>5. \A w \in Version : lifecycleAudits'[w] = AuditsOf(states'[w])
  BY <1>1, <1>2 DEF RegistryInv, RegistryTypes
<1>6. pointer' # None => states'[pointer'.target] = "ready"
  BY <1>1, <1>2 DEF RegistryInv, RegistryTypes, ActiveCorpusPointer
<1>7. AuditsChain'
  BY <1>1 DEF RegistryInv, AuditsChain
<1>8. \A w \in Version : lifecycleAudits[w] \subseteq lifecycleAudits'[w]
  BY <1>1, <1>2 DEF RegistryInv, RegistryTypes, AuditsOf
<1> QED
  BY <1>1, <1>2, <1>4, <1>5, <1>6, <1>7, <1>8
  DEF RegistryInv, RegistryTypes, Kept

LEMMA ApplyKeeps ==
  ASSUME RegistryInv, NEW t \in Transaction, Fits(t), Valid(t), Apply(t)
  PROVE  /\ RegistryInv' /\ Kept
         /\ t.action = "ready" => 0 \in lifecycleAudits'[t.target]
         /\ t.action = "remove" => 1 \in lifecycleAudits'[t.target]
         /\ t.action \in SwitchAction =>
              /\ NextRevision(t.expected) \in DOMAIN activeAudits'
              /\ activeAudits'[NextRevision(t.expected)] =
                   [action |-> t.action, before |-> TargetOf(t.expected),
                    after |-> t.target]
<1>1. t.target \in Version /\ t.action \in {"ready", "remove"} \cup SwitchAction
  BY DEF Transaction
<1>2. CASE t.action = "ready"
  <2>1. states[t.target] = "absent" /\ Mark(t.target, "ready")
    BY <1>2 DEF Valid, Apply, SwitchAction
  <2>2. /\ RegistryInv' /\ Kept
        /\ lifecycleAudits'[t.target] = AuditsOf("ready")
    BY <1>1, <2>1, MarkKeeps DEF State
  <2> QED
    BY <1>2, <2>2 DEF AuditsOf, SwitchAction
<1>3. CASE t.action = "remove"
  <2>1. /\ ActiveSnapshot = t.expected /\ states[t.target] = "ready"
        /\ TargetOf(t.expected) # t.target
        /\ Mark(t.target, "logically_removed")
    BY <1>3 DEF Valid, Apply, SwitchAction
  <2>2. pointer # None => pointer.target # t.target
    BY <2>1, SnapshotParts DEF TargetOf
  <2>3. /\ RegistryInv' /\ Kept
        /\ lifecycleAudits'[t.target] = AuditsOf("logically_removed")
    BY <1>1, <2>1, <2>2, MarkKeeps DEF State
  <2> QED
    BY <1>3, <2>3 DEF AuditsOf, SwitchAction
<1>4. CASE t.action \in SwitchAction
  <2>1. Switch(t)
    BY <1>4 DEF Apply, SwitchAction
  <2> QED
    BY <1>4, <2>1, SwitchKeeps DEF SwitchAction
<1> QED
  BY <1>1, <1>2, <1>3, <1>4

-----------------------------------------------------------------------------
(* Calls.                                                                  *)

\* What a call has established and reported outlives a step that keeps audits.
LEMMA CallLasts ==
  ASSUME NEW call \in Call, CallFits(call), ReceiptHonest(call), Kept
  PROVE  CallFits(call)' /\ ReceiptHonest(call)'
<1>1. CallFits(call)'
  <2>1. CASE call.phase = "target"
    BY <2>1 DEF CallFits, Kept, Committing
  <2>2. CASE call.phase = "removed"
    <3>1. call.request.target \in Version
      BY <2>2, RequestParts DEF CallFits
    <3> QED
      BY <2>2, <3>1 DEF CallFits, Kept, Committing
  <2>3. CASE call.phase \notin {"target", "removed"}
    BY <2>3 DEF CallFits
  <2> QED
    BY <2>1, <2>2, <2>3
<1>2. CASE call.outcome \in {"applied", "confirmed"}
  <2>1. call.outcome # None /\ call.outcome # "resolved"
    BY <1>2 DEF Disposition
  <2>2. call.request \in Request
    BY <2>1 DEF CallFits
  <2>3. CASE call.request.action \in {"ready", "remove"}
    <3>1. call.request.target \in Version
      BY <2>2, <2>3, RequestParts
    <3> QED
      BY <1>1, <1>2, <2>1, <2>3, <3>1 DEF ReceiptHonest, Kept
  <2>4. CASE call.request.action \notin {"ready", "remove"}
    BY <1>1, <1>2, <2>1, <2>4 DEF ReceiptHonest, Kept
  <2> QED
    BY <1>1, <2>3, <2>4
<1>3. CASE call.outcome = "resolved"
  BY <1>1, <1>3 DEF ReceiptHonest, Kept
<1>4. CASE call.outcome \notin Disposition
  BY <1>1, <1>4 DEF ReceiptHonest, Disposition
<1> QED
  BY <1>1, <1>2, <1>3, <1>4 DEF Disposition

\* A step that changes one call into another that fits, keeps the rest.
LEMMA CallStep ==
  ASSUME CallsInv, ReceiptsHonest, Kept, RegistryInv,
         NEW o \in Operator, NEW call \in Call, CallFits(call)',
         call.outcome = None \/ ReceiptHonest(call)',
         calls' = [calls EXCEPT ![o] = call]
  PROVE  CallsInv' /\ ReceiptsHonest'
<1>1. calls' \in [Operator -> Call]
  BY DEF CallsInv
<1>2. ASSUME NEW p \in Operator
      PROVE  CallFits(calls[p])' /\ ReceiptHonest(calls[p])'
  <2>1. CASE p = o
    <3>1. calls'[p] = call
      BY <2>1 DEF CallsInv
    <3>2. call.outcome = None => ReceiptHonest(call)'
      BY DEF ReceiptHonest, Disposition
    <3> QED
      BY <3>1, <3>2
  <2>2. CASE p # o
    <3>1. PICK c \in Call : c = calls[p]
      BY DEF CallsInv
    <3>2. calls'[p] = c /\ CallFits(c) /\ ReceiptHonest(c)
      BY <2>2, <3>1 DEF CallsInv, ReceiptsHonest
    <3>3. CallFits(c)' /\ ReceiptHonest(c)'
      BY <3>2, CallLasts
    <3> QED
      BY <3>2, <3>3
  <2> QED
    BY <2>1, <2>2
<1> QED
  BY <1>1, <1>2 DEF CallsInv, ReceiptsHonest

\* The registry's part and the calls' part of the invariant, after a step.
Holds == RegistryInv' /\ CallsInv' /\ ReceiptsHonest' /\ Kept

LEMMA QuietStep ==
  ASSUME IInv, UNCHANGED registry, NEW o \in Operator, NEW call \in Call,
         CallFits(call), call.outcome = None \/ ReceiptHonest(call),
         calls' = [calls EXCEPT ![o] = call]
  PROVE  Holds
<1>1. RegistryInv' /\ Kept
  BY DEF IInv, registry, RegistryInv, RegistryTypes, AuditsChain, Kept
<1>2. CallFits(call)'
  BY DEF registry, CallFits
<1>3. call.outcome = None \/ ReceiptHonest(call)'
  BY DEF registry, ReceiptHonest
<1> QED
  BY <1>1, <1>2, <1>3, CallStep DEF IInv, Holds

LEMMA IdleFits == Idle \in Call /\ CallFits(Idle) /\ Idle.outcome = None
<1>1. Idle \in Call
  BY DEF Idle, Call, Phase
<1> QED
  BY <1>1 DEF Idle, CallFits, Committing, Disposition

LEMMA Raising ==
  ASSUME IInv, UNCHANGED registry, NEW o \in Operator, NEW code, Raise(o, code)
  PROVE  Holds
BY IdleFits, QuietStep DEF Raise, Idle

\* A call in progress, as a constant that a step may replace.
LEMMA InProgress ==
  ASSUME IInv, NEW o \in Operator, ~At(o, "idle")
  PROVE  \E c \in Call :
           /\ c = calls[o] /\ CallFits(c) /\ c.outcome = None
           /\ c.request \in Request /\ c.phase # "idle"
BY DEF IInv, CallsInv, CallFits, At

LEMMA Moving ==
  ASSUME IInv, UNCHANGED registry, NEW o \in Operator, NEW c \in Call,
         c = calls[o], c.outcome = None, NEW phase \in Phase,
         Goto(o, phase), CallFits([c EXCEPT !.phase = phase])
  PROVE  Holds
<1> DEFINE new == [c EXCEPT !.phase = phase]
<1>1. new \in Call /\ new.outcome = None
  BY DEF Call
<1>2. calls' = [calls EXCEPT ![o] = new]
  BY DEF Goto
<1> HIDE DEF new
<1>3. CallFits(new)
  BY DEF new
<1> QED
  BY <1>1, <1>2, <1>3, QuietStep

LEMMA Returning ==
  ASSUME IInv, NEW o \in Operator, NEW c \in Call, c = calls[o],
         c.request \in Request, NEW disposition \in {"applied", "confirmed"},
         Return(o, disposition)
  PROVE  \E call \in Call :
           /\ calls' = [calls EXCEPT ![o] = call]
           /\ CallFits(call) /\ call.request = c.request
           /\ call.outcome \in {"applied", "confirmed"}
           /\ call.phase = "idle"
<1> DEFINE call == [Idle EXCEPT !.request = c.request, !.outcome = disposition]
<1>1. call \in Call
  BY IdleFits DEF Call, Disposition
<1>2. CallFits(call)
  BY DEF Idle, CallFits, Committing
<1> QED
  BY <1>1, <1>2 DEF Return, Idle

\* A step that only changes calls, and returns a receipt that is on record.
LEMMA Confirming ==
  ASSUME IInv, UNCHANGED registry, NEW o \in Operator, NEW c \in Call,
         c = calls[o], c.request \in Request,
         NEW disposition \in {"applied", "confirmed"}, Return(o, disposition),
         c.request.action = "ready" => 0 \in lifecycleAudits[c.request.target],
         c.request.action = "remove" => 1 \in lifecycleAudits[c.request.target],
         c.request.action \notin {"ready", "remove"} =>
           LET revision == NextRevision(c.request.expected)
           IN /\ revision \in DOMAIN activeAudits
              /\ activeAudits[revision] =
                   [action |-> c.request.action, after |-> c.request.target,
                    before |-> TargetOf(c.request.expected)]
  PROVE  Holds
<1>1. PICK call \in Call :
        /\ calls' = [calls EXCEPT ![o] = call]
        /\ CallFits(call) /\ call.request = c.request
        /\ call.outcome \in {"applied", "confirmed"}
  BY Returning
<1>2. ReceiptHonest(call)
  BY <1>1 DEF ReceiptHonest
<1> QED
  BY <1>1, <1>2, QuietStep

-----------------------------------------------------------------------------
(* The steps that only read.                                               *)

LEMMA BeginStep ==
  ASSUME IInv, NEW o \in Operator, Begin(o)
  PROVE  Holds
<1>1. PICK request \in Request :
        calls' = [calls EXCEPT ![o] =
                    [Idle EXCEPT !.request = request,
                                 !.phase = FirstPhase(request.action)]]
  BY DEF Begin
<1> DEFINE call == [Idle EXCEPT !.request = request,
                                !.phase = FirstPhase(request.action)]
<1>2. call \in Call /\ call.outcome = None
  <2>1. FirstPhase(request.action) \in Phase
    BY DEF FirstPhase, Phase
  <2> QED
    BY <2>1, IdleFits DEF Call
<1>3. CallFits(call)
  BY RequestParts DEF Idle, CallFits, FirstPhase, Committing, Disposition,
                      SwitchAction
<1> HIDE DEF call
<1>4. calls' = [calls EXCEPT ![o] = call]
  BY <1>1 DEF call
<1> QED
  BY <1>2, <1>3, <1>4, QuietStep DEF Begin, registry

LEMMA VerifyStep ==
  ASSUME IInv, NEW o \in Operator, VerifyCandidate(o)
  PROVE  Holds
<1>1. PICK c \in Call :
        /\ c = calls[o] /\ CallFits(c) /\ c.outcome = None
        /\ c.request \in Request /\ c.phase = "verify"
  BY InProgress DEF VerifyCandidate, At
<1>2. CallFits([c EXCEPT !.phase = "lookup"])
  BY <1>1 DEF CallFits, Call, Committing
<1> QED
  BY <1>1, <1>2, Moving, Raising DEF VerifyCandidate, registry, Phase

LEMMA ReadFailsStep ==
  ASSUME IInv, NEW o \in Operator, ReadFails(o)
  PROVE  Holds
BY Raising DEF ReadFails, registry

LEMMA LookupStep ==
  ASSUME IInv, NEW o \in Operator, Lookup(o)
  PROVE  Holds
<1>1. PICK c \in Call :
        /\ c = calls[o] /\ CallFits(c) /\ c.outcome = None
        /\ c.request \in Request /\ c.phase = "lookup"
  BY InProgress DEF Lookup, At
<1>2. UNCHANGED registry
  BY DEF Lookup, ReadLifecycle, registry
<1>3. c.request.target \in Version /\ c.request.action \in {"ready", "remove"}
  BY <1>1, RequestParts DEF CallFits
<1>4. c.request.expected = None /\ c.seen = None
  BY <1>1, <1>3, RequestParts DEF CallFits
<1>5. CallFits([c EXCEPT !.phase = "commit"])
  BY <1>1, <1>3 DEF CallFits, Call, Committing, SwitchAction
<1>6. c.request.action = "remove" =>
        /\ CallFits([c EXCEPT !.phase = "active"])
        /\ 1 \in lifecycleAudits[c.request.target] =>
             CallFits([c EXCEPT !.phase = "removed"])
  BY <1>1, <1>3 DEF CallFits, Call, Committing
<1>7. CASE \E code : Raise(o, code)
  BY <1>2, <1>7, Raising
<1>8. CASE Goto(o, "commit")
  BY <1>1, <1>2, <1>5, <1>8, Moving DEF Phase
<1>9. CASE c.request.action = "remove" /\ Goto(o, "active")
  BY <1>1, <1>2, <1>6, <1>9, Moving DEF Phase
<1>11. CASE /\ c.request.action = "remove" /\ Goto(o, "removed")
            /\ states[c.request.target] = "logically_removed"
  <2>1. 1 \in lifecycleAudits[c.request.target]
    BY <1>3, <1>11 DEF IInv, RegistryInv, AuditsOf
  <2> QED
    BY <1>1, <1>2, <1>6, <1>11, <2>1, Moving DEF Phase
<1>10. CASE /\ c.request.action = "ready" /\ states[c.request.target] = "ready"
            /\ Return(o, "confirmed")
  <2>1. 0 \in lifecycleAudits[c.request.target]
    BY <1>3, <1>10 DEF IInv, RegistryInv, AuditsOf
  <2> QED
    BY <1>1, <1>2, <1>10, <2>1, Confirming
<1> QED
  BY <1>1, <1>3, <1>7, <1>8, <1>9, <1>10, <1>11 DEF Lookup, ReadLifecycle, Target

LEMMA CheckInactiveStep ==
  ASSUME IInv, NEW o \in Operator, CheckInactive(o)
  PROVE  Holds
<1>1. PICK c \in Call :
        /\ c = calls[o] /\ CallFits(c) /\ c.outcome = None
        /\ c.request \in Request /\ c.phase \in {"active", "removed"}
  BY InProgress DEF CheckInactive, At
<1>2. UNCHANGED registry
  BY DEF CheckInactive, ReadActive, registry
<1>3. c.request.target \in Version /\ c.request.action = "remove"
  BY <1>1, RequestParts DEF CallFits
<1>4. CASE \E code : Raise(o, code)
  BY <1>2, <1>4, Raising
<1>5. CASE At(o, "removed") /\ Return(o, "confirmed")
  <2>1. 1 \in lifecycleAudits[c.request.target]
    BY <1>1, <1>5 DEF CallFits, At
  <2> QED
    BY <1>1, <1>2, <1>3, <1>5, <2>1, Confirming
<1>6. CASE calls' = [calls EXCEPT ![o].phase = "commit",
                                  ![o].seen = ActiveSnapshot]
  <2>1. PICK seen \in ActivePointerSnapshot \cup {None} : seen = ActiveSnapshot
    BY SnapshotParts DEF IInv
  <2> DEFINE call == [c EXCEPT !.phase = "commit", !.seen = seen]
  <2>2. call \in Call /\ call.outcome = None
    BY <1>1 DEF Call, Phase
  <2>3. CallFits(call)
    BY <1>1, <1>3 DEF CallFits, Call, Committing, SwitchAction, Disposition
  <2>4. calls' = [calls EXCEPT ![o] = call]
    BY <1>1, <1>6, <2>1
  <2> HIDE DEF call
  <2> QED
    BY <1>2, <2>2, <2>3, <2>4, QuietStep
<1> QED
  BY <1>1, <1>4, <1>5, <1>6 DEF CheckInactive, ReadActive

LEMMA CurrentStep ==
  ASSUME IInv, NEW o \in Operator, Current(o)
  PROVE  Holds
<1>1. PICK c \in Call :
        /\ c = calls[o] /\ CallFits(c) /\ c.outcome = None
        /\ c.request \in Request /\ c.phase = "current"
  BY InProgress DEF Current, At
<1>2. UNCHANGED registry
  BY DEF Current, ReadActive, registry
<1>3. PICK current \in ActivePointerSnapshot \cup {None} :
        current = ActiveSnapshot
  BY SnapshotParts DEF IInv
<1>4. current # None =>
        /\ current.revision \in DOMAIN activeAudits
        /\ activeAudits[current.revision] =
             [action |-> current.action, before |-> current.before,
              after |-> current.target]
  BY <1>3, SnapshotParts DEF IInv
<1>5. CASE \E code : Raise(o, code)
  BY <1>2, <1>5, Raising
<1>6. CASE /\ current # None
           /\ calls' = [calls EXCEPT ![o] =
                [Idle EXCEPT !.request = c.request, !.seen = current,
                             !.outcome = "resolved"]]
  <2> DEFINE call == [Idle EXCEPT !.request = c.request, !.seen = current,
                                  !.outcome = "resolved"]
  <2>1. call \in Call
    BY <1>1, IdleFits DEF Call, Disposition
  <2>2. CallFits(call)
    BY <1>1, <1>6 DEF CallFits, Idle, Committing
  <2>3. ReceiptHonest(call)
    BY <1>4, <1>6 DEF ReceiptHonest, Idle
  <2>4. calls' = [calls EXCEPT ![o] = call]
    BY <1>6
  <2> HIDE DEF call
  <2> QED
    BY <1>2, <2>1, <2>2, <2>3, <2>4, QuietStep
<1>7. CASE /\ c.request.action # "resolve"
           /\ ReplayCandidate(c.request, current) \/ Expects(c.request, current)
           /\ calls' = [calls EXCEPT ![o].phase = "target", ![o].seen = current]
  <2> DEFINE call == [c EXCEPT !.phase = "target", !.seen = current]
  <2>1. call \in Call /\ call.outcome = None
    BY <1>1 DEF Call, Phase
  <2>2. c.request.action \in SwitchAction
    BY <1>1, <1>7 DEF CallFits
  <2>3. CallFits(call)
    BY <1>1, <1>4, <1>7, <2>2 DEF CallFits, Call, Committing, Disposition
  <2>4. calls' = [calls EXCEPT ![o] = call]
    BY <1>1, <1>7
  <2> HIDE DEF call
  <2> QED
    BY <1>2, <2>1, <2>3, <2>4, QuietStep
<1> QED
  BY <1>1, <1>3, <1>5, <1>6, <1>7 DEF Current, ReadActive

LEMMA CheckTargetStep ==
  ASSUME IInv, NEW o \in Operator, CheckTarget(o)
  PROVE  Holds
<1>1. PICK c \in Call :
        /\ c = calls[o] /\ CallFits(c) /\ c.outcome = None
        /\ c.request \in Request /\ c.phase = "target"
  BY InProgress DEF CheckTarget, At
<1>2. UNCHANGED registry
  BY DEF CheckTarget, ReadLifecycle, registry
<1>3. c.request.action \in SwitchAction
  BY <1>1 DEF CallFits
<1>4. CASE \E code : Raise(o, code)
  BY <1>2, <1>4, Raising
<1>5. CASE ~ReplayCandidate(c.request, c.seen) /\ Goto(o, "commit")
  <2>1. CallFits([c EXCEPT !.phase = "commit"])
    BY <1>1, <1>5 DEF CallFits, Call, Committing
  <2> QED
    BY <1>1, <1>2, <1>5, <2>1, Moving DEF Phase
<1>6. CASE /\ ReplayCandidate(c.request, c.seen)
           /\ c.seen.before = TargetOf(c.request.expected)
           /\ Return(o, "confirmed")
  <2>1. /\ c.seen # None /\ c.seen.target = c.request.target
        /\ c.seen.revision = NextRevision(c.request.expected)
        /\ c.seen.action = c.request.action
    BY <1>6 DEF ReplayCandidate
  <2>2. /\ NextRevision(c.request.expected) \in DOMAIN activeAudits
        /\ activeAudits[NextRevision(c.request.expected)] =
             [action |-> c.request.action, after |-> c.request.target,
              before |-> TargetOf(c.request.expected)]
    BY <1>1, <1>6, <2>1 DEF CallFits
  <2> QED
    BY <1>1, <1>2, <1>3, <1>6, <2>2, Confirming DEF SwitchAction
<1> QED
  BY <1>1, <1>4, <1>5, <1>6 DEF CheckTarget, ReadLifecycle

-----------------------------------------------------------------------------
(* The steps of a commit.                                                  *)

\* What a call may commit is a transaction that fits.
LEMMA CommitFits ==
  ASSUME NEW c \in Call, CallFits(c), c.request \in Request,
         c.phase \in Committing
  PROVE  LET t == [action |-> c.request.action, target |-> c.request.target,
                   expected |-> c.seen]
         IN /\ t \in Transaction /\ Fits(t)
            /\ t.action \in SwitchAction =>
                 /\ NextRevision(t.expected) = NextRevision(c.request.expected)
                 /\ TargetOf(t.expected) = TargetOf(c.request.expected)
<1> DEFINE t == [action |-> c.request.action, target |-> c.request.target,
                 expected |-> c.seen]
<1>1. c.request.action \in {"ready", "remove"} \cup SwitchAction
  BY DEF CallFits
<1>2. c.request.target \in Version
  BY <1>1, RequestParts DEF SwitchAction
<1>3. t \in Transaction
  BY <1>1, <1>2 DEF Transaction, Call
<1>4. CASE t.action \in SwitchAction
  <2>1. Expects(c.request, c.seen)
    BY <1>4 DEF CallFits
  <2>2. /\ c.request.action = "rollback" => c.request.expected # None
        /\ c.request.expected # None =>
             /\ c.request.expected.target # c.request.target
             /\ c.request.expected.revision < MaxRevision
    BY <1>4, RequestParts
  <2>3. /\ c.seen = None <=> c.request.expected = None
        /\ c.seen # None =>
             /\ c.seen.target = c.request.expected.target
             /\ c.seen.revision = c.request.expected.revision
    BY <2>1 DEF Expects
  <2>4. Fits(t)
    BY <1>4, <2>2, <2>3 DEF Fits, SwitchAction
  <2> QED
    BY <1>3, <2>3, <2>4 DEF NextRevision, TargetOf
<1>5. CASE t.action \notin SwitchAction
  BY <1>3, <1>5 DEF Fits
<1> QED
  BY <1>4, <1>5

LEMMA CommitAppliedStep ==
  ASSUME IInv, NEW o \in Operator, CommitApplied(o)
  PROVE  Holds
<1>1. PICK c \in Call :
        /\ c = calls[o] /\ CallFits(c) /\ c.outcome = None
        /\ c.request \in Request /\ c.phase = "commit"
  BY InProgress DEF CommitApplied, At
<1> DEFINE t == [action |-> c.request.action, target |-> c.request.target,
                 expected |-> c.seen]
<1>2. /\ t \in Transaction /\ Fits(t)
      /\ t.action \in SwitchAction =>
           /\ NextRevision(t.expected) = NextRevision(c.request.expected)
           /\ TargetOf(t.expected) = TargetOf(c.request.expected)
  BY <1>1, CommitFits DEF Committing
<1>3. Valid(t) /\ Apply(t)
  BY <1>1 DEF CommitApplied, TransactionOf, Target
<1>4. t.action \in {"ready", "remove"} \cup SwitchAction
  BY <1>2 DEF Transaction
<1>5. t.action = c.request.action /\ t.target = c.request.target
  OBVIOUS
<1> HIDE DEF t
<1>6. /\ RegistryInv' /\ Kept
      /\ t.action = "ready" => 0 \in lifecycleAudits'[t.target]
      /\ t.action = "remove" => 1 \in lifecycleAudits'[t.target]
      /\ t.action \in SwitchAction =>
           /\ NextRevision(t.expected) \in DOMAIN activeAudits'
           /\ activeAudits'[NextRevision(t.expected)] =
                [action |-> t.action, before |-> TargetOf(t.expected),
                 after |-> t.target]
  BY <1>2, <1>3, ApplyKeeps DEF IInv
<1>7. PICK call \in Call :
        /\ calls' = [calls EXCEPT ![o] = call]
        /\ CallFits(call) /\ call.request = c.request
        /\ call.outcome \in {"applied", "confirmed"}
        /\ call.phase = "idle"
  BY <1>1, Returning DEF CommitApplied
<1>8. CallFits(call)'
  BY <1>7 DEF CallFits, Committing
<1>9. ReceiptHonest(call)'
  <2>1. call.outcome # "resolved"
    BY <1>7
  <2>2. CASE t.action \in {"ready", "remove"}
    BY <1>5, <1>6, <1>7, <2>1, <2>2 DEF ReceiptHonest
  <2>3. CASE t.action \in SwitchAction
    <3>1. LET revision == NextRevision(call.request.expected)
          IN /\ revision \in DOMAIN activeAudits'
             /\ activeAudits'[revision] =
                  [action |-> call.request.action,
                   after |-> call.request.target,
                   before |-> TargetOf(call.request.expected)]
      BY <1>2, <1>5, <1>6, <1>7, <2>3
    <3> QED
      BY <1>5, <1>7, <2>1, <2>3, <3>1
      DEF ReceiptHonest, NextRevision, TargetOf, SwitchAction
  <2> QED
    BY <1>4, <2>2, <2>3
<1> QED
  BY <1>6, <1>7, <1>8, <1>9, CallStep DEF IInv, Holds

LEMMA CommitUnansweredStep ==
  ASSUME IInv, NEW o \in Operator, CommitConflicts(o) \/ CommitUnknown(o)
  PROVE  Holds
<1>1. PICK c \in Call :
        /\ c = calls[o] /\ CallFits(c) /\ c.outcome = None
        /\ c.request \in Request /\ c.phase = "commit"
  BY InProgress DEF CommitConflicts, CommitUnknown, At
<1>2. /\ CallFits([c EXCEPT !.phase = "conflict"])
      /\ CallFits([c EXCEPT !.phase = "unknown"])
  BY <1>1 DEF CallFits, Call, Committing
<1>3. UNCHANGED registry
  BY DEF CommitConflicts, CommitUnknown, MaySend, registry
<1> QED
  BY <1>1, <1>2, <1>3, Moving DEF CommitConflicts, CommitUnknown, Phase

LEMMA CommitFailsStep ==
  ASSUME IInv, NEW o \in Operator, CommitFails(o)
  PROVE  Holds
BY Raising DEF CommitFails, MaySend

LEMMA AgainStep ==
  ASSUME IInv, UNCHANGED registry, NEW o \in Operator, NEW c \in Call,
         c = calls[o], CallFits(c), c.outcome = None, c.request \in Request,
         c.phase \in Committing, Again(o)
  PROVE  Holds
<1>1. CASE \E code : Raise(o, code)
  BY <1>1, Raising
<1>2. CASE /\ c.attempt # MaxRetries
           /\ calls' = [calls EXCEPT ![o].phase = "commit",
                                     ![o].attempt = @ + 1]
  <2> DEFINE call == [c EXCEPT !.phase = "commit", !.attempt = c.attempt + 1]
  <2>1. call \in Call /\ call.outcome = None
    <3>1. c.attempt + 1 \in 0 .. MaxRetries
      BY <1>2 DEF Call
    <3> QED
      BY <3>1 DEF Call, Phase
  <2>2. CallFits(call)
    BY DEF CallFits, Call, Committing
  <2>3. calls' = [calls EXCEPT ![o] = call]
    BY <1>2
  <2> HIDE DEF call
  <2> QED
    BY <2>1, <2>2, <2>3, QuietStep
<1> QED
  BY <1>1, <1>2 DEF Again

LEMMA CommitRetryableStep ==
  ASSUME IInv, NEW o \in Operator, CommitRetryable(o)
  PROVE  Holds
<1>1. PICK c \in Call :
        /\ c = calls[o] /\ CallFits(c) /\ c.outcome = None
        /\ c.request \in Request /\ c.phase = "commit"
  BY InProgress DEF CommitRetryable, At
<1> QED
  BY <1>1, AgainStep DEF CommitRetryable, Committing, registry

LEMMA ConfirmStep ==
  ASSUME IInv, NEW o \in Operator, Confirm(o)
  PROVE  Holds
<1>1. PICK c \in Call :
        /\ c = calls[o] /\ CallFits(c) /\ c.outcome = None
        /\ c.request \in Request /\ c.phase \in {"conflict", "unknown"}
  BY InProgress DEF Confirm, At
<1>2. UNCHANGED registry
  BY DEF Confirm, ReadActive, ReadLifecycle, registry
<1>3. /\ c.request.action \in {"ready", "remove"} \cup SwitchAction
      /\ c.request.action \in SwitchAction => Expects(c.request, c.seen)
  BY <1>1 DEF CallFits, Committing
<1>4. c.request.target \in Version
  BY <1>1, <1>3, RequestParts DEF SwitchAction
<1>5. CASE \E code : Raise(o, code)
  BY <1>2, <1>5, Raising
<1>6. CASE Again(o)
  BY <1>1, <1>2, <1>6, AgainStep DEF Committing
<1>7. CASE Confirmed(o) /\ Return(o, "confirmed")
  <2>1. CASE c.request.action \in {"ready", "remove"}
    <3>1. /\ c.request.action = "ready" => 0 \in lifecycleAudits[c.request.target]
          /\ c.request.action = "remove" => 1 \in lifecycleAudits[c.request.target]
      BY <1>1, <1>4, <1>7, <2>1 DEF Confirmed, IInv, RegistryInv, AuditsOf
    <3> QED
      BY <1>1, <1>2, <1>7, <2>1, <3>1, Confirming
  <2>2. CASE c.request.action \in SwitchAction
    <3>1. ActiveSnapshot =
            [target |-> c.request.target, revision |-> NextRevision(c.seen),
             action |-> c.request.action, before |-> TargetOf(c.seen)]
      BY <1>1, <1>7, <2>2 DEF Confirmed, SwitchAction
    <3>2. /\ NextRevision(c.seen) = NextRevision(c.request.expected)
          /\ TargetOf(c.seen) = TargetOf(c.request.expected)
      BY <1>3, <2>2 DEF Expects, NextRevision, TargetOf
    <3>3. /\ NextRevision(c.seen) \in Revision
          /\ c.request.action \in SwitchAction
          /\ TargetOf(c.seen) \in Version \cup {None}
      <4>1. c.seen \in ActivePointerSnapshot \cup {None}
        BY DEF Call
      <4>2. TargetOf(c.seen) \in Version \cup {None}
        BY <4>1 DEF TargetOf, ActivePointerSnapshot
      <4>3. CASE c.seen = None
        BY <2>2, <4>2, <4>3 DEF NextRevision, Revision
      <4>4. CASE c.seen # None
        <5>1. /\ c.request.expected # None
              /\ c.seen.revision = c.request.expected.revision
          BY <1>3, <2>2, <4>4 DEF Expects
        <5>2. c.request.expected.revision < MaxRevision
          BY <1>1, <2>2, <5>1, RequestParts
        <5>3. c.seen.revision \in 0 .. MaxRevision
          BY <4>1, <4>4 DEF ActivePointerSnapshot, Revision
        <5> QED
          BY <2>2, <4>2, <4>4, <5>1, <5>2, <5>3 DEF NextRevision, Revision
      <4> QED
        BY <4>3, <4>4
    <3>4. ActiveSnapshot \in ActivePointerSnapshot
      BY <1>4, <3>1, <3>3 DEF ActivePointerSnapshot
    <3>5. pointer # None
      BY <3>4, SnapshotParts DEF IInv
    <3>6. /\ NextRevision(c.seen) \in DOMAIN activeAudits
          /\ activeAudits[NextRevision(c.seen)] =
               [action |-> c.request.action, before |-> TargetOf(c.seen),
                after |-> c.request.target]
      BY <3>1, <3>5, SnapshotParts DEF IInv
    <3> QED
      BY <1>1, <1>2, <1>7, <2>2, <3>2, <3>6, Confirming DEF SwitchAction
  <2> QED
    BY <1>3, <2>1, <2>2
<1> QED
  BY <1>5, <1>6, <1>7 DEF Confirm, ReadActive, ReadLifecycle

LEMMA CancelStep ==
  ASSUME IInv, NEW o \in Operator, Cancel(o)
  PROVE  Holds
BY Raising DEF Cancel, MaySend

LEMMA LandStep ==
  ASSUME IInv, NEW t \in stray, Land(t)
  PROVE  Holds
<1>1. t \in Transaction /\ Fits(t)
  BY DEF IInv, StrayInv
<1>2. RegistryInv' /\ Kept
  <2>1. CASE UNCHANGED registry
    BY <2>1 DEF IInv, registry, RegistryInv, RegistryTypes, AuditsChain, Kept
  <2>2. CASE Valid(t) /\ Apply(t)
    BY <1>1, <2>2, ApplyKeeps DEF IInv
  <2> QED
    BY <2>1, <2>2 DEF Land
<1>3. calls' = calls
  BY DEF Land
<1>4. ASSUME NEW o \in Operator
      PROVE  CallFits(calls[o])' /\ ReceiptHonest(calls[o])'
  <2>1. PICK c \in Call : c = calls[o]
    BY DEF IInv, CallsInv
  <2>2. CallFits(c)' /\ ReceiptHonest(c)'
    BY <1>2, <2>1, CallLasts DEF IInv, CallsInv, ReceiptsHonest
  <2> QED
    BY <1>3, <2>1, <2>2
<1> QED
  BY <1>2, <1>3, <1>4 DEF IInv, CallsInv, ReceiptsHonest, Holds

-----------------------------------------------------------------------------
(* Commits in flight.                                                      *)

LEMMA SentFits ==
  ASSUME IInv, NEW o \in Operator, At(o, "commit"), MaySend(TransactionOf(o))
  PROVE  StrayInv'
<1>1. PICK c \in Call :
        /\ c = calls[o] /\ CallFits(c) /\ c.request \in Request
        /\ c.phase = "commit"
  BY InProgress DEF At
<1>2. TransactionOf(o) \in Transaction /\ Fits(TransactionOf(o))
  BY <1>1, CommitFits DEF TransactionOf, Target, Committing
<1>3. PICK t \in Transaction : t = TransactionOf(o) /\ Fits(t)
  BY <1>2
<1> QED
  BY <1>3 DEF IInv, StrayInv, MaySend, Fits

LEMMA StrayStep ==
  ASSUME IInv, [Next]_vars
  PROVE  StrayInv'
<1>1. CASE stray' \subseteq stray
  BY <1>1 DEF IInv, StrayInv, Fits
<1>2. ASSUME NEW o \in Operator, Proceed(o)
      PROVE  StrayInv'
  <2>1. CASE At(o, "commit") /\ MaySend(TransactionOf(o))
    BY <2>1, SentFits
  <2> QED
    BY <1>1, <1>2, <2>1
    DEF Proceed, VerifyCandidate, ReadFails, Lookup, CheckInactive, Current,
        CheckTarget, ReadLifecycle, ReadActive, CommitApplied, CommitConflicts,
        CommitUnknown, CommitFails, CommitRetryable, Confirm
<1>3. ASSUME NEW o \in Operator, Cancel(o)
      PROVE  StrayInv'
  BY <1>1, <1>3, SentFits DEF Cancel
<1> QED
  BY <1>1, <1>2, <1>3 DEF Next, Begin, Land, vars

-----------------------------------------------------------------------------
(* The theorems.                                                           *)

LEMMA InitHolds == Init => IInv
<1> SUFFICES ASSUME Init PROVE IInv
  OBVIOUS
<1>1. /\ states = [v \in Version |-> "absent"]
      /\ lifecycleAudits = [v \in Version |-> {}]
      /\ pointer = None /\ DOMAIN activeAudits = {} /\ stray = {}
      /\ calls = [o \in Operator |-> Idle]
  BY DEF Init
<1>2. RegistryInv
  BY <1>1 DEF RegistryInv, RegistryTypes, AuditsChain, AuditsOf, State
<1>3. CallsInv
  BY <1>1, IdleFits DEF CallsInv
<1>4. ReceiptsHonest
  BY <1>1 DEF ReceiptsHonest, ReceiptHonest, Idle, Disposition
<1> QED
  BY <1>1, <1>2, <1>3, <1>4 DEF IInv, StrayInv

LEMMA StepHolds ==
  ASSUME IInv, [Next]_vars
  PROVE  Holds
<1>1. ASSUME NEW o \in Operator, Proceed(o)
      PROVE  Holds
  BY <1>1, VerifyStep, ReadFailsStep, LookupStep, CheckInactiveStep,
     CurrentStep, CheckTargetStep, CommitAppliedStep, CommitUnansweredStep,
     CommitFailsStep, CommitRetryableStep, ConfirmStep
  DEF Proceed
<1>2. CASE UNCHANGED vars
  <2>1. RegistryInv' /\ Kept
    BY <1>2 DEF vars, registry, IInv, RegistryInv, RegistryTypes, AuditsChain,
                Kept
  <2>2. CallsInv' /\ ReceiptsHonest'
    BY <1>2 DEF vars, registry, IInv, CallsInv, CallFits, ReceiptsHonest,
                ReceiptHonest
  <2> QED
    BY <2>1, <2>2 DEF Holds
<1> QED
  BY <1>1, <1>2, BeginStep, CancelStep, LandStep DEF Next

LEMMA Inductive == Spec => []IInv
<1>1. IInv /\ [Next]_vars => IInv'
  BY StepHolds, StrayStep DEF Holds, IInv
<1> QED
  BY InitHolds, <1>1, PTL DEF Spec

\* Every variable keeps its type: the documents hold what their models admit,
\* pointer revisions stay below MAX_SAFE_INTEGER.
THEOREM TypeCorrect == Spec => []TypeOK
<1>1. IInv => TypeOK
  BY DEF IInv, RegistryInv, RegistryTypes, StrayInv, CallsInv, TypeOK
<1> QED
  BY <1>1, Inductive, PTL

\* The documents always fit one another, so no reader meets malformed_store:
\* the active version is ready and every state has exactly its audits.
THEOREM StaysWellFormed == Spec => []RegistryWellFormed
<1>1. IInv => RegistryWellFormed
  <2> SUFFICES ASSUME IInv PROVE RegistryWellFormed
    OBVIOUS
  <2>1. \A v \in Version : ~LifecycleMalformed(v)
    BY DEF IInv, RegistryInv, LifecycleMalformed
  <2>2. CASE pointer = None
    BY <2>1, <2>2 DEF IInv, RegistryInv, AuditsChain, RegistryWellFormed,
                      ActiveMalformed
  <2>3. CASE pointer # None
    <3>1. pointer.target \in Version /\ pointer.revision \in Nat
      BY <2>3 DEF IInv, RegistryInv, RegistryTypes, ActiveCorpusPointer,
                  Revision
    <3>2. DOMAIN activeAudits = 0 .. pointer.revision
      BY <2>3 DEF IInv, RegistryInv, AuditsChain
    <3>3. /\ {0, pointer.revision} \ DOMAIN activeAudits = {}
          /\ 0 \in DOMAIN activeAudits /\ pointer.revision \in DOMAIN activeAudits
      BY <3>1, <3>2
    <3>4. /\ activeAudits[pointer.revision].after = pointer.target
          /\ activeAudits[0].action = "promote" /\ activeAudits[0].before = None
      BY <2>3, <3>3 DEF IInv, RegistryInv, AuditsChain
    <3>5. pointer.revision > 0 => activeAudits[pointer.revision].before # None
      <4>1. pointer.revision > 0 =>
              /\ pointer.revision - 1 \in DOMAIN activeAudits
              /\ activeAudits[pointer.revision].before =
                   activeAudits[pointer.revision - 1].after
        BY <3>1, <3>2, <3>3 DEF IInv, RegistryInv, AuditsChain
      <4> QED
        BY <4>1 DEF IInv, RegistryInv, RegistryTypes, ActiveAudit
    <3> QED
      BY <2>1, <2>3, <3>1, <3>3, <3>4, <3>5
      DEF IInv, RegistryInv, RegistryWellFormed, ActiveMalformed
  <2> QED
    BY <2>2, <2>3
<1> QED
  BY <1>1, Inductive, PTL

\* The pointer audits are an unbroken chain that ends at the pointer.
THEOREM ChainHolds == Spec => []AuditsChain
<1>1. IInv => AuditsChain
  BY DEF IInv, RegistryInv
<1> QED
  BY <1>1, Inductive, PTL

\* A receipt is true for good, although the commit's answer may be lost, the
\* commit may land late, and others may have moved the pointer on since.
THEOREM ReceiptsStayHonest == Spec => []ReceiptsHonest
<1>1. IInv => ReceiptsHonest
  BY DEF IInv
<1> QED
  BY <1>1, Inductive, PTL

\* No step rewrites or loses an audit.
THEOREM AuditsStay == Spec => AuditsImmutable
<1>1. IInv /\ [Next]_vars =>
        [/\ \A r \in DOMAIN activeAudits :
              r \in DOMAIN activeAudits' /\ activeAudits'[r] = activeAudits[r]
         /\ \A v \in Version : lifecycleAudits[v] \subseteq lifecycleAudits'[v]]_vars
  BY StepHolds DEF Holds, Kept
<1> QED
  BY <1>1, Inductive, PTL DEF Spec, AuditsImmutable

-----------------------------------------------------------------------------
(* The registry implements CorpusHistory.                                  *)

Registered == {v \in Version : states[v] # "absent"}
Removed == {v \in Version : states[v] = "logically_removed"}
Served ==
  IF pointer = None THEN <<>>
  ELSE [i \in 1 .. pointer.revision + 1 |-> activeAudits[i - 1].after]

\* The version served last is the one the pointer names.
LEMMA ServedParts ==
  ASSUME RegistryInv
  PROVE  /\ pointer = None => Served = <<>>
         /\ pointer # None =>
              /\ pointer.revision \in Nat /\ pointer.revision <= MaxRevision
              /\ Len(Served) = pointer.revision + 1
              /\ Served # <<>>
              /\ Served[Len(Served)] = pointer.target
              /\ Served \in Seq(Version)
<1>1. CASE pointer = None
  BY <1>1 DEF Served
<1>2. CASE pointer # None
  <2>1. pointer.revision \in Nat /\ pointer.revision <= MaxRevision
    BY <1>2 DEF RegistryInv, RegistryTypes, ActiveCorpusPointer, Revision
  <2>2. /\ DOMAIN activeAudits = 0 .. pointer.revision
        /\ activeAudits[pointer.revision].after = pointer.target
    BY <1>2 DEF RegistryInv, AuditsChain
  <2>3. Served = [i \in 1 .. pointer.revision + 1 |-> activeAudits[i - 1].after]
    BY <1>2 DEF Served
  <2>4. ASSUME NEW i \in 1 .. pointer.revision + 1
        PROVE  activeAudits[i - 1].after \in Version
    <3>1. i - 1 \in DOMAIN activeAudits
      BY <2>1, <2>2
    <3> QED
      BY <3>1 DEF RegistryInv, RegistryTypes, ActiveAudit
  <2>5. Served \in Seq(Version)
    BY <2>1, <2>3, <2>4
  <2>6. Len(Served) = pointer.revision + 1
    BY <2>1, <2>3
  <2>7. Served[Len(Served)] = pointer.target
    BY <2>1, <2>2, <2>3, <2>6
  <2> QED
    BY <1>2, <2>1, <2>5, <2>6, <2>7
<1> QED
  BY <1>1, <1>2

LEMMA SwitchServes ==
  ASSUME RegistryInv, NEW t \in Transaction, t.action \in SwitchAction, Fits(t),
         Valid(t), Switch(t)
  PROVE  /\ Served' = Append(Served, t.target)
         /\ Len(Served) <= MaxRevision
<1> DEFINE revision == NextRevision(t.expected)
<1>1. ActiveSnapshot = t.expected /\ t.target \in Version
  BY DEF Valid, SwitchAction, Transaction
<1>2. /\ RegistryInv' /\ Kept
      /\ activeAudits'[revision].after = t.target
  <2>1. RegistryInv' /\ Kept
    BY SwitchKeeps
  <2>2. activeAudits'[revision] =
          [action |-> t.action, before |-> TargetOf(t.expected),
           after |-> t.target]
    BY SwitchKeeps
  <2> QED
    BY <2>1, <2>2
<1>3. pointer'.revision = revision /\ pointer'.target = t.target
  BY DEF Switch
<1>4. pointer' # None
  <2>1. pointer'.revision \in Revision
    <3>1. DOMAIN activeAudits' \subseteq Revision
      BY <1>2 DEF RegistryInv, RegistryTypes
    <3>2. revision \in DOMAIN activeAudits'
      BY SwitchKeeps
    <3> QED
      BY <1>3, <3>1, <3>2
  <2>2. pointer' \in ActiveCorpusPointer
    BY <1>1, <1>3, <2>1 DEF Switch, ActiveCorpusPointer
  <2> QED
    BY <2>2
<1>5. revision = Len(Served) /\ Served \in Seq(Version)
  <2>1. CASE pointer = None
    BY <1>1, <2>1, SnapshotParts, ServedParts DEF NextRevision
  <2>2. CASE pointer # None
    BY <1>1, <2>2, SnapshotParts, ServedParts DEF NextRevision
  <2> QED
    BY <2>1, <2>2
<1>6. revision \in Nat /\ revision <= MaxRevision
  BY <1>2, <1>3, <1>4 DEF RegistryInv, RegistryTypes, ActiveCorpusPointer,
                          Revision
<1>7. Served' = [i \in 1 .. revision + 1 |-> activeAudits'[i - 1].after]
  BY <1>3, <1>4 DEF Served
<1>8. \A i \in 1 .. revision : activeAudits'[i - 1].after = Served[i]
  <2> SUFFICES ASSUME NEW i \in 1 .. revision
               PROVE  activeAudits'[i - 1].after = Served[i]
    OBVIOUS
  <2>1. pointer # None
    BY <1>1, <1>6, SnapshotParts DEF NextRevision
  <2>2. revision = pointer.revision + 1 /\ pointer.revision \in Nat
    BY <1>5, <2>1, ServedParts
  <2>3. Served[i] = activeAudits[i - 1].after
    BY <2>1, <2>2 DEF Served
  <2>4. i - 1 \in DOMAIN activeAudits
    BY <2>1, <2>2 DEF RegistryInv, AuditsChain
  <2> QED
    BY <1>2, <2>3, <2>4 DEF Kept
<1>9. /\ Len(Served') = revision + 1
      /\ Served' \in Seq(Version)
  <2>1. ASSUME NEW i \in 1 .. revision + 1
        PROVE  activeAudits'[i - 1].after \in Version
    <3>1. CASE i \in 1 .. revision
      BY <1>5, <1>8, <3>1
    <3>2. CASE i = revision + 1
      BY <1>1, <1>2, <1>6, <3>2
    <3> QED
      BY <1>6, <3>1, <3>2
  <2> QED
    BY <1>6, <1>7, <2>1
<1> QED
  BY <1>2, <1>5, <1>6, <1>7, <1>8, <1>9

LEMMA ApplyRefines ==
  ASSUME RegistryInv, NEW t \in Transaction, Fits(t), Valid(t), Apply(t)
  PROVE  History!Next
<1>1. t.target \in Version /\ t.action \in {"ready", "remove"} \cup SwitchAction
  BY DEF Transaction
<1>2. History!Active = IF Served = <<>> THEN {} ELSE {Served[Len(Served)]}
  BY DEF History!Active, Served
<1>3. CASE t.action = "ready"
  <2>1. /\ states[t.target] = "absent"
        /\ states' = [states EXCEPT ![t.target] = "ready"]
        /\ UNCHANGED <<pointer, activeAudits>>
    BY <1>3 DEF Valid, Apply, Mark, SwitchAction
  <2>2. /\ t.target \notin Registered
        /\ Registered' = Registered \cup {t.target}
        /\ Removed' = Removed
    BY <1>1, <2>1 DEF Registered, Removed, RegistryInv, RegistryTypes
  <2>3. Served' = Served
    BY <2>1 DEF Served
  <2>4. History!Register(t.target)
    BY <2>2, <2>3 DEF History!Register, Registered, Removed, Served
  <2> QED
    BY <1>1, <2>4 DEF History!Next
<1>4. CASE t.action = "remove"
  <2>1. /\ states[t.target] = "ready"
        /\ states' = [states EXCEPT ![t.target] = "logically_removed"]
        /\ UNCHANGED <<pointer, activeAudits>>
        /\ ActiveSnapshot = t.expected /\ TargetOf(t.expected) # t.target
    BY <1>4 DEF Valid, Apply, Mark, SwitchAction
  <2>2. /\ t.target \in Registered \ Removed
        /\ Removed' = Removed \cup {t.target}
        /\ Registered' = Registered
    BY <1>1, <2>1 DEF Registered, Removed, RegistryInv, RegistryTypes
  <2>3. Served' = Served
    BY <2>1 DEF Served
  <2>4. t.target \notin History!Active
    <3>1. pointer # None => pointer.target # t.target
      BY <2>1, SnapshotParts DEF TargetOf
    <3> QED
      BY <1>2, <3>1, ServedParts
  <2>5. History!Remove(t.target)
    BY <2>2, <2>3, <2>4 DEF History!Remove, Registered, Removed, Served
  <2> QED
    BY <1>1, <2>5 DEF History!Next
<1>5. CASE t.action \in SwitchAction
  <2>1. /\ states[t.target] = "ready" /\ ActiveSnapshot = t.expected
        /\ Switch(t)
    BY <1>5 DEF Valid, Apply, SwitchAction
  <2>2. Served' = Append(Served, t.target) /\ Len(Served) <= MaxRevision
    BY <1>5, <2>1, SwitchServes
  <2>3. UNCHANGED states
    BY <2>1 DEF Switch
  <2>4. /\ t.target \in Registered \ Removed
        /\ Registered' = Registered /\ Removed' = Removed
    BY <1>1, <2>1, <2>3 DEF Registered, Removed
  <2>5. t.target \notin History!Active
    <3>1. CASE pointer = None
      BY <1>2, <3>1, ServedParts
    <3>2. CASE pointer # None
      <4>1. pointer.target # t.target
        BY <1>5, <2>1, <3>2, SnapshotParts DEF Fits
      <4> QED
        BY <1>2, <3>2, <4>1, ServedParts
    <3> QED
      BY <3>1, <3>2
  <2>6. History!Activate(t.target)
    BY <2>2, <2>4, <2>5 DEF History!Activate, Registered, Removed, Served
  <2> QED
    BY <1>1, <2>6 DEF History!Next
<1> QED
  BY <1>1, <1>3, <1>4, <1>5

LEMMA StepRefines ==
  ASSUME IInv, [Next]_vars
  PROVE  [History!Next]_(History!vars)
<1>1. CASE UNCHANGED registry
  BY <1>1 DEF registry, History!vars
<1>2. ASSUME NEW t \in Transaction, Fits(t), Valid(t), Apply(t)
      PROVE  History!Next
  BY <1>2, ApplyRefines DEF IInv
<1>3. ASSUME NEW o \in Operator, CommitApplied(o)
      PROVE  History!Next
  <2>1. PICK c \in Call :
          /\ c = calls[o] /\ CallFits(c) /\ c.request \in Request
          /\ c.phase = "commit"
    BY <1>3, InProgress DEF CommitApplied, At
  <2>2. TransactionOf(o) \in Transaction /\ Fits(TransactionOf(o))
    BY <2>1, CommitFits DEF TransactionOf, Target, Committing
  <2>3. PICK t \in Transaction : t = TransactionOf(o) /\ Fits(t)
    BY <2>2
  <2> QED
    BY <1>2, <1>3, <2>3 DEF CommitApplied
<1>4. ASSUME NEW o \in Operator, Proceed(o), ~CommitApplied(o)
      PROVE  UNCHANGED registry
  BY <1>4
  DEF Proceed, VerifyCandidate, ReadFails, Lookup, CheckInactive, Current,
      CheckTarget, ReadLifecycle, ReadActive, CommitConflicts, CommitUnknown,
      CommitFails, CommitRetryable, Confirm, MaySend, registry
<1>5. ASSUME NEW t \in stray, Land(t)
      PROVE  UNCHANGED registry \/ History!Next
  BY <1>2, <1>5 DEF Land, IInv, StrayInv
<1>6. ASSUME NEW o \in Operator, Begin(o) \/ Cancel(o)
      PROVE  UNCHANGED registry
  BY <1>6 DEF Begin, Cancel, MaySend, registry
<1> QED
  BY <1>1, <1>3, <1>4, <1>5, <1>6 DEF Next, vars

\* Each commit of the registry, answered or not, is one registration,
\* activation or removal of the history it promises; nothing else shows.
THEOREM Refinement == Spec => ImplementsHistory
<1>1. Init => History!Init
  BY DEF Init, History!Init
<1>2. IInv /\ [Next]_vars => [History!Next]_(History!vars)
  BY StepRefines
<1> QED
  BY <1>1, <1>2, Inductive, PTL DEF Spec, ImplementsHistory
=============================================================================
