-------------------------- MODULE CorpusLifecycle --------------------------
(***************************************************************************)
(* The corpus lifecycle registry: CorpusLifecycleService                   *)
(* (src/backend/app/corpus_lifecycle.py) over its Firestore store          *)
(* (src/backend/app/corpus_lifecycle_firestore.py).  Operators register a  *)
(* verified candidate version as ready, switch the active pointer by       *)
(* compare-and-swap, remove inactive versions logically, and resolve the   *)
(* active version.                                                         *)
(*                                                                         *)
(* A call is several store requests with awaits between them: one action   *)
(* per request, and other operators' requests interleave.  A read is one   *)
(* read-only transaction.  A commit is one serializable transaction whose  *)
(* answer may be lost: the service then knows only that the outcome is     *)
(* unknown, while the commit may still land (stray), before or after the   *)
(* confirming read, or after the caller gave up.  Retrying a read changes  *)
(* no state, so a read is one step that answers or fails.                  *)
(*                                                                         *)
(* Data abstraction.  One corpus id, whose versions are model values; a    *)
(* version's evidence is a function of the version (candidates are         *)
(* immutable), so it is not written in the records.  Whether the caller's  *)
(* trust policy accepts a signer, and whether the candidate verifies, are  *)
(* free choices at the point where the code asks.                          *)
(***************************************************************************)
EXTENDS Integers, FiniteSets

CONSTANTS
  Operator,      \* concurrent callers of the service
  Version,       \* versions of one corpus id
  None,          \* Python's None
  MaxRetries,    \* max_retries: 0 or 1
  MaxRevision,   \* MAX_SAFE_INTEGER, the bound of a pointer revision
  MaxStray       \* bound on unanswered commits in flight

ASSUME RetryAssumption == MaxRetries \in {0, 1}
ASSUME RevisionBound == MaxRevision \in Nat

VARIABLES
  states,            \* state of each version's lifecycle record
  lifecycleAudits,   \* lifecycle audit revisions on record, by version
  pointer,           \* the active pointer document, or None
  activeAudits,      \* pointer audits, keyed by resulting revision
  stray,             \* commits sent whose answer was lost
  calls              \* the service call each operator is in, or was last in

registry == <<states, lifecycleAudits, pointer, activeAudits>>
vars == <<registry, stray, calls>>

-----------------------------------------------------------------------------
(* Records.                                                                *)

State == {"absent", "ready", "logically_removed"}
Revision == 0 .. MaxRevision
SwitchAction == {"promote", "rollback"}
ActiveCorpusPointer == [target : Version, revision : Revision]
ActiveAudit ==
  [action : SwitchAction, before : Version \cup {None}, after : Version]
\* A pointer with the action and origin its audit gives it.
ActivePointerSnapshot ==
  [target : Version, revision : Revision, action : SwitchAction,
   before : Version \cup {None}]

\* validate_switch: what a request may ask for.
Request ==
  [action : {"ready", "remove"}, target : Version, expected : {None}]
    \cup {r \in [action : SwitchAction, target : Version,
                 expected : ActiveCorpusPointer \cup {None}] :
            /\ r.action = "rollback" => r.expected # None
            /\ r.expected # None => /\ r.expected.target # r.target
                                    /\ r.expected.revision < MaxRevision}
    \cup [action : {"resolve"}, target : {None}, expected : {None}]

\* A commit: the request's action on target, if the store still matches.
Transaction ==
  [action : {"ready", "remove"} \cup SwitchAction, target : Version,
   expected : ActivePointerSnapshot \cup {None}]

Disposition == {"applied", "confirmed", "resolved"}
ErrorCode == {"lifecycle_conflict", "active_version_forbidden",
  "no_active_version", "malformed_store", "store_unavailable",
  "candidate_unavailable", "attestation_untrusted", "cancelled"}
Phase == {"idle", "verify", "lookup", "current", "target", "active", "removed",
          "commit", "conflict", "unknown"}
Call ==
  [phase : Phase, request : Request \cup {None}, attempt : 0 .. MaxRetries,
   seen : ActivePointerSnapshot \cup {None}, outcome : Disposition \cup {None}]
Idle ==
  [phase |-> "idle", request |-> None, attempt |-> 0, seen |-> None,
   outcome |-> None]

ASSUME NoneAssumption ==
  None \notin Version \cup ActiveCorpusPointer \cup ActivePointerSnapshot
               \cup Request \cup Disposition

-----------------------------------------------------------------------------
(* What a read returns.                                                    *)

AuditsOf(state) ==
  IF state = "absent" THEN {} ELSE IF state = "ready" THEN {0} ELSE {0, 1}
LifecycleMalformed(v) == lifecycleAudits[v] # AuditsOf(states[v])

\* read_active_snapshot refuses a pointer whose audits or target do not fit.
ActiveMalformed ==
  IF pointer = None THEN 0 \in DOMAIN activeAudits
  ELSE \/ {0, pointer.revision} \ DOMAIN activeAudits # {}
       \/ activeAudits[pointer.revision].after # pointer.target
       \/ activeAudits[0].action # "promote" \/ activeAudits[0].before # None
       \/ pointer.revision > 0 /\ activeAudits[pointer.revision].before = None
       \/ LifecycleMalformed(pointer.target)
       \/ states[pointer.target] # "ready"

ActiveSnapshot ==
  IF pointer = None THEN None
  ELSE [target |-> pointer.target, revision |-> pointer.revision,
        action |-> activeAudits[pointer.revision].action,
        before |-> activeAudits[pointer.revision].before]

-----------------------------------------------------------------------------
(* The store's commit transactions.                                        *)

NextRevision(expected) == IF expected = None THEN 0 ELSE expected.revision + 1
TargetOf(expected) == IF expected = None THEN None ELSE expected.target

\* Mutant: the pointer is compared by target, without its revision.
ValidByTarget(t) ==
  CASE t.action = "ready" -> states[t.target] = "absent"
    [] t.action \in SwitchAction ->
         /\ TargetOf(pointer) = TargetOf(t.expected)
         /\ states[t.target] = "ready"
    [] t.action = "remove" ->
         /\ ActiveSnapshot = t.expected /\ states[t.target] = "ready"
         /\ TargetOf(t.expected) # t.target
\* Mutant: a switch does not re-read its target inside the transaction.
ValidUnread(t) ==
  CASE t.action = "ready" -> states[t.target] = "absent"
    [] t.action \in SwitchAction -> ActiveSnapshot = t.expected
    [] t.action = "remove" ->
         /\ ActiveSnapshot = t.expected /\ states[t.target] = "ready"
         /\ TargetOf(t.expected) # t.target
\* Mutant: a removal does not compare the pointer inside the transaction.
ValidUnguarded(t) ==
  CASE t.action = "ready" -> states[t.target] = "absent"
    [] t.action \in SwitchAction ->
         ActiveSnapshot = t.expected /\ states[t.target] = "ready"
    [] t.action = "remove" -> states[t.target] = "ready"
\* Whether the transaction finds what it expects, re-read inside it.
Valid(t) ==
  CASE t.action = "ready" -> states[t.target] = "absent"
    [] t.action \in SwitchAction ->
         ActiveSnapshot = t.expected /\ states[t.target] = "ready"
    [] t.action = "remove" ->
         /\ ActiveSnapshot = t.expected /\ states[t.target] = "ready"
         /\ TargetOf(t.expected) # t.target


\* Whether the documents the transaction reads fit one another.
Readable(t) ==
  ~LifecycleMalformed(t.target) /\ (t.action = "ready" \/ ~ActiveMalformed)

\* State and audit are written by one commit.
Mark(v, state) ==
  /\ states' = [states EXCEPT ![v] = state]
  /\ lifecycleAudits' = [lifecycleAudits EXCEPT ![v] = AuditsOf(state)]
  /\ UNCHANGED <<pointer, activeAudits>>

Switch(t) ==
  LET revision == NextRevision(t.expected)
      audit == [action |-> t.action, before |-> TargetOf(t.expected),
                after |-> t.target]
  IN /\ pointer' = [target |-> t.target, revision |-> revision]
     /\ activeAudits' =
          [r \in DOMAIN activeAudits \cup {revision} |->
             IF r = revision THEN audit ELSE activeAudits[r]]
     /\ UNCHANGED <<states, lifecycleAudits>>

Apply(t) ==
  CASE t.action = "ready" -> Mark(t.target, "ready")
    [] t.action \in SwitchAction -> Switch(t)
    [] t.action = "remove" -> Mark(t.target, "logically_removed")

\* A commit whose answer was lost reaches the store, and applies if it fits.
Land(t) ==
  /\ t \in stray
  /\ stray' = stray \ {t}
  /\ IF Readable(t) /\ Valid(t) THEN Apply(t) ELSE UNCHANGED registry
  /\ UNCHANGED calls

-----------------------------------------------------------------------------
(* The service's calls.                                                    *)

Goto(o, phase) == calls' = [calls EXCEPT ![o].phase = phase]
\* The call returns a receipt, which is kept until the operator's next call,
\* or raises an error code, which is not: no property tells the codes apart.
Return(o, disposition) ==
  calls' = [calls EXCEPT ![o] =
              [Idle EXCEPT !.request = calls[o].request,
                           !.outcome = disposition]]
Raise(o, code) == code \in ErrorCode /\ calls' = [calls EXCEPT ![o] = Idle]
At(o, phase) == calls[o].phase = phase
Target(o) == calls[o].request.target
TransactionOf(o) ==
  [action |-> calls[o].request.action, target |-> Target(o),
   expected |-> calls[o].seen]

Init ==
  /\ states = [v \in Version |-> "absent"]
  /\ lifecycleAudits = [v \in Version |-> {}]
  /\ pointer = None
  /\ activeAudits = [r \in {} |-> None]
  /\ stray = {}
  /\ calls = [o \in Operator |-> Idle]

FirstPhase(action) ==
  CASE action = "ready" -> "verify"
    [] action = "remove" -> "lookup"
    [] OTHER -> "current"

Begin(o) ==
  /\ At(o, "idle")
  /\ \E request \in Request :
       calls' = [calls EXCEPT ![o] =
                   [Idle EXCEPT !.request = request,
                                !.phase = FirstPhase(request.action)]]
  /\ UNCHANGED <<registry, stray>>

\* mark_ready first verifies the candidate, without touching the registry.
VerifyCandidate(o) ==
  /\ At(o, "verify")
  /\ \/ Goto(o, "lookup")
     \/ \E code \in {"attestation_untrusted", "candidate_unavailable",
                      "store_unavailable"} : Raise(o, code)
  /\ UNCHANGED <<registry, stray>>

\* A read of the registry ends the call: malformed state, or no answer.
ReadFails(o) ==
  /\ calls[o].phase \notin {"idle", "verify", "commit"}
  /\ Raise(o, "store_unavailable")
  /\ UNCHANGED <<registry, stray>>

ReadLifecycle(o, v, next) ==
  /\ IF LifecycleMalformed(v) THEN Raise(o, "malformed_store") ELSE next
  /\ UNCHANGED <<registry, stray>>
ReadActive(o, next) ==
  /\ IF ActiveMalformed THEN Raise(o, "malformed_store") ELSE next
  /\ UNCHANGED <<registry, stray>>

\* mark_ready's and remove_version's read of the version's record.
Lookup(o) ==
  /\ At(o, "lookup")
  /\ LET state == states[Target(o)]
     IN ReadLifecycle(o, Target(o),
          IF calls[o].request.action = "ready"
          THEN \/ state = "absent" /\ Goto(o, "commit")
               \/ state = "ready" /\ Return(o, "confirmed")
               \/ state = "logically_removed" /\ Raise(o, "lifecycle_conflict")
          ELSE \/ state = "absent" /\ Raise(o, "lifecycle_conflict")
               \/ state = "ready" /\ Goto(o, "active")
               \/ state = "logically_removed" /\ Goto(o, "removed"))

\* remove_version's read of the pointer, for a ready or a removed version.
CheckInactive(o) ==
  /\ calls[o].phase \in {"active", "removed"}
  /\ ReadActive(o,
       \/ /\ TargetOf(ActiveSnapshot) = Target(o)
          /\ Raise(o, "active_version_forbidden")
       \/ /\ TargetOf(ActiveSnapshot) # Target(o)
          /\ IF At(o, "removed") THEN Return(o, "confirmed")
             ELSE calls' = [calls EXCEPT ![o].phase = "commit",
                                         ![o].seen = ActiveSnapshot])

\* switch_active: the pointer is already where the request would put it.
ReplayCandidate(request, current) ==
  /\ current # None
  /\ current.target = request.target
  /\ current.revision = NextRevision(request.expected)
  /\ current.action = request.action
Expects(request, current) ==
  IF request.expected = None THEN current = None
  ELSE /\ current # None
       /\ current.target = request.expected.target
       /\ current.revision = request.expected.revision

\* switch_active's and resolve_active_state's read of the pointer.
Current(o) ==
  /\ At(o, "current")
  /\ LET request == calls[o].request
         current == ActiveSnapshot
     IN ReadActive(o,
          \/ current # None /\ Raise(o, "attestation_untrusted")
          \/ /\ request.action = "resolve"
             /\ IF current = None THEN Raise(o, "no_active_version")
                ELSE calls' = [calls EXCEPT ![o] =
                       [Idle EXCEPT !.request = request, !.seen = current,
                                    !.outcome = "resolved"]]
          \/ /\ request.action # "resolve"
             /\ IF ReplayCandidate(request, current) \/ Expects(request, current)
                THEN calls' = [calls EXCEPT ![o].phase = "target",
                                            ![o].seen = current]
                ELSE Raise(o, "lifecycle_conflict"))

\* switch_active's read and verification of the version it switches to.
CheckTarget(o) ==
  /\ At(o, "target")
  /\ LET request == calls[o].request
         seen == calls[o].seen
     IN ReadLifecycle(o, Target(o),
          IF states[Target(o)] # "ready" THEN Raise(o, "lifecycle_conflict")
          ELSE \/ \E code \in {"attestation_untrusted", "candidate_unavailable",
                                "store_unavailable"} : Raise(o, code)
               \/ /\ ReplayCandidate(request, seen)
                  /\ IF seen.before = TargetOf(request.expected)
                     THEN Return(o, "confirmed")
                     ELSE Raise(o, "lifecycle_conflict")
               \/ ~ReplayCandidate(request, seen) /\ Goto(o, "commit"))

\* The commit is answered: applied, or refused by the store or by contention.
CommitApplied(o) ==
  /\ At(o, "commit")
  /\ Readable(TransactionOf(o)) /\ Valid(TransactionOf(o))
  /\ Apply(TransactionOf(o))
  /\ Return(o, "applied")
  /\ UNCHANGED stray
CommitConflicts(o) ==
  /\ At(o, "commit")
  /\ Goto(o, "conflict")
  /\ UNCHANGED <<registry, stray>>

\* The commit may have been sent, and may still land.
MaySend(t) ==
  /\ \/ UNCHANGED stray
     \/ Cardinality(stray) < MaxStray /\ stray' = stray \cup {t}
  /\ UNCHANGED registry

\* Deadline or unavailability during the commit.
CommitUnknown(o) ==
  /\ At(o, "commit")
  /\ MaySend(TransactionOf(o))
  /\ Goto(o, "unknown")

\* Another error ends the call, whether or not the commit was sent.
CommitFails(o) ==
  /\ At(o, "commit")
  /\ MaySend(TransactionOf(o))
  /\ \E code \in {"store_unavailable", "malformed_store"} : Raise(o, code)

Again(o) ==
  IF calls[o].attempt = MaxRetries THEN Raise(o, "store_unavailable")
  ELSE calls' = [calls EXCEPT ![o].phase = "commit",
                              ![o].attempt = @ + 1]
\* Deadline or unavailability before the commit was sent.
CommitRetryable(o) ==
  /\ At(o, "commit")
  /\ Again(o)
  /\ UNCHANGED <<registry, stray>>

\* Mutant: a switch is confirmed by its target alone.
ConfirmedByTarget(o) ==
  LET request == calls[o].request
  IN CASE request.action = "ready" -> states[request.target] = "ready"
       [] request.action = "remove" ->
            states[request.target] = "logically_removed"
       [] OTHER -> TargetOf(ActiveSnapshot) = request.target
\* What the registry shows if the call's commit is the last word on it.
Confirmed(o) ==
  LET request == calls[o].request
      seen == calls[o].seen
  IN CASE request.action = "ready" -> states[request.target] = "ready"
       [] request.action = "remove" ->
            states[request.target] = "logically_removed"
       [] OTHER ->
            ActiveSnapshot =
              [target |-> request.target, revision |-> NextRevision(seen),
               action |-> request.action, before |-> TargetOf(seen)]
\* What it shows if no commit has touched what the call compared.
Untouched(o) ==
  LET request == calls[o].request
  IN CASE request.action = "ready" -> states[request.target] = "absent"
       [] request.action = "remove" -> states[request.target] = "ready"
       [] OTHER -> ActiveSnapshot = calls[o].seen

\* The confirming read after a refused or an unanswered commit.
Confirm(o) ==
  /\ calls[o].phase \in {"conflict", "unknown"}
  /\ LET next == IF Confirmed(o) THEN Return(o, "confirmed")
                 ELSE IF At(o, "unknown") /\ Untouched(o) THEN Again(o)
                 ELSE Raise(o, "lifecycle_conflict")
     IN IF calls[o].request.action \in SwitchAction THEN ReadActive(o, next)
        ELSE ReadLifecycle(o, Target(o), next)

\* The caller is cancelled, or its process dies, at any await.
Cancel(o) ==
  /\ ~At(o, "idle")
  /\ IF At(o, "commit") THEN MaySend(TransactionOf(o))
     ELSE UNCHANGED <<registry, stray>>
  /\ Raise(o, "cancelled")

\* One request of o's call is answered, or fails.
Proceed(o) ==
  \/ VerifyCandidate(o) \/ ReadFails(o) \/ Lookup(o) \/ CheckInactive(o)
  \/ Current(o) \/ CheckTarget(o)
  \/ CommitApplied(o) \/ CommitConflicts(o)
  \/ CommitUnknown(o) \/ CommitFails(o) \/ CommitRetryable(o) \/ Confirm(o)

Next ==
  \/ \E o \in Operator : Begin(o) \/ Proceed(o) \/ Cancel(o)
  \/ \E t \in stray : Land(t)

\* Every store request has a deadline, so a call in progress moves on.
Fairness == \A o \in Operator : WF_vars(Proceed(o))
Spec == Init /\ [][Next]_vars /\ Fairness

-----------------------------------------------------------------------------
(* Properties.                                                             *)

\* Every variable holds what its documents and models may hold.
TypeOK ==
  /\ states \in [Version -> State]
  /\ lifecycleAudits \in [Version -> SUBSET {0, 1}]
  /\ pointer \in ActiveCorpusPointer \cup {None}
  /\ DOMAIN activeAudits \subseteq Revision
  /\ \A r \in DOMAIN activeAudits : activeAudits[r] \in ActiveAudit
  /\ stray \subseteq Transaction
  /\ calls \in [Operator -> Call]

\* The documents always fit one another, in whatever order promotions,
\* rollbacks, removals and late commits land: the active version is ready, and
\* every state has exactly its audits.  No reader meets malformed_store.
RegistryWellFormed == ~ActiveMalformed /\ \A v \in Version : ~LifecycleMalformed(v)

\* The pointer audits are an unbroken chain up to the pointer: each switch
\* starts where the one before it ended, and leads elsewhere.
AuditsChain ==
  /\ DOMAIN activeAudits = IF pointer = None THEN {} ELSE 0 .. pointer.revision
  /\ pointer # None => activeAudits[pointer.revision].after = pointer.target
  /\ \A r \in DOMAIN activeAudits :
       /\ activeAudits[r].before # activeAudits[r].after
       /\ activeAudits[r].before =
            IF r = 0 THEN None ELSE activeAudits[r - 1].after

\* A receipt tells the truth, for good: what it reports as applied or
\* confirmed is on the audit record under the revision it names, although the
\* answer to the commit may have been lost and others have moved on since.
ReceiptHonest(call) ==
  LET request == call.request
      revision == NextRevision(request.expected)
  IN /\ call.outcome \in {"applied", "confirmed"} =>
          CASE request.action = "ready" -> 0 \in lifecycleAudits[request.target]
            [] request.action = "remove" -> 1 \in lifecycleAudits[request.target]
            [] OTHER ->
                 /\ revision \in DOMAIN activeAudits
                 /\ activeAudits[revision] =
                      [action |-> request.action, after |-> request.target,
                       before |-> TargetOf(request.expected)]
     /\ call.outcome = "resolved" =>
          /\ call.seen.revision \in DOMAIN activeAudits
          /\ activeAudits[call.seen.revision].after = call.seen.target
ReceiptsHonest == \A o \in Operator : ReceiptHonest(calls[o])

\* Audits are create-only and the lifecycle of a version is one-way: no step
\* rewrites or loses an audit, or brings a removed version back.
AuditsImmutable ==
  [][/\ \A r \in DOMAIN activeAudits :
          r \in DOMAIN activeAudits' /\ activeAudits'[r] = activeAudits[r]
     /\ \A v \in Version : lifecycleAudits[v] \subseteq lifecycleAudits'[v]]_vars

\* The registry implements the history it promises: each commit, answered or
\* not, is one registration, activation or removal of CorpusHistory.
History ==
  INSTANCE CorpusHistory WITH
    registered <- {v \in Version : states[v] # "absent"},
    removed <- {v \in Version : states[v] = "logically_removed"},
    served <- IF pointer = None THEN <<>>
              ELSE [i \in 1 .. pointer.revision + 1 |-> activeAudits[i - 1].after]
ImplementsHistory == History!Init /\ [][History!Next]_(History!vars)

=============================================================================
