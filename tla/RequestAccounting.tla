------------------------- MODULE RequestAccounting -------------------------
(***************************************************************************)
(* The accounting session of one chat request: an observer that provider   *)
(* adapters call in whatever order their streams take, and a summary drawn *)
(* from it once.  An event the session cannot place is refused with an     *)
(* exception, and the attempt it was about is marked uncertain; the        *)
(* reconciliation later charges an uncertain attempt its whole reserve.    *)
(*                                                                         *)
(* Every method of the session runs without an await: an action is a call. *)
(* Strings are members of small sets, amounts are integers in millionths   *)
(* of the currency unit, the unit in which token prices are exact.         *)
(***************************************************************************)
EXTENDS Integers, Sequences, FiniteSets

CONSTANTS
  Owner,          \* pairs of a provider and a model
  Policy,         \* the pair the attempt policy fixes, or None
  MaxAttempts,    \* attempts the policy allows
  Tier,           \* service tiers a provider may report
  Reported,       \* usage counts a provider may report
  Snapshot,       \* price snapshots the session was given
  AttemptDate,    \* the day the session is created on
  Billing,        \* currency of the endpoint's budget, and of the session if it has one
  SessionCurrency,\* Billing, or None for a session without a currency
  PerAttempt,     \* reserve charged for an attempt of unknown cost
  None, Malformed \* an absent value; a value that fails its type checks

ASSUME AttemptsAssumption == MaxAttempts \in 0 .. 2
ASSUME PolicyAssumption == Policy \in Owner \cup {None} /\ None \notin Owner
ASSUME ReserveAssumption == PerAttempt \in Nat /\ AttemptDate \in Nat
ASSUME SnapshotAssumption ==
  \A s \in Snapshot :
    /\ s.owner \in Owner /\ s.tier \in Tier \cup {None} /\ s.from \in Nat
    /\ s.rate \in [uncached : Nat, cached : Nat, output : Nat, thinking : Nat]
ASSUME MarkAssumption ==
  None \notin Nat /\ Malformed \notin Owner /\ None \notin Tier /\ Malformed # None

Field == {"input", "cached", "output", "thinking", "total"}
AttemptCompletion == {"completed", "error", "cancelled"}
RequestCompletion == {"completed", "refused", "limit", "error", "cancelled", "abandoned"}
UncertaintyReason ==
  {"finish_missing", "observer_failure", "identity_mismatch", "usage_invalid",
   "cleanup_uncertain"}

ASSUME ReasonAssumption ==
  {None, Malformed} \cap (UncertaintyReason \cup AttemptCompletion) = {}

VARIABLES
  owner,     \* provider and model of the session, None until they are known
  attempts,  \* attempts in the order they started
  summary,   \* the summary once drawn, else None
  spoilt     \* history: attempts about which an event was refused while open

accountingVars == <<owner, attempts, summary, spoilt>>

\* A value that passes the strict copy every method makes of its arguments.
WellFormed(value) == value # Malformed

-----------------------------------------------------------------------------
(* Usage counts.                                                           *)

UsageValue == [Field -> Nat \cup {None}]

\* ProviderUsage: at least one count, cached within input, a consistent total.
ValidUsage(u) ==
  /\ \E f \in Field : u[f] # None
  /\ None \notin {u["cached"], u["input"]} => u["cached"] <= u["input"]
  /\ None \notin {u["input"], u["output"], u["thinking"], u["total"]}
       => u["input"] + u["output"] + u["thinking"] = u["total"]

\* Only a valid usage can be put into a chunk.
ASSUME ReportedAssumption == \A u \in Reported : u \in UsageValue /\ ValidUsage(u)

\* A later report of the same attempt replaces the counts it has.
Merged(old, new) == [f \in Field |-> IF new[f] = None THEN old[f] ELSE new[f]]

\* merge_cumulative_usage: no count may go down, and the merge must be valid.
Cumulative(old, new) ==
  /\ \A f \in Field : None \notin {old[f], new[f]} => old[f] <= new[f]
  /\ ValidUsage(Merged(old, new))

CompleteUsage(u) == \A f \in {"input", "cached", "output", "thinking"} : u[f] # None

-----------------------------------------------------------------------------
(* Attempts and the events about them.                                     *)

Identity == [owner : Owner, number : 1 .. 2]
Attempt ==
  [owner : Owner, number : 1 .. 2, tier : Tier \cup {None},
   usage : UsageValue \cup {None}, completion : AttemptCompletion \cup {None},
   uncertainty : UncertaintyReason \cup {None}]

NewAttempt(id) ==
  [owner |-> id.owner, number |-> id.number, tier |-> None, usage |-> None,
   completion |-> None, uncertainty |-> None]

LastAttempt == attempts[Len(attempts)]
Open(a) == a.completion = None
Closed(a) == a.completion # None \/ a.uncertainty # None
IsAbout(a, id) == a.owner = id.owner /\ a.number = id.number

\* _active accepts: an event about the last attempt, which has no verdict yet.
Active(id) ==
  /\ attempts # <<>>
  /\ WellFormed(id)
  /\ IsAbout(LastAttempt, id)
  /\ ~ Closed(LastAttempt)

Marked(a, reason) == IF Open(a) THEN [a EXCEPT !.uncertainty = reason] ELSE a
MarkedFirst(a, reason) == IF Closed(a) THEN a ELSE [a EXCEPT !.uncertainty = reason]

SetLast(a) == attempts' = [attempts EXCEPT ![Len(attempts)] = a]

\* A method raised: an attempt that was still open must be remembered for it.
Spoil(refused) ==
  spoilt' = IF refused /\ attempts # <<>> /\ Open(LastAttempt)
            THEN spoilt \cup {Len(attempts)} ELSE spoilt

\* A retry after any attempt that ended, with an error or without a verdict.
StartableOnceClosed(id) ==
  /\ summary = None
  /\ WellFormed(id)
  /\ Len(attempts) < MaxAttempts
  /\ id.number = Len(attempts) + 1
  /\ attempts # <<>> => Closed(LastAttempt)
  /\ owner \in {None, id.owner}

Startable(id) ==
  /\ summary = None
  /\ WellFormed(id)
  /\ Len(attempts) < MaxAttempts
  /\ id.number = Len(attempts) + 1
  /\ attempts # <<>> => Closed(LastAttempt)
  /\ owner \in {None, id.owner}
  /\ id.number = 2 => LastAttempt.completion = "error"

AttemptStarted(id) ==
  /\ Startable(id)
  /\ owner' = id.owner
  /\ attempts' = Append(attempts, NewAttempt(id))
  /\ UNCHANGED <<summary, spoilt>>

SameTier(a, chunk) == None \in {a.tier, chunk.tier} \/ a.tier = chunk.tier
Repeats(a, chunk) == a.usage = chunk.usage /\ a.tier = chunk.tier
Extends(a, chunk) ==
  ~ Repeats(a, chunk) /\ (a.usage = None \/ Cumulative(a.usage, chunk.usage))

UsageAccepted(chunk) ==
  /\ WellFormed(chunk)
  /\ Active(chunk)
  /\ SameTier(LastAttempt, chunk)
  /\ Extends(LastAttempt, chunk)

\* A report that goes backwards is ignored instead of remembered.
WithUsageForgiving(a, chunk) ==
  IF ~ WellFormed(chunk) THEN Marked(a, "usage_invalid")
  ELSE IF ~ IsAbout(a, chunk) THEN Marked(a, "identity_mismatch")
  ELSE IF Closed(a) \/ ~ SameTier(a, chunk) \/ ~ Extends(a, chunk) THEN a
  ELSE [a EXCEPT !.usage = IF a.usage = None THEN chunk.usage ELSE Merged(a.usage, chunk.usage),
                 !.tier = IF a.tier = None THEN chunk.tier ELSE a.tier]

\* The last attempt after a report of usage.
WithUsage(a, chunk) ==
  IF ~ WellFormed(chunk) THEN Marked(a, "usage_invalid")
  ELSE IF ~ IsAbout(a, chunk) THEN Marked(a, "identity_mismatch")
  ELSE IF Closed(a) THEN a
  ELSE IF ~ SameTier(a, chunk) THEN Marked(a, "identity_mismatch")
  ELSE IF ~ Extends(a, chunk) THEN Marked(a, "usage_invalid")
  ELSE [a EXCEPT !.usage = IF a.usage = None THEN chunk.usage ELSE Merged(a.usage, chunk.usage),
                 !.tier = IF a.tier = None THEN chunk.tier ELSE a.tier]

UsageObserved(chunk) ==
  /\ summary = None
  /\ attempts # <<>>
  /\ SetLast(WithUsage(LastAttempt, chunk))
  /\ Spoil(~ UsageAccepted(chunk))
  /\ UNCHANGED <<owner, summary>>

Verdict == AttemptCompletion \cup UncertaintyReason
Closing(a, verdict) ==
  IF verdict \in AttemptCompletion THEN [a EXCEPT !.completion = verdict]
                                   ELSE [a EXCEPT !.uncertainty = verdict]

\* The last attempt after attempt_finished or attempt_uncertain.
WithVerdict(a, id, verdict) ==
  IF ~ WellFormed(verdict) THEN Marked(a, "observer_failure")
  ELSE IF ~ WellFormed(id) THEN MarkedFirst(a, "observer_failure")
  ELSE IF ~ IsAbout(a, id) THEN Marked(a, "identity_mismatch")
  ELSE IF Closed(a) THEN a
  ELSE Closing(a, verdict)

VerdictAccepted(id, verdict) == WellFormed(verdict) /\ Active(id)

AttemptClosed(id, verdict) ==
  /\ summary = None
  /\ attempts # <<>>
  /\ SetLast(WithVerdict(LastAttempt, id, verdict))
  /\ Spoil(~ VerdictAccepted(id, verdict))
  /\ UNCHANGED <<owner, summary>>

AttemptFinished(id, completion) == AttemptClosed(id, completion)
AttemptUncertain(id, reason) == AttemptClosed(id, reason)

\* The response calls this when closing its stream failed.
ActiveCleanupUncertain ==
  /\ summary = None
  /\ attempts # <<>>
  /\ SetLast(Marked(LastAttempt, "cleanup_uncertain"))
  /\ UNCHANGED <<owner, summary, spoilt>>

-----------------------------------------------------------------------------
(* Pricing and the summary.                                                *)

SnapshotsFor(a) ==
  {s \in Snapshot :
     /\ s.owner = a.owner
     /\ s.tier = a.tier
     /\ SessionCurrency \in {None, s.currency}
     /\ s.from <= AttemptDate
     /\ s.through # None => AttemptDate <= s.through}

Ambiguous(a) == \E s, t \in SnapshotsFor(a) : s # t

Unpriced(state) == [state |-> state, amount |-> None, currency |-> None]

Amount(u, rate) ==
  (u["input"] - u["cached"]) * rate.uncached + u["cached"] * rate.cached
    + u["output"] * rate.output + u["thinking"] * rate.thinking

\* price_provider_attempt: one snapshot, no lookup and no fallback.
Price(a) ==
  IF a.usage = None THEN Unpriced("usage_missing")
  ELSE IF ~ CompleteUsage(a.usage) THEN Unpriced("usage_incomplete")
  ELSE IF SnapshotsFor(a) = {} THEN Unpriced("snapshot_missing")
  ELSE LET s == CHOOSE x \in SnapshotsFor(a) : TRUE
       IN [state |-> "priced", amount |-> Amount(a.usage, s.rate), currency |-> s.currency]

\* What finalize first makes of an attempt: an open one has no finish, and
\* one with two prices has none.
Judged(a) ==
  IF ~ Closed(a) THEN [a EXCEPT !.uncertainty = "finish_missing"]
  ELSE IF a.uncertainty = None /\ Ambiguous(a) THEN [a EXCEPT !.uncertainty = "observer_failure"]
  ELSE a

AnswerOutcome(a, completion) ==
  IF a.completion # "completed" THEN "unverified"
  ELSE IF completion = "completed" THEN "grounded"
  ELSE IF completion = "refused" THEN "refused"
  ELSE "unverified"

Settled(a, completion) ==
  [kind |-> "settled", number |-> a.number, completion |-> a.completion,
   outcome |-> AnswerOutcome(a, completion), cost |-> Price(a)]
Uncertain(a) ==
  [kind |-> "uncertain", number |-> a.number, reason |-> a.uncertainty, usage |-> a.usage]

RecordOf(a, completion) ==
  IF a.uncertainty # None THEN Uncertain(a) ELSE Settled(a, completion)

\* RequestAccountingSummary: a second attempt only after a settled error.
Presentable(records) ==
  Len(records) = 2 => /\ records[1].kind = "settled"
                      /\ records[1].completion = "error"

JudgedAttempts(all) == [i \in DOMAIN all |-> Judged(all[i])]
RecordsOf(all, completion) ==
  [i \in DOMAIN all |-> RecordOf(Judged(all[i]), completion)]

\* finalize, of the attempts as they are when it is called.
FinalizeWith(all, completion) ==
  /\ summary = None
  /\ attempts' = JudgedAttempts(all)
  /\ summary' = IF Presentable(RecordsOf(all, completion))
                THEN [completion |-> completion, attempts |-> RecordsOf(all, completion)]
                ELSE None
  /\ UNCHANGED <<owner, spoilt>>

Finalize(completion) == FinalizeWith(attempts, completion)

-----------------------------------------------------------------------------
(* What the summary costs the endpoint's budget.                           *)

\* An attempt whose cost the endpoint accepts in place of its reserve.
Certain(record, completion) ==
  /\ completion # "abandoned"
  /\ record.kind = "settled"
  /\ record.cost.state = "priced"
  /\ record.cost.currency = Billing

ChargeFor(s, i) ==
  IF i \notin DOMAIN s.attempts THEN 0
  ELSE IF Certain(s.attempts[i], s.completion) THEN s.attempts[i].cost.amount
  ELSE PerAttempt

BudgetReconciliation(s) ==
  [charge |-> ChargeFor(s, 1) + ChargeFor(s, 2),
   uncertain |-> \E i \in DOMAIN s.attempts : ~ Certain(s.attempts[i], s.completion)]

-----------------------------------------------------------------------------
AccountingInit ==
  /\ owner = Policy
  /\ attempts = <<>>
  /\ summary = None
  /\ spoilt = {}

UsageReport ==
  {[owner |-> o, number |-> n, tier |-> t, usage |-> u] :
     o \in Owner, n \in 1 .. 2, t \in Tier \cup {None}, u \in Reported}

AnyIdentity == Identity \cup {Malformed}

\* Any observer: adapters are not trusted to call in order, or once.
AccountingNext ==
  \/ \E id \in AnyIdentity : AttemptStarted(id)
  \/ \E chunk \in UsageReport \cup {Malformed} : UsageObserved(chunk)
  \/ \E id \in AnyIdentity, c \in AttemptCompletion \cup {Malformed} : AttemptFinished(id, c)
  \/ \E id \in AnyIdentity, r \in UncertaintyReason : AttemptUncertain(id, r)
  \/ ActiveCleanupUncertain
  \/ \E c \in RequestCompletion : Finalize(c)

AccountingSpec == AccountingInit /\ [][AccountingNext]_accountingVars

-----------------------------------------------------------------------------
(* Properties.                                                             *)

CostRecord ==
  [state : {"usage_missing", "usage_incomplete", "snapshot_missing"},
   amount : {None}, currency : {None}]
  \cup [state : {"priced"}, amount : Int, currency : {s.currency : s \in Snapshot}]
SettledRecord ==
  [kind : {"settled"}, number : 1 .. 2, completion : AttemptCompletion,
   outcome : {"grounded", "refused", "unverified"}, cost : CostRecord]
UncertainRecord ==
  [kind : {"uncertain"}, number : 1 .. 2, reason : UncertaintyReason,
   usage : UsageValue \cup {None}]
SummaryRecord == SettledRecord \cup UncertainRecord

\* Types of the session: at most two attempts, numbered in order and all of
\* the session's owner; usage is always a valid report, however it was merged.
AccountingTypeOK ==
  /\ owner \in Owner \cup {None}
  /\ attempts \in Seq(Attempt) /\ Len(attempts) <= MaxAttempts
  /\ \A i \in DOMAIN attempts :
       /\ attempts[i].number = i
       /\ attempts[i].owner = owner
       /\ attempts[i].usage # None => ValidUsage(attempts[i].usage)
  /\ spoilt \subseteq DOMAIN attempts
  /\ summary # None =>
       /\ summary.completion \in RequestCompletion
       /\ summary.attempts \in Seq(SummaryRecord)

\* Attempts do not overlap: every attempt but the last ended, and a second
\* one follows only a first that ended in an error (attempt_started), also
\* when finishes arrive twice, late or about the wrong attempt.
RetryFollowsError ==
  Len(attempts) = 2 => attempts[1].completion = "error"

Doubtful(i) == i \in spoilt \/ attempts[i].completion = None

\* Once drawn, the summary accounts for every attempt the session accepted,
\* and each attempt that was never finished, or about which any event was
\* refused while it was open, is charged its whole reserve and makes the
\* reconciliation uncertain: no order of events makes an attempt free.
DoubtIsCharged ==
  summary # None =>
    /\ Len(summary.attempts) = Len(attempts)
    /\ \A i \in DOMAIN attempts : Doubtful(i) =>
         /\ ChargeFor(summary, i) = PerAttempt
         /\ BudgetReconciliation(summary).uncertain

\* The summary cannot be drawn only if a retry followed an attempt that two
\* price snapshots match: whatever the adapters did, the response can settle
\* its request with a summary (finalize).
SummaryAvailable ==
  summary = None =>
    \A c \in RequestCompletion :
      Presentable(RecordsOf(attempts, c)) \/ (Len(attempts) = 2 /\ Ambiguous(attempts[1]))

\* An answer is counted as grounded only if its attempt finished, and at most
\* one attempt of a request is, the last (finalize and the cost records).
GroundedOnce ==
  summary # None =>
    \A i \in DOMAIN summary.attempts :
      LET r == summary.attempts[i]
      IN (r.kind = "settled" /\ r.outcome = "grounded") =>
           /\ i = Len(attempts)
           /\ attempts[i].completion = "completed" /\ i \notin spoilt
           /\ summary.completion = "completed"

=============================================================================
