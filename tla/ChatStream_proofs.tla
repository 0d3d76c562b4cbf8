--------------------------- MODULE ChatStream_proofs ---------------------------
(***************************************************************************)
(* Proofs about the accounting session, for any owners, prices, reports    *)
(* and order of the calls of its observers, and about a chat response that *)
(* uses it, for any number of items, pings and attempts and any limit.     *)
(*                                                                         *)
(* What makes the session's invariant inductive is that a verdict is       *)
(* final: the completion of an attempt never changes, its uncertainty is   *)
(* never taken back, and an attempt has both only if two prices match it   *)
(* (Sound).  An event refused about an open attempt has then left it       *)
(* uncertain for good (SpoiltInv), and the summary is the record of        *)
(* attempts that no longer change (SummaryInv).                            *)
(*                                                                         *)
(* The response's invariant relates three things that move apart: what is  *)
(* left to send follows from what was sent last (Script), the adapter can  *)
(* only be at some places at each stage of the response (Progress), and    *)
(* the text that was sent, is being sent or is held back is all of the     *)
(* adapter's current attempt (Voice), which is the session's last          *)
(* (Recorded) and is judged when the adapter leaves it (LeftClosed).       *)
(***************************************************************************)
EXTENDS ChatStream, SequenceTheorems, FiniteSetTheorems, TLAPS

\* An attempt as any state of the session may hold it.
Sound(a, i, o) ==
  /\ a \in Attempt
  /\ a.number = i
  /\ a.owner = o
  /\ a.usage # None => ValidUsage(a.usage)
  /\ a.completion # None /\ a.uncertainty # None => Ambiguous(a)

AttemptsInv ==
  /\ owner \in Owner \cup {None}
  /\ attempts \in Seq(Attempt)
  /\ Len(attempts) <= MaxAttempts
  /\ \A i \in 1 .. Len(attempts) : Sound(attempts[i], i, owner)

SpoiltInv ==
  /\ spoilt \subseteq 1 .. Len(attempts)
  /\ \A i \in spoilt : attempts[i].uncertainty # None

Drawn(all, c) ==
  [completion |-> c, attempts |-> [i \in 1 .. Len(all) |-> RecordOf(all[i], c)]]

SummaryInv ==
  summary # None =>
    /\ \E c \in RequestCompletion : summary = Drawn(attempts, c)
    /\ \A i \in 1 .. Len(attempts) : Closed(attempts[i])

SessionInv == AttemptsInv /\ RetryFollowsError /\ SpoiltInv /\ SummaryInv

-----------------------------------------------------------------------------
(* What one event makes of one attempt.                                    *)

\* A report carries a valid usage, the provider's own or what an adapter has
\* merged it into.
Proper(chunk) ==
  /\ chunk.tier \in Tier \cup {None}
  /\ chunk.usage \in UsageValue /\ ValidUsage(chunk.usage)

LEMMA ReportTypes ==
  ASSUME NEW chunk \in UsageReport
  PROVE  Proper(chunk)
BY ReportedAssumption DEF UsageReport, Proper

\* Marking leaves everything but the uncertainty of an open attempt alone.
LEMMA MarkedSound ==
  ASSUME NEW a, NEW i, NEW o, Sound(a, i, o), NEW reason \in UncertaintyReason
  PROVE  /\ Sound(Marked(a, reason), i, o)
         /\ Sound(MarkedFirst(a, reason), i, o)
         /\ a.uncertainty # None => Marked(a, reason).uncertainty # None
         /\ a.uncertainty # None => MarkedFirst(a, reason).uncertainty # None
         /\ Open(a) => Marked(a, reason).uncertainty # None
         /\ Open(a) => MarkedFirst(a, reason).uncertainty # None
<1>1. a \in Attempt BY DEF Sound
<1> DEFINE b == [a EXCEPT !.uncertainty = reason]
<1>2. /\ b \in Attempt /\ b.number = a.number /\ b.owner = a.owner /\ b.usage = a.usage
      /\ b.completion = a.completion /\ b.uncertainty = reason
  BY <1>1 DEF Attempt
<1>3. reason # None BY ReasonAssumption
<1>4. Open(a) => Sound(b, i, o)
  BY <1>2 DEF Sound, Open
<1>5. ~ Closed(a) => Open(a)
  BY DEF Closed, Open
<1>6. /\ Marked(a, reason) = IF Open(a) THEN b ELSE a
      /\ MarkedFirst(a, reason) = IF Closed(a) THEN a ELSE b
  BY DEF Marked, MarkedFirst
<1>7. Open(a) /\ Closed(a) => a.uncertainty # None
  BY DEF Open, Closed
<1> HIDE DEF b
<1> QED BY <1>2, <1>3, <1>4, <1>5, <1>6, <1>7

\* A merge of usages is a usage.
LEMMA MergedTypes ==
  ASSUME NEW old \in UsageValue, NEW new \in UsageValue
  PROVE  Merged(old, new) \in UsageValue
BY DEF Merged, UsageValue

\* A report of usage leaves the attempt sound, and uncertain if it was.
LEMMA UsageSound ==
  ASSUME NEW a, NEW i, NEW o, Sound(a, i, o), NEW chunk, WellFormed(chunk) => Proper(chunk)
  PROVE  /\ Sound(WithUsage(a, chunk), i, o)
         /\ a.uncertainty # None => WithUsage(a, chunk).uncertainty # None
<1> DEFINE u == IF a.usage = None THEN chunk.usage ELSE Merged(a.usage, chunk.usage)
           t == IF a.tier = None THEN chunk.tier ELSE a.tier
           b == [a EXCEPT !.usage = u, !.tier = t]
<1>1. CASE /\ WellFormed(chunk) /\ IsAbout(a, chunk) /\ ~ Closed(a)
           /\ SameTier(a, chunk) /\ Extends(a, chunk)
  <2>2. a \in Attempt BY DEF Sound
  <2>3. /\ chunk.tier \in Tier \cup {None} /\ chunk.usage \in UsageValue
        /\ ValidUsage(chunk.usage)
    BY <1>1 DEF Proper
  <2>4. u \in UsageValue /\ ValidUsage(u)
    <3>1. CASE a.usage = None BY <3>1, <2>3
    <3>2. CASE a.usage # None
      <4>1. a.usage \in UsageValue BY <2>2, <3>2 DEF Attempt
      <4>2. Cumulative(a.usage, chunk.usage) BY <1>1, <3>2 DEF Extends
      <4> QED BY <4>1, <4>2, <3>2, <2>3, MergedTypes DEF Cumulative
    <3> QED BY <3>1, <3>2
  <2>5. t \in Tier \cup {None} BY <2>2, <2>3 DEF Attempt
  <2> HIDE DEF u, t
  <2>6. /\ b \in Attempt /\ b.number = a.number /\ b.owner = a.owner /\ b.usage = u
        /\ b.completion = a.completion /\ b.uncertainty = a.uncertainty
    BY <2>2, <2>4, <2>5 DEF Attempt
  <2>7. a.completion = None BY <1>1 DEF Closed
  <2>8. Sound(b, i, o) BY <2>4, <2>6, <2>7 DEF Sound
  <2>9. WithUsage(a, chunk) = b BY <1>1 DEF WithUsage, u, t
  <2> QED BY <2>6, <2>8, <2>9
<1>2. CASE ~ (/\ WellFormed(chunk) /\ IsAbout(a, chunk) /\ ~ Closed(a)
              /\ SameTier(a, chunk) /\ Extends(a, chunk))
  <2>1. \/ WithUsage(a, chunk) = a
        \/ \E r \in UncertaintyReason : WithUsage(a, chunk) = Marked(a, r)
    <3>1. /\ "usage_invalid" \in UncertaintyReason
          /\ "identity_mismatch" \in UncertaintyReason
      BY DEF UncertaintyReason
    <3> QED BY <3>1, <1>2, Zenon DEF WithUsage
  <2> QED BY <2>1, MarkedSound
<1> QED BY <1>1, <1>2

\* A report of usage that is refused marks an open attempt.
LEMMA UsageRefused ==
  ASSUME NEW a, NEW i, NEW o, Sound(a, i, o), NEW chunk, Open(a),
         ~ (/\ WellFormed(chunk) /\ IsAbout(a, chunk) /\ ~ Closed(a)
            /\ SameTier(a, chunk) /\ Extends(a, chunk))
  PROVE  WithUsage(a, chunk).uncertainty # None
<1>1. /\ "usage_invalid" \in UncertaintyReason
      /\ "identity_mismatch" \in UncertaintyReason
  BY DEF UncertaintyReason
<1>2. \A r \in UncertaintyReason : Marked(a, r).uncertainty # None
  BY MarkedSound
<1>3. Closed(a) => a.uncertainty # None
  BY DEF Open, Closed
<1>4. \/ Closed(a) /\ WithUsage(a, chunk) = a
      \/ \E r \in UncertaintyReason : WithUsage(a, chunk) = Marked(a, r)
  BY <1>1, Zenon DEF WithUsage
<1> QED BY <1>2, <1>3, <1>4

\* A verdict leaves the attempt sound, and uncertain if it was.
LEMMA VerdictSound ==
  ASSUME NEW a, NEW i, NEW o, Sound(a, i, o), NEW id, NEW v \in Verdict \cup {Malformed}
  PROVE  /\ Sound(WithVerdict(a, id, v), i, o)
         /\ a.uncertainty # None => WithVerdict(a, id, v).uncertainty # None
<1>1. CASE WellFormed(v) /\ ~ Closed(a)
  <2> DEFINE b == Closing(a, v)
  <2>1. v \in AttemptCompletion \cup UncertaintyReason BY <1>1 DEF WellFormed, Verdict
  <2>2. a \in Attempt BY DEF Sound
  <2>3. a.completion = None /\ a.uncertainty = None BY <1>1 DEF Closed
  <2>4. /\ b \in Attempt /\ b.number = a.number /\ b.owner = a.owner /\ b.usage = a.usage
        /\ b.completion = None \/ b.uncertainty = None
    BY <2>1, <2>2, <2>3 DEF Closing, Attempt
  <2> HIDE DEF b
  <2>5. Sound(b, i, o) BY <2>4 DEF Sound
  <2>6. \/ WithVerdict(a, id, v) = b
        \/ \E r \in UncertaintyReason : \/ WithVerdict(a, id, v) = Marked(a, r)
                                        \/ WithVerdict(a, id, v) = MarkedFirst(a, r)
    <3>1. /\ "observer_failure" \in UncertaintyReason
          /\ "identity_mismatch" \in UncertaintyReason
      BY DEF UncertaintyReason
    <3> QED BY <3>1, <1>1, Zenon DEF WithVerdict, b
  <2> QED BY <2>3, <2>5, <2>6, MarkedSound
<1>2. CASE ~ (WellFormed(v) /\ ~ Closed(a))
  <2>1. \/ WithVerdict(a, id, v) = a
        \/ \E r \in UncertaintyReason : \/ WithVerdict(a, id, v) = Marked(a, r)
                                        \/ WithVerdict(a, id, v) = MarkedFirst(a, r)
    <3>1. /\ "observer_failure" \in UncertaintyReason
          /\ "identity_mismatch" \in UncertaintyReason
      BY DEF UncertaintyReason
    <3> QED BY <3>1, <1>2, Zenon DEF WithVerdict
  <2> QED BY <2>1, MarkedSound
<1> QED BY <1>1, <1>2

\* A verdict that is refused marks an open attempt.
LEMMA VerdictRefused ==
  ASSUME NEW a, NEW i, NEW o, Sound(a, i, o), NEW id, NEW v, Open(a),
         ~ (WellFormed(v) /\ WellFormed(id) /\ IsAbout(a, id) /\ ~ Closed(a))
  PROVE  WithVerdict(a, id, v).uncertainty # None
<1>1. /\ "observer_failure" \in UncertaintyReason
      /\ "identity_mismatch" \in UncertaintyReason
  BY DEF UncertaintyReason
<1>2. \A r \in UncertaintyReason : /\ Marked(a, r).uncertainty # None
                                   /\ MarkedFirst(a, r).uncertainty # None
  BY MarkedSound
<1>3. Closed(a) => a.uncertainty # None
  BY DEF Open, Closed
<1>4. \/ Closed(a) /\ WithVerdict(a, id, v) = a
      \/ \E r \in UncertaintyReason : \/ WithVerdict(a, id, v) = Marked(a, r)
                                      \/ WithVerdict(a, id, v) = MarkedFirst(a, r)
  BY <1>1, Zenon DEF WithVerdict
<1> QED BY <1>2, <1>3, <1>4

\* Finalize closes an attempt, keeps its completion, and takes nothing back.
LEMMA JudgedSound ==
  ASSUME NEW a, NEW i, NEW o, Sound(a, i, o)
  PROVE  /\ Sound(Judged(a), i, o)
         /\ Closed(Judged(a))
         /\ Judged(a).completion = a.completion
         /\ a.uncertainty # None => Judged(a).uncertainty # None
<1> DEFINE b(r) == [a EXCEPT !.uncertainty = r]
<1>1. a \in Attempt BY DEF Sound
<1>2. \A r \in UncertaintyReason :
        /\ b(r) \in Attempt /\ b(r).number = a.number /\ b(r).owner = a.owner
        /\ b(r).usage = a.usage /\ b(r).tier = a.tier
        /\ b(r).completion = a.completion /\ b(r).uncertainty = r
  BY <1>1 DEF Attempt
<1>3. \A r \in UncertaintyReason : Ambiguous(b(r)) <=> Ambiguous(a)
  BY <1>2 DEF Ambiguous, SnapshotsFor
<1>4. "finish_missing" \in UncertaintyReason /\ "observer_failure" \in UncertaintyReason
  BY DEF UncertaintyReason
<1>5. Judged(a) = IF ~ Closed(a) THEN b("finish_missing")
                  ELSE IF a.uncertainty = None /\ Ambiguous(a) THEN b("observer_failure")
                  ELSE a
  BY DEF Judged
<1>6. \A r \in UncertaintyReason : r # None BY ReasonAssumption
<1> HIDE DEF b
<1>7. CASE ~ Closed(a)
  <2>1. Judged(a) = b("finish_missing") BY <1>5, <1>7
  <2> QED BY <2>1, <1>2, <1>4, <1>6, <1>7 DEF Sound, Closed
<1>8. CASE Closed(a) /\ a.uncertainty = None /\ Ambiguous(a)
  <2>1. Judged(a) = b("observer_failure") BY <1>5, <1>8
  <2>2. Ambiguous(b("observer_failure")) BY <1>3, <1>4, <1>8
  <2> QED BY <2>1, <2>2, <1>2, <1>4, <1>6, <1>8 DEF Sound, Closed
<1>9. CASE Closed(a) /\ ~ (a.uncertainty = None /\ Ambiguous(a))
  <2>1. Judged(a) = a BY <1>5, <1>9
  <2> QED BY <2>1, <1>9
<1> QED BY <1>7, <1>8, <1>9

-----------------------------------------------------------------------------
(* The cost and the record of an attempt.                                  *)

LEMMA PriceTypes ==
  ASSUME NEW a \in Attempt
  PROVE  Price(a) \in CostRecord
<1>1. \A st \in {"usage_missing", "usage_incomplete", "snapshot_missing"} :
        Unpriced(st) \in CostRecord
  BY DEF Unpriced, CostRecord
<1>2. CASE \/ a.usage = None
           \/ ~ CompleteUsage(a.usage)
           \/ SnapshotsFor(a) = {}
  <2>1. \/ Price(a) = Unpriced("usage_missing")
        \/ Price(a) = Unpriced("usage_incomplete")
        \/ Price(a) = Unpriced("snapshot_missing")
    BY <1>2, Zenon DEF Price
  <2> QED BY <1>1, <2>1
<1>3. CASE a.usage # None /\ CompleteUsage(a.usage) /\ SnapshotsFor(a) # {}
  <2> DEFINE s == CHOOSE x \in SnapshotsFor(a) : TRUE
             p == [state |-> "priced", amount |-> Amount(a.usage, s.rate), currency |-> s.currency]
  <2>1. s \in SnapshotsFor(a) BY <1>3
  <2>2. s \in Snapshot BY <2>1 DEF SnapshotsFor
  <2>3. Price(a) = p BY <1>3 DEF Price
  <2> HIDE DEF s
  <2>4. s.rate \in [uncached : Nat, cached : Nat, output : Nat, thinking : Nat]
    BY <2>2, SnapshotAssumption
  <2>5. a.usage \in UsageValue BY <1>3 DEF Attempt
  <2>6. \A f \in {"input", "cached", "output", "thinking"} : a.usage[f] \in Nat
    BY <1>3, <2>5 DEF CompleteUsage, UsageValue, Field
  <2>7. /\ a.usage["input"] \in Nat /\ a.usage["cached"] \in Nat
        /\ a.usage["output"] \in Nat /\ a.usage["thinking"] \in Nat
    BY <2>6
  <2>8. /\ s.rate.uncached \in Nat /\ s.rate.cached \in Nat
        /\ s.rate.output \in Nat /\ s.rate.thinking \in Nat
    BY <2>4
  <2>9. Amount(a.usage, s.rate) \in Int
    <3>1. ASSUME NEW x \in Nat, NEW y \in Nat
          PROVE  x * y \in Int
      OBVIOUS
    <3>2. a.usage["input"] - a.usage["cached"] \in Int BY <2>7
    <3>3. ASSUME NEW x \in Int, NEW y \in Nat
          PROVE  x * y \in Int
      OBVIOUS
    <3>4. /\ (a.usage["input"] - a.usage["cached"]) * s.rate.uncached \in Int
          /\ a.usage["cached"] * s.rate.cached \in Int
          /\ a.usage["output"] * s.rate.output \in Int
          /\ a.usage["thinking"] * s.rate.thinking \in Int
      BY <2>7, <2>8, <3>1, <3>2, <3>3
    <3> QED BY <3>4 DEF Amount
  <2>10. p \in [state : {"priced"}, amount : Int, currency : {x.currency : x \in Snapshot}]
    BY <2>2, <2>9
  <2> QED BY <2>3, <2>10 DEF CostRecord
<1> QED BY <1>2, <1>3

LEMMA RecordTypes ==
  ASSUME NEW a, NEW i, NEW o, Sound(a, i, o), Closed(a), NEW c
  PROVE  RecordOf(a, c) \in SummaryRecord
<1>1. a \in Attempt BY DEF Sound
<1>2. CASE a.uncertainty # None
  <2>1. /\ a.number \in 1 .. 2 /\ a.uncertainty \in UncertaintyReason
        /\ a.usage \in UsageValue \cup {None}
    BY <1>1, <1>2 DEF Attempt
  <2>2. Uncertain(a) \in UncertainRecord
    BY <2>1 DEF Uncertain, UncertainRecord
  <2>3. RecordOf(a, c) = Uncertain(a) BY <1>2 DEF RecordOf
  <2> QED BY <2>2, <2>3 DEF SummaryRecord
<1>3. CASE a.uncertainty = None
  <2>1. a.number \in 1 .. 2 /\ a.completion \in AttemptCompletion
    BY <1>1, <1>3 DEF Attempt, Closed
  <2>2. AnswerOutcome(a, c) \in {"grounded", "refused", "unverified"}
    BY DEF AnswerOutcome
  <2>3. Price(a) \in CostRecord BY <1>1, PriceTypes
  <2>4. Settled(a, c) \in SettledRecord
    BY <2>1, <2>2, <2>3 DEF Settled, SettledRecord
  <2>5. RecordOf(a, c) = Settled(a, c) BY <1>3 DEF RecordOf
  <2> QED BY <2>4, <2>5 DEF SummaryRecord
<1> QED BY <1>2, <1>3

-----------------------------------------------------------------------------
(* Counting to two.                                                        *)

LEMMA SecondNumber ==
  ASSUME NEW n \in Nat, NEW k, n + 1 = 2, k = n + 1
  PROVE  n = 1 /\ k = 2
OBVIOUS

LEMMA WithinTwo ==
  ASSUME NEW n \in Nat, NEW m \in 0 .. 2, n <= m
  PROVE  n \in 0 .. 2
OBVIOUS

LEMMA OnlyLast ==
  ASSUME NEW n \in 0 .. 2, NEW k \in 1 .. n, n = 2 => k # 1
  PROVE  k = n
OBVIOUS

-----------------------------------------------------------------------------
(* One step per event.                                                     *)

LEMMA SessionInitial ==
  ASSUME AccountingInit
  PROVE  SessionInv
BY AttemptsAssumption, PolicyAssumption
   DEF AccountingInit, SessionInv, AttemptsInv, RetryFollowsError, SpoiltInv, SummaryInv

\* The session accepts a new attempt only behind one that ended in an error.
LEMMA StartKeeps ==
  ASSUME SessionInv, NEW id \in AnyIdentity, AttemptStarted(id)
  PROVE  SessionInv'
<1> USE DEF SessionInv
<1>1. /\ summary = None /\ WellFormed(id) /\ Len(attempts) < MaxAttempts
      /\ id.number = Len(attempts) + 1 /\ owner \in {None, id.owner}
      /\ id.number = 2 => LastAttempt.completion = "error"
      /\ owner' = id.owner /\ attempts' = Append(attempts, NewAttempt(id))
      /\ summary' = summary /\ spoilt' = spoilt
  BY DEF AttemptStarted, Startable
<1>2. id \in Identity BY <1>1 DEF WellFormed, AnyIdentity
<1>3. id.owner \in Owner /\ id.number \in 1 .. 2 BY <1>2 DEF Identity
<1> DEFINE b == NewAttempt(id)
<1>4. b \in Attempt /\ b.number = id.number /\ b.owner = id.owner /\ b.usage = None
      /\ b.completion = None
  BY <1>3 DEF NewAttempt, Attempt
<1>5. attempts \in Seq(Attempt) BY DEF AttemptsInv
<1> HIDE DEF b
<1>6. /\ attempts' \in Seq(Attempt) /\ Len(attempts') = Len(attempts) + 1
      /\ \A i \in 1 .. Len(attempts) : attempts'[i] = attempts[i]
      /\ attempts'[Len(attempts) + 1] = b
  BY <1>1, <1>4, <1>5 DEF b
<1>7. Len(attempts) \in Nat BY <1>5
<1>8. \A i \in 1 .. Len(attempts) : Sound(attempts'[i], i, owner')
  <2> SUFFICES ASSUME NEW i \in 1 .. Len(attempts) PROVE Sound(attempts'[i], i, owner')
    OBVIOUS
  <2>1. Sound(attempts[i], i, owner) BY DEF AttemptsInv
  <2>2. attempts[i].owner = owner /\ attempts[i] \in Attempt BY <2>1 DEF Sound
  <2>3. owner # None BY <2>2, PolicyAssumption DEF Attempt
  <2> QED BY <2>1, <2>3, <1>1, <1>6
<1>9. Sound(b, Len(attempts) + 1, owner') BY <1>1, <1>4 DEF Sound
<1>10. AttemptsInv'
  <2>1. Len(attempts') <= MaxAttempts BY <1>1, <1>6, <1>7, AttemptsAssumption
  <2>2. \A i \in 1 .. Len(attempts') : Sound(attempts'[i], i, owner')
    BY <1>6, <1>7, <1>8, <1>9
  <2>3. owner' \in Owner \cup {None} BY <1>1, <1>3
  <2> QED BY <2>1, <2>2, <2>3, <1>6 DEF AttemptsInv
<1>11. RetryFollowsError'
  <2> SUFFICES ASSUME Len(attempts') = 2 PROVE attempts'[1].completion = "error"
    BY DEF RetryFollowsError
  <2>1. /\ Len(attempts') = Len(attempts) + 1 /\ id.number = Len(attempts) + 1
        /\ id.number = 2 => LastAttempt.completion = "error"
    BY <1>1, <1>6
  <2>2. Len(attempts) = 1 /\ id.number = 2
    BY <2>1, <1>7, SecondNumber
  <2> QED BY <2>1, <2>2, <1>6 DEF LastAttempt
<1>12. SpoiltInv'
  BY <1>1, <1>6, <1>7 DEF SpoiltInv
<1>13. SummaryInv' BY <1>1 DEF SummaryInv
<1> QED BY <1>10, <1>11, <1>12, <1>13

\* An event about the last attempt: what it leaves must be sound, uncertain
\* if it was, and uncertain if the event was refused while it was open.
LEMMA EventKeeps ==
  ASSUME SessionInv, NEW b, summary = None, attempts # <<>>,
         SetLast(b), owner' = owner, summary' = summary,
         Sound(b, Len(attempts), owner),
         LastAttempt.uncertainty # None => b.uncertainty # None,
         \/ spoilt' = spoilt
         \/ spoilt' = spoilt \cup {Len(attempts)} /\ b.uncertainty # None
  PROVE  SessionInv'
<1> USE DEF SessionInv
<1>1. attempts \in Seq(Attempt) /\ Len(attempts) \in Nat /\ Len(attempts) # 0
  BY DEF AttemptsInv
<1>2. b \in Attempt BY DEF Sound
<1>3. attempts' = [attempts EXCEPT ![Len(attempts)] = b] BY DEF SetLast
<1>4. /\ attempts' \in Seq(Attempt) /\ Len(attempts') = Len(attempts)
      /\ attempts'[Len(attempts)] = b
      /\ \A i \in 1 .. Len(attempts) : i # Len(attempts) => attempts'[i] = attempts[i]
  BY <1>1, <1>2, <1>3
<1>5. AttemptsInv' BY <1>4 DEF AttemptsInv
<1>6. RetryFollowsError' BY <1>4 DEF RetryFollowsError
<1>7. SpoiltInv'
  <2>1. spoilt' \subseteq 1 .. Len(attempts')
    <3>1. spoilt \subseteq 1 .. Len(attempts) BY DEF SpoiltInv
    <3>2. Len(attempts) \in 1 .. Len(attempts) BY <1>1
    <3>3. spoilt' \subseteq spoilt \cup {Len(attempts)} OBVIOUS
    <3>4. Len(attempts') = Len(attempts) BY <1>4
    <3> QED BY <3>1, <3>2, <3>3, <3>4
  <2>2. ASSUME NEW i \in spoilt' PROVE attempts'[i].uncertainty # None
    <3>1. CASE i = Len(attempts)
      <4>1. i \in spoilt => b.uncertainty # None BY <3>1 DEF SpoiltInv, LastAttempt
      <4>2. i \notin spoilt => b.uncertainty # None BY <3>1
      <4> QED BY <4>1, <4>2, <3>1, <1>4
    <3>2. CASE i # Len(attempts)
      <4>1. i \in spoilt BY <3>2
      <4>2. i \in 1 .. Len(attempts) BY <4>1 DEF SpoiltInv
      <4> QED BY <4>1, <4>2, <3>2, <1>4 DEF SpoiltInv
    <3> QED BY <3>1, <3>2
  <2> QED BY <2>1, <2>2 DEF SpoiltInv
<1>8. SummaryInv' BY DEF SummaryInv
<1> QED BY <1>5, <1>6, <1>7, <1>8

LEMMA LastSound ==
  ASSUME SessionInv, attempts # <<>>
  PROVE  Sound(LastAttempt, Len(attempts), owner)
BY DEF SessionInv, AttemptsInv, LastAttempt

LEMMA UsageKeeps ==
  ASSUME SessionInv, NEW chunk, WellFormed(chunk) => Proper(chunk), UsageObserved(chunk)
  PROVE  SessionInv'
<1> DEFINE b == WithUsage(LastAttempt, chunk)
<1>1. /\ summary = None /\ attempts # <<>> /\ SetLast(b)
      /\ Spoil(~ UsageAccepted(chunk)) /\ owner' = owner /\ summary' = summary
  BY DEF UsageObserved
<1>2. Sound(LastAttempt, Len(attempts), owner) BY <1>1, LastSound
<1>3. Sound(b, Len(attempts), owner)
      /\ (LastAttempt.uncertainty # None => b.uncertainty # None)
  BY <1>2, UsageSound
<1>4. ~ UsageAccepted(chunk) /\ Open(LastAttempt) => b.uncertainty # None
  BY <1>1, <1>2, UsageRefused DEF UsageAccepted, Active
<1>5. \/ spoilt' = spoilt
      \/ spoilt' = spoilt \cup {Len(attempts)} /\ b.uncertainty # None
  BY <1>1, <1>4 DEF Spoil
<1> HIDE DEF b
<1> QED BY <1>1, <1>3, <1>5, EventKeeps

LEMMA CloseKeeps ==
  ASSUME SessionInv, NEW id, NEW v \in Verdict \cup {Malformed}, AttemptClosed(id, v)
  PROVE  SessionInv'
<1> DEFINE b == WithVerdict(LastAttempt, id, v)
<1>1. /\ summary = None /\ attempts # <<>> /\ SetLast(b)
      /\ Spoil(~ VerdictAccepted(id, v)) /\ owner' = owner /\ summary' = summary
  BY DEF AttemptClosed
<1>2. Sound(LastAttempt, Len(attempts), owner) BY <1>1, LastSound
<1>3. Sound(b, Len(attempts), owner)
      /\ (LastAttempt.uncertainty # None => b.uncertainty # None)
  BY <1>2, VerdictSound
<1>4. ~ VerdictAccepted(id, v) /\ Open(LastAttempt) => b.uncertainty # None
  BY <1>1, <1>2, VerdictRefused DEF VerdictAccepted, Active
<1>5. \/ spoilt' = spoilt
      \/ spoilt' = spoilt \cup {Len(attempts)} /\ b.uncertainty # None
  BY <1>1, <1>4 DEF Spoil
<1> HIDE DEF b
<1> QED BY <1>1, <1>3, <1>5, EventKeeps

LEMMA CleanupKeeps ==
  ASSUME SessionInv, ActiveCleanupUncertain
  PROVE  SessionInv'
<1> DEFINE b == Marked(LastAttempt, "cleanup_uncertain")
<1>1. /\ summary = None /\ attempts # <<>> /\ SetLast(b)
      /\ owner' = owner /\ summary' = summary /\ spoilt' = spoilt
  BY DEF ActiveCleanupUncertain
<1>2. Sound(LastAttempt, Len(attempts), owner) BY <1>1, LastSound
<1>3. "cleanup_uncertain" \in UncertaintyReason BY DEF UncertaintyReason
<1>4. Sound(b, Len(attempts), owner)
      /\ (LastAttempt.uncertainty # None => b.uncertainty # None)
  BY <1>2, <1>3, MarkedSound
<1> HIDE DEF b
<1> QED BY <1>1, <1>4, EventKeeps

\* Drawing the summary closes every attempt and records what it leaves.
LEMMA FinalizeWithKeeps ==
  ASSUME SessionInv, NEW all \in Seq(Attempt), Len(all) = Len(attempts),
         \A i \in 1 .. Len(all) : Sound(all[i], i, owner),
         Len(all) = 2 => all[1].completion = "error",
         \A i \in spoilt : all[i].uncertainty # None,
         NEW c \in RequestCompletion, FinalizeWith(all, c)
  PROVE  SessionInv'
<1> USE DEF SessionInv
<1>1. /\ summary = None /\ attempts' = JudgedAttempts(all)
      /\ summary' = IF Presentable(RecordsOf(all, c))
                    THEN [completion |-> c, attempts |-> RecordsOf(all, c)]
                    ELSE None
      /\ owner' = owner /\ spoilt' = spoilt
  BY DEF FinalizeWith
<1>2. Len(all) \in Nat /\ DOMAIN all = 1 .. Len(all)
  OBVIOUS
<1>3. \A i \in 1 .. Len(all) :
        /\ Sound(Judged(all[i]), i, owner) /\ Closed(Judged(all[i]))
        /\ Judged(all[i]).completion = all[i].completion
        /\ all[i].uncertainty # None => Judged(all[i]).uncertainty # None
  BY JudgedSound
<1>4. attempts' = [i \in 1 .. Len(all) |-> Judged(all[i])]
  BY <1>1, <1>2 DEF JudgedAttempts
<1>5. /\ attempts' \in Seq(Attempt) /\ Len(attempts') = Len(all)
      /\ \A i \in 1 .. Len(all) : attempts'[i] = Judged(all[i])
  <2>1. \A i \in 1 .. Len(all) : Judged(all[i]) \in Attempt
    BY <1>3 DEF Sound
  <2> QED BY <1>2, <1>4, <2>1
<1>6. AttemptsInv' BY <1>1, <1>3, <1>5 DEF AttemptsInv
<1>7. RetryFollowsError'
  <2> SUFFICES ASSUME Len(attempts') = 2 PROVE attempts'[1].completion = "error"
    BY DEF RetryFollowsError
  <2>1. Len(all) = 2 BY <1>5, Zenon
  <2> QED BY <2>1, <1>3, <1>5
<1>8. SpoiltInv' BY <1>1, <1>3, <1>5 DEF SpoiltInv
<1>9. SummaryInv'
  <2> SUFFICES ASSUME summary' # None
               PROVE  /\ summary' = Drawn(attempts', c)
                      /\ \A i \in 1 .. Len(attempts') : Closed(attempts'[i])
    BY DEF SummaryInv
  <2>1. summary' = [completion |-> c, attempts |-> RecordsOf(all, c)] BY <1>1
  <2>2. RecordsOf(all, c) = [i \in 1 .. Len(attempts') |-> RecordOf(attempts'[i], c)]
    BY <1>2, <1>5 DEF RecordsOf
  <2>3. summary' = Drawn(attempts', c) BY <2>1, <2>2 DEF Drawn
  <2>4. \A i \in 1 .. Len(attempts') : Closed(attempts'[i]) BY <1>3, <1>5
  <2> QED BY <2>3, <2>4
<1> QED BY <1>6, <1>7, <1>8, <1>9

LEMMA FinalizeKeeps ==
  ASSUME SessionInv, NEW c \in RequestCompletion, Finalize(c)
  PROVE  SessionInv'
BY FinalizeWithKeeps
   DEF Finalize, SessionInv, AttemptsInv, RetryFollowsError, SpoiltInv

LEMMA SessionStep ==
  ASSUME SessionInv, [AccountingNext]_accountingVars
  PROVE  SessionInv'
<1>1. CASE UNCHANGED accountingVars
  BY <1>1 DEF accountingVars, SessionInv, AttemptsInv, RetryFollowsError, SpoiltInv, SummaryInv
<1>2. CASE \E id \in AnyIdentity : AttemptStarted(id)
  BY <1>2, StartKeeps
<1>3. CASE \E chunk \in UsageReport \cup {Malformed} : UsageObserved(chunk)
  <2>1. PICK chunk \in UsageReport \cup {Malformed} : UsageObserved(chunk) BY <1>3
  <2>2. WellFormed(chunk) => Proper(chunk) BY ReportTypes DEF WellFormed
  <2> QED BY <2>1, <2>2, UsageKeeps
<1>4. CASE \E id \in AnyIdentity, c \in AttemptCompletion \cup {Malformed} : AttemptFinished(id, c)
  <2>1. PICK id \in AnyIdentity, c \in AttemptCompletion \cup {Malformed} : AttemptClosed(id, c)
    BY <1>4 DEF AttemptFinished
  <2>2. c \in Verdict \cup {Malformed} BY DEF Verdict
  <2> QED BY <2>1, <2>2, CloseKeeps
<1>5. CASE \E id \in AnyIdentity, r \in UncertaintyReason : AttemptUncertain(id, r)
  <2>1. PICK id \in AnyIdentity, r \in UncertaintyReason : AttemptClosed(id, r)
    BY <1>5 DEF AttemptUncertain
  <2>2. r \in Verdict \cup {Malformed} BY DEF Verdict
  <2> QED BY <2>1, <2>2, CloseKeeps
<1>6. CASE ActiveCleanupUncertain BY <1>6, CleanupKeeps
<1>7. CASE \E c \in RequestCompletion : Finalize(c) BY <1>7, FinalizeKeeps
<1> QED BY <1>1, <1>2, <1>3, <1>4, <1>5, <1>6, <1>7 DEF AccountingNext

LEMMA SessionInvariant == AccountingSpec => []SessionInv
BY SessionInitial, SessionStep, PTL DEF AccountingSpec

-----------------------------------------------------------------------------
(* The theorems.                                                           *)

\* The types of the session and of its summary (request_accounting.py).
THEOREM AccountingTypeCorrect == AccountingSpec => []AccountingTypeOK
<1>1. ASSUME SessionInv PROVE AccountingTypeOK
  <2> USE DEF SessionInv
  <2>1. attempts \in Seq(Attempt) /\ DOMAIN attempts = 1 .. Len(attempts) BY <1>1 DEF AttemptsInv
  <2>2. \A i \in 1 .. Len(attempts) :
          /\ attempts[i].number = i /\ attempts[i].owner = owner
          /\ attempts[i].usage # None => ValidUsage(attempts[i].usage)
    BY <1>1 DEF AttemptsInv, Sound
  <2>3. ASSUME summary # None
        PROVE  /\ summary.completion \in RequestCompletion
               /\ summary.attempts \in Seq(SummaryRecord)
    <3>1. PICK c \in RequestCompletion : summary = Drawn(attempts, c)
      BY <1>1, <2>3 DEF SummaryInv
    <3>2. \A i \in 1 .. Len(attempts) : RecordOf(attempts[i], c) \in SummaryRecord
      BY <1>1, <2>3, RecordTypes DEF SummaryInv, AttemptsInv
    <3>3. summary.completion = c
          /\ summary.attempts = [i \in 1 .. Len(attempts) |-> RecordOf(attempts[i], c)]
      BY <3>1 DEF Drawn
    <3>4. Len(attempts) \in Nat BY <2>1
    <3>5. [i \in 1 .. Len(attempts) |-> RecordOf(attempts[i], c)] \in Seq(SummaryRecord)
      BY <3>2, <3>4
    <3> QED BY <3>3, <3>5
  <2> QED BY <1>1, <2>1, <2>2, <2>3 DEF AccountingTypeOK, AttemptsInv, SpoiltInv
<1> QED BY <1>1, SessionInvariant, PTL

\* A retry only ever follows an attempt that ended in an error, whatever
\* order events arrive in (RequestAccountingSession.attempt_started).
THEOREM RetriesFollowErrors == AccountingSpec => []RetryFollowsError
BY SessionInvariant, PTL DEF SessionInv

LEMMA DoubtCharged ==
  ASSUME SessionInv
  PROVE  DoubtIsCharged
<1> USE DEF SessionInv
<1> SUFFICES ASSUME summary # None
             PROVE  /\ Len(summary.attempts) = Len(attempts)
                    /\ \A i \in DOMAIN attempts : Doubtful(i) =>
                         /\ ChargeFor(summary, i) = PerAttempt
                         /\ BudgetReconciliation(summary).uncertain
  BY DEF DoubtIsCharged
<1>1. PICK c \in RequestCompletion : summary = Drawn(attempts, c)
  BY DEF SummaryInv
<1>2. attempts \in Seq(Attempt) /\ DOMAIN attempts = 1 .. Len(attempts) /\ Len(attempts) \in Nat
  BY DEF AttemptsInv
<1>3. summary.attempts = [i \in 1 .. Len(attempts) |-> RecordOf(attempts[i], c)]
  BY <1>1 DEF Drawn
<1>4. Len(summary.attempts) = Len(attempts) /\ DOMAIN summary.attempts = 1 .. Len(attempts)
  BY <1>2, <1>3
<1>5. ASSUME NEW i \in DOMAIN attempts, Doubtful(i)
      PROVE  /\ ChargeFor(summary, i) = PerAttempt
             /\ BudgetReconciliation(summary).uncertain
  <2>1. i \in 1 .. Len(attempts) BY <1>2
  <2>2. attempts[i].uncertainty # None
    BY <1>5, <2>1 DEF Doubtful, SpoiltInv, SummaryInv, Closed
  <2>3. summary.attempts[i] = Uncertain(attempts[i])
    BY <1>3, <2>1, <2>2 DEF RecordOf
  <2>4. ~ Certain(summary.attempts[i], summary.completion)
    BY <2>3 DEF Certain, Uncertain
  <2> QED BY <2>1, <2>4, <1>4 DEF ChargeFor, BudgetReconciliation
<1> QED BY <1>4, <1>5

\* No order of events makes an attempt free: one that never finished, or
\* about which an event was refused, is charged its reserve (finalize).
THEOREM DoubtAlwaysCharged == AccountingSpec => []DoubtIsCharged
BY DoubtCharged, SessionInvariant, PTL

LEMMA SummaryThere ==
  ASSUME SessionInv
  PROVE  SummaryAvailable
<1> USE DEF SessionInv
<1> SUFFICES ASSUME NEW c \in RequestCompletion, Len(attempts) = 2, ~ Ambiguous(attempts[1])
             PROVE  Presentable(RecordsOf(attempts, c))
  <2>1. attempts \in Seq(Attempt) /\ DOMAIN attempts = 1 .. Len(attempts) /\ Len(attempts) \in Nat
    BY DEF AttemptsInv
  <2>2. \A d \in RequestCompletion :
          Len(attempts) # 2 => Presentable(RecordsOf(attempts, d))
    <3> TAKE d \in RequestCompletion
    <3>1. Len(RecordsOf(attempts, d)) = Len(attempts) BY <2>1 DEF RecordsOf
    <3> QED BY <3>1 DEF Presentable
  <2> QED BY <2>2 DEF SummaryAvailable
<1>1. DOMAIN attempts = 1 .. 2 /\ 1 \in 1 .. 2 BY DEF AttemptsInv
<1>2. attempts[1].completion = "error" BY DEF RetryFollowsError
<1>3. Sound(attempts[1], 1, owner) BY DEF AttemptsInv
<1>4. "error" # None BY ReasonAssumption DEF AttemptCompletion
<1>5. attempts[1].uncertainty = None BY <1>2, <1>3, <1>4 DEF Sound
<1>6. Judged(attempts[1]) = attempts[1]
  BY <1>2, <1>4, <1>5 DEF Judged, Closed
<1>7. RecordsOf(attempts, c)[1] = Settled(attempts[1], c)
  BY <1>1, <1>5, <1>6 DEF RecordsOf, RecordOf
<1> QED BY <1>2, <1>7 DEF Presentable, Settled

\* The summary can be drawn at any moment, unless two prices match an
\* attempt that was retried (finalize and RequestAccountingSummary).
THEOREM SummaryAlwaysAvailable == AccountingSpec => []SummaryAvailable
BY SummaryThere, SessionInvariant, PTL

LEMMA GroundedThere ==
  ASSUME SessionInv
  PROVE  GroundedOnce
<1> USE DEF SessionInv
<1> SUFFICES ASSUME summary # None, NEW i \in DOMAIN summary.attempts,
                    summary.attempts[i].kind = "settled",
                    summary.attempts[i].outcome = "grounded"
             PROVE  /\ i = Len(attempts)
                    /\ attempts[i].completion = "completed" /\ i \notin spoilt
                    /\ summary.completion = "completed"
  BY DEF GroundedOnce
<1>1. PICK c \in RequestCompletion : summary = Drawn(attempts, c)
  BY DEF SummaryInv
<1>2. /\ summary.attempts = [k \in 1 .. Len(attempts) |-> RecordOf(attempts[k], c)]
      /\ summary.completion = c
  BY <1>1 DEF Drawn
<1>3. i \in 1 .. Len(attempts) /\ summary.attempts[i] = RecordOf(attempts[i], c)
  BY <1>2
<1>4. attempts[i].uncertainty = None
  BY <1>3 DEF RecordOf, Uncertain
<1>5. AnswerOutcome(attempts[i], c) = "grounded"
  BY <1>3, <1>4 DEF RecordOf, Settled
<1>6. attempts[i].completion = "completed" /\ c = "completed"
  BY <1>5 DEF AnswerOutcome
<1>7. i \notin spoilt BY <1>4 DEF SpoiltInv
<1>8. Len(attempts) \in 0 .. 2
  <2>1. Len(attempts) \in Nat /\ Len(attempts) <= MaxAttempts BY DEF AttemptsInv
  <2> QED BY <2>1, AttemptsAssumption, WithinTwo
<1>9. Len(attempts) = 2 => attempts[1].completion = "error" BY DEF RetryFollowsError
<1>10. Len(attempts) = 2 => i # 1 BY <1>6, <1>9
<1>11. i = Len(attempts)
  BY <1>3, <1>8, <1>10, OnlyLast
<1> QED BY <1>2, <1>6, <1>7, <1>11

\* At most one attempt of a request counts as grounded: the last one, and
\* only if it and the request completed (finalize).
THEOREM GroundedAtMostOnce == AccountingSpec => []GroundedOnce
BY GroundedThere, SessionInvariant, PTL

-----------------------------------------------------------------------------
(* The response: its inductive invariant.                                  *)

GenPlace == {"fresh", "calling", "item", "closing", "backoff", "closed"}
Ending == {"completed", "retryable", "fatal", "refused", "lapsed", "cancelled", "exit"}
TaskKind == {"none", "running", "usage", "text", "stop", "failed"}
Stage == {"retrieving", "streaming", "ended", "unwinding", "settling", "done"}
Generator ==
  [at : GenPlace, attempt : Nat, timer : Nat, lapsed : BOOLEAN, observed : BOOLEAN,
   held : Nat, ending : Ending \cup {None}]

StreamTypeInv ==
  /\ provider \in Provider
  /\ gen \in Generator
  /\ task.kind \in TaskKind
  /\ task.kind = "text" => task.size \in Nat \ {0}
  /\ fetches \in Nat /\ items \in Nat /\ pings \in Nat
  /\ stage \in Stage
  /\ emitted \in 0 .. MaxOutput
  /\ bound \in BOOLEAN /\ inSend \in BOOLEAN /\ cleanupFailed \in BOOLEAN
  /\ delivered \in Terminal \cup {None}
  /\ cause \in {None, "disconnect", "shutdown", "send", "cleanup"}

\* What is left to send, by what was sent last.
Script ==
  /\ stage = "retrieving" =>
       \/ last = "none" /\ outbox = <<"retrieving">>
       \/ last = "retrieving" /\ outbox = <<>>
  /\ stage = "streaming" =>
       \/ last = "retrieving" /\ outbox \in {<<"citations", "generating">>, <<"generating">>}
       \/ last = "citations" /\ outbox = <<"generating">>
       \/ last \in {"generating", "chunk"} /\ outbox \in {<<>>, <<"ping">>, <<"chunk">>}
  /\ stage = "ended" =>
       \/ last = "retrieving" /\ outbox = <<"refusing", "refusal", "refused">>
       \/ last = "refusing" /\ outbox = <<"refusal", "refused">>
       \/ last = "refusal" /\ outbox = <<"refused">>
       \/ /\ last \in {"generating", "chunk"}
          /\ outbox \in {<<"stop">>, <<"error">>, <<"chunk", "limit">>}
       \/ last = "chunk" /\ outbox = <<"limit">>
       \/ last \in Terminal /\ outbox = <<>>
  /\ stage \in {"unwinding", "settling", "done"} => outbox = <<>>

\* What was emitted was sent or is being sent, also while a cancellation that
\* an exception of the adapter may still replace unwinds it.
Emission ==
  /\ stage = "retrieving" => emitted = 0
  /\ stage = "streaming" /\ emitted > 0 => last = "chunk" \/ outbox = <<"chunk">>
  /\ stage = "unwinding" /\ gen.at = "closing" /\ ~ inSend =>
       last \in {"generating", "chunk"} /\ (emitted > 0 => last = "chunk")

\* The terminal event that is remembered is the one that was sent.
Remembered ==
  /\ delivered # None => last = delivered
  /\ delivered = None => last \notin Terminal

\* Where the adapter may be at each stage of the response.
Progress ==
  /\ stage = "retrieving" => gen.at = "fresh" /\ task.kind = "none"
  /\ stage = "streaming" =>
       /\ task.kind \in {"usage", "text"} => gen.at = "item"
       /\ task.kind = "none" => gen.at \in {"fresh", "item"}
  /\ stage = "ended" =>
       /\ gen.at \in {"fresh", "item", "closing", "closed"}
       /\ gen.at = "closing" => outbox = <<>>
  /\ stage = "unwinding" => gen.at \in {"closing", "closed"}
  /\ stage \in {"settling", "done"} => gen.at \in {"fresh", "closed"}
  /\ gen.at = "fresh" /\ stage # "streaming" => task.kind = "none"
  /\ task.kind \in {"stop", "failed"} => gen.at = "closed"
  /\ gen.at = "closing" =>
       IF stage \in {"ended", "unwinding"} THEN gen.ending \in {"exit", "cancelled", "lapsed"}
       ELSE gen.ending \in {"completed", "retryable", "fatal", "refused"}

\* All that was heard, is being sent or is held back is the current attempt's,
\* and an attempt of which there is any cannot be retried.
Voice ==
  /\ gen.at \in {"fresh", "backoff"} => ~ gen.observed
  /\ heard # {} => gen.observed /\ heard = {gen.attempt}
  /\ outbox \in {<<"chunk">>, <<"chunk", "limit">>} => gen.observed
  /\ task.kind = "text" => gen.observed
  /\ gen.held > 0 => gen.observed

\* The adapter's attempts are the session's.
Recorded ==
  /\ calls = gen.attempt /\ gen.attempt <= Allowed
  /\ gen.at = "fresh" => gen.attempt = 0
  /\ gen.at = "backoff" => gen.attempt < Allowed
  /\ IF Observed THEN Len(attempts) = gen.attempt ELSE attempts = <<>>
  /\ gen.at \in {"calling", "item", "closing"} => gen.attempt > 0

\* An attempt is left closed; one whose report was refused already is while
\* its stream is being closed.
LeftClosed ==
  /\ gen.at \in {"backoff", "closed"} => \A i \in 1 .. Len(attempts) : Closed(attempts[i])
  /\ Observed /\ gen.at = "closing" /\ gen.ending = "refused" => Closed(LastAttempt)

\* The end of an answer is only told of an attempt that completed.
Stops == task.kind = "stop" \/ outbox = <<"stop">> \/ last = "stop"
StopInv ==
  Stops => /\ gen.at = "closed"
           /\ Observed => attempts # <<>> /\ LastAttempt.completion = "completed"

Drawing ==
  summary # None =>
    /\ stage = "done"
    /\ summary.completion = "completed" =>
         delivered = "stop" /\ cause = None /\ ~ cleanupFailed

ResponseInv ==
  /\ StreamTypeInv /\ Script /\ Emission /\ Remembered /\ Progress /\ Voice
  /\ Recorded /\ LeftClosed /\ StopInv /\ Drawing

-----------------------------------------------------------------------------
(* Sequences of events.                                                    *)

LEMMA Tuples ==
  /\ \A a : <<a>> # <<>> /\ Head(<<a>>) = a /\ Tail(<<a>>) = <<>>
  /\ \A a, b : <<a, b>> # <<>> /\ Head(<<a, b>>) = a /\ Tail(<<a, b>>) = <<b>>
  /\ \A a, b, c : <<a, b, c>> # <<>> /\ Head(<<a, b, c>>) = a /\ Tail(<<a, b, c>>) = <<b, c>>
OBVIOUS

LEMMA TuplesDiffer ==
  /\ \A a, b : <<a>> = <<b>> => a = b
  /\ \A a, b, c : <<a>> # <<b, c>>
  /\ \A a, b, c, d : <<a, b>> = <<c, d>> => a = c /\ b = d
  /\ \A a, b, c, d : <<a, b, c>> # <<d>>
  /\ \A a, b, c, d, e : <<a, b, c>> # <<d, e>>
<1>1. ASSUME NEW a, NEW b, <<a>> = <<b>> PROVE a = b
  <2>1. <<a>>[1] = a /\ <<b>>[1] = b OBVIOUS
  <2> QED BY <2>1, <1>1, Zenon
<1>3. ASSUME NEW a, NEW b, NEW c, NEW d, <<a, b>> = <<c, d>> PROVE a = c /\ b = d
  <2>1. /\ <<a, b>>[1] = a /\ <<c, d>>[1] = c
        /\ <<a, b>>[2] = b /\ <<c, d>>[2] = d
    OBVIOUS
  <2> QED BY <2>1, <1>3, Zenon
<1>4. ASSUME NEW a, NEW b, NEW c PROVE <<a>> # <<b, c>>
  <2>1. Len(<<a>>) = 1 /\ Len(<<b, c>>) = 2 OBVIOUS
  <2> QED BY <2>1
<1>5. ASSUME NEW a, NEW b, NEW c, NEW d PROVE <<a, b, c>> # <<d>>
  <2>1. Len(<<a, b, c>>) = 3 /\ Len(<<d>>) = 1 OBVIOUS
  <2> QED BY <2>1
<1>6. ASSUME NEW a, NEW b, NEW c, NEW d, NEW e PROVE <<a, b, c>> # <<d, e>>
  <2>1. Len(<<a, b, c>>) = 3 /\ Len(<<d, e>>) = 2 OBVIOUS
  <2> QED BY <2>1
<1> QED BY <1>1, <1>3, <1>4, <1>5, <1>6, Zenon

LEMMA StreamInitial ==
  ASSUME StreamInit
  PROVE  SessionInv /\ ResponseInv
<1>1. SessionInv BY SessionInitial DEF StreamInit
<1>2. StreamTypeInv
  <2>1. NewGenerator \in Generator
    BY DEF NewGenerator, Generator, GenPlace, Ending
  <2>2. 0 \in 0 .. MaxOutput BY OutputAssumption
  <2> QED BY <2>1, <2>2 DEF StreamInit, StreamTypeInv, NoTask, TaskKind, Stage
<1>3. Script /\ Emission /\ Remembered /\ Progress /\ Drawing
  BY DEF StreamInit, AccountingInit, Script, Emission, Remembered, Progress, Drawing, NewGenerator, NoTask, Terminal
<1>4. Voice
  <2>1. gen.observed = FALSE /\ heard = {} /\ gen.held = 0 /\ task.kind = "none" /\ outbox = <<"retrieving">>
    BY DEF StreamInit, NewGenerator, NoTask
  <2> QED BY <2>1, TuplesDiffer DEF Voice
<1>5. Recorded
  BY ProviderAssumption, AttemptsAssumption DEF StreamInit, AccountingInit, Recorded, NewGenerator, Allowed
<1>6. LeftClosed
  BY DEF StreamInit, LeftClosed, NewGenerator
<1>7. StopInv
  <2>1. task.kind = "none" /\ outbox = <<"retrieving">> /\ last = "none"
    BY DEF StreamInit, NoTask
  <2> QED BY <2>1, TuplesDiffer DEF StopInv, Stops
<1> QED BY <1>1, <1>2, <1>3, <1>4, <1>5, <1>6, <1>7 DEF ResponseInv

-----------------------------------------------------------------------------
(* What the adapter's calls make of the session.                           *)

\* With the last attempt closed all are: a second one follows an error only.
LEMMA AllClosed ==
  ASSUME NEW all \in Seq(Attempt), Len(all) <= MaxAttempts,
         Len(all) = 2 => all[1].completion = "error",
         all # <<>> => Closed(all[Len(all)])
  PROVE  \A i \in 1 .. Len(all) : Closed(all[i])
<1> SUFFICES ASSUME NEW i \in 1 .. Len(all) PROVE Closed(all[i])
  OBVIOUS
<1>0. Len(all) \in Nat OBVIOUS
<1>1. Len(all) \in 0 .. 2 BY <1>0, AttemptsAssumption, WithinTwo
<1>2. CASE i = Len(all)
  <2>1. all # <<>> BY <1>2
  <2> QED BY <1>2, <2>1
<1>3. CASE i # Len(all)
  <2>1. i = 1 /\ Len(all) = 2 BY <1>1, <1>3
  <2>2. all[1].completion # None BY <2>1, ReasonAssumption DEF AttemptCompletion
  <2> QED BY <2>1, <2>2 DEF Closed
<1> QED BY <1>2, <1>3

LEMMA VerdictCloses ==
  ASSUME NEW a \in Attempt, NEW id, NEW v \in Verdict
  PROVE  /\ Closed(WithVerdict(a, id, v))
         /\ v = "completed" /\ WellFormed(id) /\ IsAbout(a, id) /\ ~ Closed(a) =>
              WithVerdict(a, id, v).completion = "completed"
<1>1. /\ v # None /\ WellFormed(v) /\ "observer_failure" # None /\ "identity_mismatch" # None
  BY ReasonAssumption DEF Verdict, UncertaintyReason, AttemptCompletion, WellFormed
<1>2. \A r : [a EXCEPT !.uncertainty = r].uncertainty = r BY DEF Attempt
<1>3. \A r : [a EXCEPT !.completion = r].completion = r BY DEF Attempt
<1>4. Closed(Closing(a, v)) BY <1>1, <1>2, <1>3 DEF Closing, Closed
<1>5. \A r : r # None => Closed(Marked(a, r)) /\ Closed(MarkedFirst(a, r))
  BY <1>2 DEF Marked, MarkedFirst, Closed, Open
<1>6. v = "completed" => Closing(a, v).completion = "completed"
  BY <1>3 DEF Closing, AttemptCompletion
<1>7. \/ WithVerdict(a, id, v) = MarkedFirst(a, "observer_failure")
      \/ WithVerdict(a, id, v) = Marked(a, "identity_mismatch")
      \/ Closed(a) /\ WithVerdict(a, id, v) = a
      \/ WithVerdict(a, id, v) = Closing(a, v)
  BY <1>1, Zenon DEF WithVerdict
<1>8. Closed(WithVerdict(a, id, v)) BY <1>1, <1>4, <1>5, <1>7
<1>9. WellFormed(id) /\ IsAbout(a, id) /\ ~ Closed(a) => WithVerdict(a, id, v) = Closing(a, v)
  BY <1>1 DEF WithVerdict
<1> QED BY <1>6, <1>8, <1>9

\* Whatever verdict is given, every attempt is closed, the last as completed
\* if it was active and that is the verdict.
LEMMA ReportEffect ==
  ASSUME SessionInv, NEW id, NEW v \in Verdict, AttemptClosed(id, v)
  PROVE  /\ SessionInv'
         /\ summary' = None /\ summary = None
         /\ attempts # <<>> /\ attempts' # <<>> /\ Len(attempts') = Len(attempts)
         /\ \A i \in 1 .. Len(attempts') : Closed(attempts'[i])
         /\ Active(id) /\ v = "completed" => attempts'[Len(attempts')].completion = "completed"
<1>1. SessionInv' BY CloseKeeps
<1>2. /\ summary = None /\ summary' = summary /\ attempts # <<>>
      /\ attempts' = [attempts EXCEPT ![Len(attempts)] = WithVerdict(LastAttempt, id, v)]
  BY DEF AttemptClosed, SetLast
<1>3. attempts \in Seq(Attempt) /\ Len(attempts) \in 1 .. Len(attempts)
  BY <1>2 DEF SessionInv, AttemptsInv
<1>4. LastAttempt \in Attempt BY <1>3 DEF LastAttempt
<1>5. Len(attempts') = Len(attempts)
      /\ attempts'[Len(attempts)] = WithVerdict(LastAttempt, id, v)
  BY <1>2, <1>3
<1>6. /\ Closed(attempts'[Len(attempts')])
      /\ Active(id) /\ v = "completed" => attempts'[Len(attempts')].completion = "completed"
  BY <1>4, <1>5, VerdictCloses DEF Active
<1>7. \A i \in 1 .. Len(attempts') : Closed(attempts'[i])
  BY <1>1, <1>6, AllClosed DEF SessionInv, AttemptsInv, RetryFollowsError
<1>8. attempts' # <<>> BY <1>3, <1>5
<1> QED BY <1>1, <1>2, <1>5, <1>6, <1>7, <1>8

\* A report of usage the session refuses leaves its attempt closed.
LEMMA UsageEffect ==
  ASSUME SessionInv, NEW chunk, Proper(chunk), UsageObserved(chunk)
  PROVE  /\ SessionInv'
         /\ summary' = None /\ summary = None
         /\ Len(attempts') = Len(attempts)
         /\ ~ UsageAccepted(chunk) => Closed(attempts'[Len(attempts')])
<1>1. SessionInv' BY UsageKeeps
<1>2. /\ summary = None /\ summary' = summary /\ attempts # <<>>
      /\ attempts' = [attempts EXCEPT ![Len(attempts)] = WithUsage(LastAttempt, chunk)]
  BY DEF UsageObserved, SetLast
<1>3. attempts \in Seq(Attempt) /\ Len(attempts) \in 1 .. Len(attempts)
  BY <1>2 DEF SessionInv, AttemptsInv
<1>4. Len(attempts') = Len(attempts)
      /\ attempts'[Len(attempts)] = WithUsage(LastAttempt, chunk)
  BY <1>2, <1>3
<1>5. ASSUME ~ UsageAccepted(chunk) PROVE Closed(WithUsage(LastAttempt, chunk))
  <2>1. Sound(LastAttempt, Len(attempts), owner) BY <1>2, LastSound
  <2>2. CASE Open(LastAttempt)
    <3>1. WithUsage(LastAttempt, chunk).uncertainty # None
      BY <1>2, <1>5, <2>1, <2>2, UsageRefused DEF UsageAccepted, Active
    <3> QED BY <3>1 DEF Closed
  <2>3. CASE ~ Open(LastAttempt)
    <3>1. Closed(LastAttempt) BY <2>3 DEF Open, Closed
    <3>2. \A r : Marked(LastAttempt, r) = LastAttempt BY <2>3 DEF Marked
    <3>3. WithUsage(LastAttempt, chunk) = LastAttempt
      BY <3>1, <3>2 DEF WithUsage
    <3> QED BY <3>1, <3>3
  <2> QED BY <2>2, <2>3
<1> QED BY <1>1, <1>2, <1>4, <1>5

\* What is appended is recorded before its call.
LEMMA StartEffect ==
  ASSUME SessionInv, NEW n \in Nat, Policy \in Owner,
         AttemptStarted([owner |-> Policy, number |-> n])
  PROVE  /\ SessionInv'
         /\ summary' = None /\ Len(attempts') = n /\ n = Len(attempts) + 1
         /\ n <= MaxAttempts
<1> DEFINE id == [owner |-> Policy, number |-> n]
<1>1. /\ summary = None /\ summary' = summary /\ Len(attempts) < MaxAttempts
      /\ n = Len(attempts) + 1
      /\ attempts' = Append(attempts, NewAttempt(id))
  BY DEF AttemptStarted, Startable
<1>2. attempts \in Seq(Attempt) BY DEF SessionInv, AttemptsInv
<1>3. n \in 1 .. 2 BY <1>1, <1>2, AttemptsAssumption
<1>4. id \in Identity BY <1>3 DEF Identity
<1>5. SessionInv' BY <1>4, StartKeeps DEF AnyIdentity
<1>6. Len(attempts') = Len(attempts) + 1 BY <1>1, <1>2
<1> QED BY <1>1, <1>2, <1>5, <1>6, AttemptsAssumption

-----------------------------------------------------------------------------
(* One step per action of the adapter.                                     *)

LEMMA UpstreamTextKeeps ==
  ASSUME ResponseInv, UpstreamText, provider' = provider
  PROVE  ResponseInv'
<1> USE DEF ResponseInv
<1>1. /\ task.kind = "running" /\ gen.at = "calling"
      /\ UNCHANGED <<accountingVars, fetches, calls, bound, stage, sendVars, endVars>>
      /\ items' = items + 1
  BY DEF UpstreamText, Running
<1>2. PICK n \in ChunkSize :
        /\ gen' = [gen EXCEPT !.observed = TRUE, !.held = n,
                              !.at = IF gen.held = 0 THEN "calling" ELSE "item"]
        /\ task' = IF gen.held = 0 THEN task ELSE Text(gen.held)
  BY DEF UpstreamText
<1>3. n \in Nat /\ gen \in Generator BY OutputAssumption DEF StreamTypeInv
<1>4. /\ gen' \in Generator
      /\ gen'.at = (IF gen.held = 0 THEN "calling" ELSE "item")
      /\ gen'.observed = TRUE /\ gen'.held = n /\ gen'.attempt = gen.attempt
      /\ gen'.ending = gen.ending
  BY <1>2, <1>3 DEF Generator, GenPlace
<1>5. /\ gen.held = 0 => task' = task
      /\ gen.held # 0 => task'.kind = "text" /\ task'.size = gen.held /\ gen.held \in Nat \ {0}
  BY <1>2, <1>3 DEF Text, Generator
<1>6. stage = "streaming" BY <1>1 DEF Progress, StreamTypeInv, Stage
<1>7. StreamTypeInv'
  BY <1>1, <1>4, <1>5 DEF StreamTypeInv, TaskKind, sendVars, endVars
<1>8. Script' /\ Emission' /\ Remembered' /\ Drawing'
  BY <1>1, <1>6 DEF Script, Emission, Remembered, Drawing, sendVars, endVars, accountingVars
<1>9. Progress'
  BY <1>1, <1>4, <1>5, <1>6 DEF Progress
<1>10. Voice'
  BY <1>1, <1>4, <1>5 DEF Voice, sendVars
<1>11. Recorded' /\ LeftClosed'
  BY <1>1, <1>4 DEF Recorded, LeftClosed, accountingVars, Allowed, Observed, LastAttempt
<1>12. StopInv'
  BY <1>1, <1>4, <1>5 DEF StopInv, Stops, accountingVars, sendVars, LastAttempt, Observed
<1> QED BY <1>7, <1>8, <1>9, <1>10, <1>11, <1>12

\* The fields of an adapter that leaves its stream.
LEMMA LeaveFields ==
  ASSUME gen \in Generator, NEW ending \in Ending, Leave(ending)
  PROVE  /\ gen' \in Generator
         /\ gen'.at = "closing" /\ gen'.ending = ending
         /\ gen'.attempt = gen.attempt /\ gen'.observed = gen.observed /\ gen'.held = gen.held
BY DEF Leave, Generator, GenPlace

LEMMA UpstreamEndsKeeps ==
  ASSUME ResponseInv, UpstreamEnds, provider' = provider
  PROVE  ResponseInv'
<1> USE DEF ResponseInv
<1>1. /\ task.kind = "running" /\ gen.at = "calling"
      /\ UNCHANGED <<accountingVars, fetches, items, calls, bound, stage, sendVars, endVars>>
  BY DEF UpstreamEnds, Running
<1>2. gen \in Generator /\ gen.held \in Nat BY DEF StreamTypeInv, Generator
<1>3. stage = "streaming" BY <1>1 DEF Progress, StreamTypeInv, Stage
<1>4. Script' /\ Emission' /\ Remembered' /\ Drawing'
  BY <1>1, <1>3 DEF Script, Emission, Remembered, Drawing, sendVars, endVars, accountingVars
<1>5. CASE gen.held > 0
  <2>1. /\ gen' = [gen EXCEPT !.at = "item", !.held = 0, !.ending = "completed"]
        /\ task' = Text(gen.held)
    BY <1>5 DEF UpstreamEnds
  <2>2. /\ gen' \in Generator /\ gen'.at = "item" /\ gen'.held = 0
        /\ gen'.observed = gen.observed /\ gen'.attempt = gen.attempt
        /\ task'.kind = "text" /\ task'.size = gen.held /\ gen.held \in Nat \ {0}
    <3>1. "completed" \in Ending /\ "item" \in GenPlace BY DEF Ending, GenPlace
    <3>2. /\ gen' \in Generator /\ gen'.at = "item" /\ gen'.held = 0
          /\ gen'.observed = gen.observed /\ gen'.attempt = gen.attempt
      BY <1>2, <2>1, <3>1 DEF Generator
    <3> QED BY <1>2, <1>5, <2>1, <3>2 DEF Text
  <2>3. StreamTypeInv' BY <1>1, <2>2 DEF StreamTypeInv, TaskKind, sendVars, endVars
  <2>4. Progress' BY <1>1, <1>3, <2>2 DEF Progress
  <2>5. Voice' BY <1>1, <1>5, <2>2 DEF Voice, sendVars
  <2>6. Recorded' /\ LeftClosed'
    BY <1>1, <2>2 DEF Recorded, LeftClosed, accountingVars, Allowed, Observed, LastAttempt
  <2>7. StopInv'
    BY <1>1, <2>2 DEF StopInv, Stops, accountingVars, sendVars, LastAttempt, Observed
  <2> QED BY <1>4, <2>3, <2>4, <2>5, <2>6, <2>7
<1>6. CASE ~ (gen.held > 0)
  <2>1. PICK ending \in {"fatal", "completed"} : Leave(ending)
    BY <1>6 DEF UpstreamEnds
  <2>2. task' = task BY <1>6 DEF UpstreamEnds
  <2>3. ending \in Ending BY DEF Ending
  <2>4. /\ gen' \in Generator /\ gen'.at = "closing" /\ gen'.ending = ending
        /\ gen'.attempt = gen.attempt /\ gen'.observed = gen.observed /\ gen'.held = gen.held
    BY <1>2, <2>1, <2>3, LeaveFields
  <2>5. StreamTypeInv' BY <1>1, <2>2, <2>4 DEF StreamTypeInv, sendVars, endVars
  <2>6. Progress' BY <1>1, <1>3, <2>2, <2>4 DEF Progress
  <2>7. Voice' BY <1>1, <2>2, <2>4 DEF Voice, sendVars
  <2>8. Recorded' /\ LeftClosed'
    BY <1>1, <2>2, <2>4 DEF Recorded, LeftClosed, accountingVars, Allowed, Observed, LastAttempt
  <2>9. StopInv'
    BY <1>1, <2>2, <2>4 DEF StopInv, Stops, accountingVars, sendVars, LastAttempt, Observed
  <2> QED BY <1>4, <2>5, <2>6, <2>7, <2>8, <2>9
<1> QED BY <1>5, <1>6

\* A running adapter whose stream fails, by itself or by its timer.
LEMMA FailureKeeps ==
  ASSUME ResponseInv, gen.at = "calling", task.kind = "running",
         NEW kind \in {"retryable", "fatal"}, Leave(kind),
         UNCHANGED <<accountingVars, task, fetches, items, calls, bound, stage, sendVars, endVars>>,
         provider' = provider
  PROVE  ResponseInv'
<1> USE DEF ResponseInv
<1>1. kind \in Ending /\ gen \in Generator BY DEF Ending, StreamTypeInv
<1>2. /\ gen' \in Generator /\ gen'.at = "closing" /\ gen'.ending = kind
      /\ gen'.attempt = gen.attempt /\ gen'.observed = gen.observed /\ gen'.held = gen.held
  BY <1>1, LeaveFields
<1>3. stage = "streaming" BY DEF Progress, StreamTypeInv, Stage
<1>4. Script' /\ Emission' /\ Remembered' /\ Drawing'
  BY <1>3 DEF Script, Emission, Remembered, Drawing, sendVars, endVars, accountingVars
<1>5. StreamTypeInv' BY <1>2 DEF StreamTypeInv, sendVars, endVars
<1>6. Progress' BY <1>2, <1>3 DEF Progress
<1>7. Voice' BY <1>2 DEF Voice, sendVars
<1>8. Recorded' /\ LeftClosed'
  BY <1>2 DEF Recorded, LeftClosed, accountingVars, Allowed, Observed, LastAttempt
<1>9. StopInv'
  BY <1>2 DEF StopInv, Stops, accountingVars, sendVars, LastAttempt, Observed
<1> QED BY <1>4, <1>5, <1>6, <1>7, <1>8, <1>9

LEMMA UpstreamFailsKeeps ==
  ASSUME ResponseInv, UpstreamFails, provider' = provider
  PROVE  ResponseInv'
BY FailureKeeps DEF UpstreamFails, Running

LEMMA TimerLapsesKeeps ==
  ASSUME ResponseInv, TimerLapses, provider' = provider
  PROVE  ResponseInv'
<1> USE DEF ResponseInv
<1>1. UNCHANGED <<accountingVars, task, fetches, items, calls, bound, stage, sendVars, endVars>>
  BY DEF TimerLapses
<1>2. CASE TimerFires /\ Running("calling")
  <2>1. Leave("retryable") BY <1>2 DEF TimerLapses, Leave
  <2> QED BY <1>1, <1>2, <2>1, FailureKeeps DEF Running
<1>3. CASE ~ (TimerFires /\ Running("calling"))
  <2>1. gen' = [gen EXCEPT !.lapsed = TRUE] BY <1>3 DEF TimerLapses
  <2>2. gen \in Generator BY DEF StreamTypeInv
  <2>3. /\ gen' \in Generator /\ gen'.at = gen.at /\ gen'.ending = gen.ending
        /\ gen'.attempt = gen.attempt /\ gen'.observed = gen.observed /\ gen'.held = gen.held
    BY <2>1, <2>2 DEF Generator
  <2>4. Script' /\ Emission' /\ Remembered' /\ Drawing'
    BY <1>1, <2>3 DEF Script, Emission, Remembered, Drawing, sendVars, endVars, accountingVars
  <2>5. StreamTypeInv' BY <1>1, <2>3 DEF StreamTypeInv, sendVars, endVars
  <2>6. Progress' BY <1>1, <2>3 DEF Progress, sendVars
  <2>7. Voice' BY <1>1, <2>3 DEF Voice, sendVars
  <2>8. Recorded' /\ LeftClosed'
    BY <1>1, <2>3 DEF Recorded, LeftClosed, accountingVars, Allowed, Observed, LastAttempt
  <2>9. StopInv'
    BY <1>1, <2>3 DEF StopInv, Stops, accountingVars, sendVars, LastAttempt, Observed
  <2> QED BY <2>4, <2>5, <2>6, <2>7, <2>8, <2>9
<1> QED BY <1>2, <1>3

\* Nothing but whether the provider is bound, or nothing at all.
LEMMA RestKeeps ==
  ASSUME ResponseInv, bound' \in BOOLEAN, provider' = provider,
         UNCHANGED <<accountingVars, genVars, stage, sendVars, endVars>>
  PROVE  ResponseInv'
<1> USE DEF ResponseInv, genVars, sendVars, endVars, accountingVars
<1>1. StreamTypeInv' BY DEF StreamTypeInv
<1>2. Script' /\ Emission' /\ Remembered' /\ Drawing'
  BY DEF Script, Emission, Remembered, Drawing
<1>3. Progress' /\ Voice' BY DEF Progress, Voice
<1>4. Recorded' /\ LeftClosed'
  BY DEF Recorded, LeftClosed, Allowed, Observed, LastAttempt
<1>5. StopInv' BY DEF StopInv, Stops, LastAttempt, Observed
<1> QED BY <1>1, <1>2, <1>3, <1>4, <1>5

-----------------------------------------------------------------------------
(* One step per action of the consumer.                                    *)

LEMMA FetchKeeps ==
  ASSUME ResponseInv, Fetch, provider' = provider
  PROVE  ResponseInv'
<1> USE DEF ResponseInv
<1>1. /\ stage = "streaming" /\ outbox = <<>> /\ task.kind \in {"none", "usage"}
      /\ task'.kind = "running" /\ fetches' = fetches + 1
      /\ UNCHANGED <<accountingVars, items, calls, bound, stage, sendVars, endVars>>
  BY DEF Fetch, Idle, Pending
<1>2. gen \in Generator BY DEF StreamTypeInv
<1>3. gen.at \in {"fresh", "item"} BY <1>1 DEF Progress
<1>4. /\ gen' \in Generator /\ gen'.ending = gen.ending
      /\ gen'.attempt = gen.attempt /\ gen'.observed = gen.observed /\ gen'.held = gen.held
      /\ gen.at = "fresh" => gen'.at = "fresh"
      /\ gen.at = "item" => \/ gen'.at = "closing" /\ gen.ending = "completed"
                            \/ gen'.at = "calling"
  BY <1>2, <1>3 DEF Fetch, Generator, GenPlace
<1>5. Script' /\ Emission' /\ Remembered' /\ Drawing'
  BY <1>1 DEF Script, Emission, Remembered, Drawing, sendVars, endVars, accountingVars
<1>6. StreamTypeInv' BY <1>1, <1>4 DEF StreamTypeInv, TaskKind, sendVars, endVars
<1>7. Progress' BY <1>1, <1>3, <1>4 DEF Progress
<1>8. Voice' BY <1>1, <1>3, <1>4 DEF Voice, sendVars
<1>9. Recorded' /\ LeftClosed'
  BY <1>1, <1>3, <1>4 DEF Recorded, LeftClosed, accountingVars, Allowed, Observed, LastAttempt
<1>10. StopInv'
  BY <1>1, <1>3, <1>4 DEF StopInv, Stops, accountingVars, sendVars, LastAttempt, Observed
<1> QED BY <1>5, <1>6, <1>7, <1>8, <1>9, <1>10

LEMMA PingKeeps ==
  ASSUME ResponseInv, Ping, provider' = provider
  PROVE  ResponseInv'
<1> USE DEF ResponseInv
<1>1. /\ stage = "streaming" /\ outbox = <<>> /\ outbox' = <<"ping">> /\ pings' = pings + 1
      /\ UNCHANGED <<accountingVars, genVars, bound, stage, last, heard, emitted, delivered, endVars>>
  BY DEF Ping, Idle
<1>2. \A e : e # "ping" => outbox' # <<e>> BY <1>1, TuplesDiffer
<1>3. outbox' # <<"chunk", "limit">> BY <1>1, TuplesDiffer, Zenon
<1>4. outbox # <<"chunk">> /\ outbox # <<"stop">> BY <1>1, Tuples, Zenon
<1>5. Script' /\ Emission' /\ Remembered' /\ Drawing'
  BY <1>1, <1>2, <1>3, <1>4, Tuples
  DEF Script, Emission, Remembered, Drawing, genVars, endVars, accountingVars, Terminal
<1>6. StreamTypeInv' BY <1>1 DEF StreamTypeInv, genVars, endVars
<1>7. Progress' BY <1>1 DEF Progress, genVars
<1>8. Voice' BY <1>1, <1>2, <1>3 DEF Voice, genVars
<1>9. Recorded' /\ LeftClosed'
  BY <1>1 DEF Recorded, LeftClosed, genVars, accountingVars, Allowed, Observed, LastAttempt
<1>10. StopInv'
  <2>1. outbox' # <<"stop">> BY <1>2
  <2> QED BY <1>1, <2>1 DEF StopInv, Stops, genVars, accountingVars, LastAttempt, Observed
<1> QED BY <1>5, <1>6, <1>7, <1>8, <1>9, <1>10

LEMMA Joins ==
  ASSUME NEW a, NEW b
  PROVE  /\ <<>> \o <<a>> = <<a>> /\ <<a>> \o <<>> = <<a>>
         /\ <<a>> \o <<b>> = <<a, b>>
<1> DEFINE S == {a, b}
<1>1. /\ <<a>> \in Seq(S) /\ <<b>> \in Seq(S) /\ <<a, b>> \in Seq(S)
      /\ Len(<<a>>) = 1 /\ Len(<<b>>) = 1 /\ Len(<<a, b>>) = 2
      /\ <<a>>[1] = a /\ <<b>>[1] = b /\ <<a, b>>[1] = a /\ <<a, b>>[2] = b
  OBVIOUS
<1> HIDE DEF S
<1>2. <<>> \o <<a>> = <<a>> /\ <<a>> \o <<>> = <<a>> BY <1>1, ConcatEmptySeq
<1>3. <<a>> \o <<b>> = <<a, b>>
  <2> DEFINE s == <<a>>
             t == <<b>>
             u == <<a, b>>
  <2>1. /\ s \in Seq(S) /\ t \in Seq(S) /\ u \in Seq(S) /\ Len(s) = 1 /\ Len(t) = 1 /\ Len(u) = 2
        /\ s[1] = a /\ t[1] = b /\ u[1] = a /\ u[2] = b
    BY <1>1
  <2> HIDE DEF s, t, u
  <2>2. /\ s \o t \in Seq(S) /\ Len(s \o t) = 2
        /\ \A i \in 1 .. 2 : (s \o t)[i] = IF i <= 1 THEN s[i] ELSE t[i - 1]
    BY <2>1, ConcatProperties
  <2>3. \A i \in 1 .. 2 : (s \o t)[i] = u[i] BY <2>1, <2>2
  <2>4. s \o t = u BY <2>1, <2>2, <2>3, SeqEqual
  <2> QED BY <2>4 DEF s, t, u
<1> QED BY <1>2, <1>3

\* What the stream of events has said when it waits for the adapter.
LEMMA Waiting ==
  ASSUME ResponseInv, Idle("streaming")
  PROVE  /\ stage = "streaming" /\ outbox = <<>> /\ last \in {"generating", "chunk"}
         /\ emitted > 0 => last = "chunk"
         /\ delivered = None
<1>1. stage = "streaming" /\ outbox = <<>> BY DEF Idle
<1>2. \A e : outbox # <<e>> BY <1>1, Tuples, Zenon
<1>3. outbox # <<"citations", "generating">> BY <1>1, Tuples, Zenon
<1>4. last \in {"generating", "chunk"} BY <1>1, <1>2, <1>3 DEF ResponseInv, Script
<1>5. emitted > 0 => last = "chunk" BY <1>1, <1>2 DEF ResponseInv, Emission
<1>6. delivered = None
  BY <1>4 DEF ResponseInv, Remembered, StreamTypeInv, Terminal
<1> QED BY <1>1, <1>4, <1>5, <1>6

LEMMA DeliverTextKeeps ==
  ASSUME ResponseInv, DeliverText, provider' = provider
  PROVE  ResponseInv'
<1> USE DEF ResponseInv
<1> DEFINE remaining == MaxOutput - emitted
           size == task.size
<1>1. /\ Idle("streaming") /\ task.kind = "text" /\ task'.kind = "none"
      /\ outbox' = (IF remaining > 0 THEN <<"chunk">> ELSE <<>>)
                     \o (IF size > remaining THEN <<"limit">> ELSE <<>>)
      /\ emitted' = emitted + Smaller(size, remaining)
      /\ stage' = IF size > remaining THEN "ended" ELSE stage
      /\ UNCHANGED <<accountingVars, gen, fetches, items, calls, bound, last, heard, pings,
                     delivered, endVars>>
  BY DEF DeliverText, NoTask
<1>2. /\ stage = "streaming" /\ outbox = <<>> /\ last \in {"generating", "chunk"}
      /\ emitted > 0 => last = "chunk"
      /\ delivered = None
  BY <1>1, Waiting
<1>3. gen.at = "item" /\ gen.observed BY <1>1, <1>2 DEF Progress, Voice
<1>4. /\ remaining \in 0 .. MaxOutput /\ size \in Nat \ {0} /\ MaxOutput \in Nat \ {0}
      /\ emitted \in 0 .. MaxOutput
  BY <1>1, OutputAssumption DEF StreamTypeInv
<1>5. /\ emitted' \in 0 .. MaxOutput
      /\ \/ outbox' = <<"limit">> /\ last = "chunk" /\ stage' = "ended"
         \/ outbox' = <<"chunk">> /\ stage' = "streaming"
         \/ outbox' = <<"chunk", "limit">> /\ stage' = "ended"
  <2>1. emitted' = emitted + Smaller(size, remaining) BY <1>1
  <2>2. Smaller(size, remaining) \in 0 .. remaining BY <1>4 DEF Smaller
  <2>3. remaining = MaxOutput - emitted OBVIOUS
  <2> HIDE DEF remaining, size
  <2>4. emitted' \in 0 .. MaxOutput BY <1>4, <2>1, <2>2, <2>3
  <2>5. /\ <<>> \o <<"limit">> = <<"limit">>
        /\ <<"chunk">> \o <<>> = <<"chunk">>
        /\ <<"chunk">> \o <<"limit">> = <<"chunk", "limit">>
    BY Joins
  <2>6. CASE ~ (remaining > 0)
    <3>1. emitted > 0 /\ size > remaining BY <1>4, <2>3, <2>6
    <3>2. outbox' = <<>> \o <<"limit">> /\ stage' = "ended" BY <1>1, <2>6, <3>1
    <3> QED BY <1>2, <2>4, <2>5, <3>1, <3>2
  <2>7. CASE remaining > 0 /\ ~ (size > remaining)
    <3>1. outbox' = <<"chunk">> \o <<>> /\ stage' = stage BY <1>1, <2>7
    <3> QED BY <1>2, <2>4, <2>5, <3>1
  <2>8. CASE remaining > 0 /\ size > remaining
    <3>1. outbox' = <<"chunk">> \o <<"limit">> /\ stage' = "ended" BY <1>1, <2>8
    <3> QED BY <2>4, <2>5, <3>1
  <2> QED BY <2>6, <2>7, <2>8
<1> HIDE DEF remaining, size
<1>6. outbox' # <<"stop">> /\ outbox # <<"stop">>
  <2>1. \A a : <<a>> # <<>> BY Tuples
  <2>2. <<"limit">> # <<"stop">> /\ <<"chunk">> # <<"stop">> /\ <<"chunk", "limit">> # <<"stop">>
    BY TuplesDiffer
  <2> QED BY <1>2, <1>5, <2>1, <2>2
<1>7. Script' /\ Emission' /\ Remembered'
  <2>1. stage' \in {"streaming", "ended"} BY <1>5
  <2>2. Script' BY <1>1, <1>2, <1>5 DEF Script
  <2>3. Emission' BY <1>1, <1>2, <1>5, <2>1, Tuples, TuplesDiffer DEF Emission
  <2> QED BY <1>1, <2>2, <2>3 DEF Remembered
<1>8. StreamTypeInv' BY <1>1, <1>5 DEF StreamTypeInv, TaskKind, Stage, endVars
<1>9. Progress' BY <1>1, <1>2, <1>3, <1>5 DEF Progress
<1>10. Voice' BY <1>1, <1>3, <1>5 DEF Voice
<1>11. Recorded' /\ LeftClosed'
  BY <1>1 DEF Recorded, LeftClosed, accountingVars, Allowed, Observed, LastAttempt
<1>12. StopInv' BY <1>1, <1>2, <1>6 DEF StopInv, Stops
<1>13. Drawing' BY <1>1, <1>2 DEF Drawing, accountingVars
<1> QED BY <1>7, <1>8, <1>9, <1>10, <1>11, <1>12, <1>13

LEMMA DeliverEndKeeps ==
  ASSUME ResponseInv, DeliverEnd, provider' = provider
  PROVE  ResponseInv'
<1> USE DEF ResponseInv
<1>1. /\ Idle("streaming") /\ task.kind \in {"stop", "failed"} /\ task'.kind = "none"
      /\ outbox' = IF task.kind = "stop" THEN <<"stop">> ELSE <<"error">>
      /\ stage' = "ended"
      /\ UNCHANGED <<accountingVars, gen, fetches, items, calls, bound, last, heard, emitted,
                     pings, delivered, endVars>>
  BY DEF DeliverEnd, NoTask
<1>2. /\ stage = "streaming" /\ outbox = <<>> /\ last \in {"generating", "chunk"}
      /\ delivered = None
  BY <1>1, Waiting
<1>3. gen.at = "closed" BY <1>1 DEF Progress
<1>4. /\ outbox' # <<"chunk">> /\ outbox' # <<"chunk", "limit">>
      /\ outbox' = <<"stop">> => task.kind = "stop"
  BY <1>1, TuplesDiffer, Zenon
<1>5. Script' /\ Emission' /\ Remembered'
  BY <1>1, <1>2 DEF Script, Emission, Remembered
<1>6. StreamTypeInv' BY <1>1 DEF StreamTypeInv, TaskKind, Stage, endVars
<1>7. Progress' BY <1>1, <1>3 DEF Progress
<1>8. Voice' BY <1>1, <1>4 DEF Voice
<1>9. Recorded' /\ LeftClosed'
  BY <1>1, <1>3 DEF Recorded, LeftClosed, accountingVars, Allowed, Observed, LastAttempt
<1>10. StopInv'
  BY <1>1, <1>2, <1>3, <1>4 DEF StopInv, Stops, accountingVars, LastAttempt, Observed
<1>11. Drawing' BY <1>1, <1>2 DEF Drawing, accountingVars
<1> QED BY <1>5, <1>6, <1>7, <1>8, <1>9, <1>10, <1>11

LEMMA CloseProviderKeeps ==
  ASSUME ResponseInv, CloseProvider, provider' = provider
  PROVE  ResponseInv'
<1> USE DEF ResponseInv
<1>1. /\ stage = "ended" /\ outbox = <<>> /\ gen.at = "item" /\ Leave("exit")
      /\ UNCHANGED <<accountingVars, task, fetches, items, calls, bound, stage, sendVars, endVars>>
  BY DEF CloseProvider, Idle
<1>2. /\ gen' \in Generator /\ gen'.at = "closing" /\ gen'.ending = "exit"
      /\ gen'.attempt = gen.attempt /\ gen'.observed = gen.observed /\ gen'.held = gen.held
  BY <1>1, LeaveFields DEF StreamTypeInv, Ending
<1>3. Script' /\ Emission' /\ Remembered' /\ Drawing'
  BY <1>1 DEF Script, Emission, Remembered, Drawing, sendVars, endVars, accountingVars
<1>4. StreamTypeInv' BY <1>1, <1>2 DEF StreamTypeInv, sendVars, endVars
<1>5. Progress' BY <1>1, <1>2 DEF Progress, sendVars
<1>6. Voice' BY <1>1, <1>2 DEF Voice, sendVars
<1>7. Recorded' /\ LeftClosed'
  BY <1>1, <1>2 DEF Recorded, LeftClosed, accountingVars, Allowed, Observed, LastAttempt
<1>8. StopInv'
  BY <1>1, <1>2 DEF StopInv, Stops, accountingVars, sendVars, LastAttempt, Observed
<1> QED BY <1>3, <1>4, <1>5, <1>6, <1>7, <1>8

LEMMA RetrieveKeeps ==
  ASSUME ResponseInv, Retrieve, provider' = provider
  PROVE  ResponseInv'
<1> USE DEF ResponseInv
<1>1. /\ stage = "retrieving" /\ outbox = <<>>
      /\ UNCHANGED <<accountingVars, genVars, bound, last, heard, emitted, pings, delivered, endVars>>
      /\ \/ /\ outbox' \in {<<"citations", "generating">>, <<"generating">>}
            /\ stage' = "streaming"
         \/ /\ outbox' = <<"refusing", "refusal", "refused">>
            /\ stage' = "ended"
  BY DEF Retrieve, Idle
<1>2. last = "retrieving" /\ gen.at = "fresh" /\ task.kind = "none"
  <2>1. outbox # <<"retrieving">> BY <1>1, Tuples, Zenon
  <2> QED BY <1>1, <2>1 DEF Script, Progress
<1>3. outbox' \notin {<<"chunk">>, <<"chunk", "limit">>, <<"stop">>}
  BY <1>1, TuplesDiffer
<1>4. Script' /\ Remembered' BY <1>1, <1>2 DEF Script, Remembered
<1>5. Emission' /\ Recorded' /\ LeftClosed'
  <2>1. emitted = 0 BY <1>1 DEF Emission
  <2> QED BY <1>1, <1>2, <2>1 DEF Emission, Recorded, LeftClosed, genVars, accountingVars, Allowed, Observed, LastAttempt
<1>6. StreamTypeInv' BY <1>1 DEF StreamTypeInv, Stage, genVars, endVars
<1>7. Progress' BY <1>1, <1>2 DEF Progress, genVars
<1>8. Voice' BY <1>1, <1>2, <1>3 DEF Voice, genVars
<1>9. StopInv' BY <1>1, <1>2, <1>3 DEF StopInv, Stops, genVars
<1>10. Drawing' BY <1>1 DEF Drawing, accountingVars
<1> QED BY <1>4, <1>5, <1>6, <1>7, <1>8, <1>9, <1>10

\* The events that can be sent, and what is left to send after each.
LEMMA SendSteps ==
  ASSUME ResponseInv, SendDone
  PROVE
    \/ /\ stage = "retrieving" /\ last = "none" /\ Head(outbox) = "retrieving" /\ outbox' = <<>>
    \/ /\ stage = "streaming" /\ last = "retrieving"
       /\ Head(outbox) = "citations" /\ outbox' = <<"generating">>
    \/ /\ stage = "streaming" /\ last \in {"retrieving", "citations"}
       /\ Head(outbox) = "generating" /\ outbox' = <<>>
    \/ /\ stage = "streaming" /\ last \in {"generating", "chunk"}
       /\ Head(outbox) = "ping" /\ outbox = <<"ping">> /\ outbox' = <<>>
    \/ /\ stage = "streaming" /\ last \in {"generating", "chunk"}
       /\ Head(outbox) = "chunk" /\ outbox = <<"chunk">> /\ outbox' = <<>>
    \/ /\ stage = "ended" /\ last = "retrieving"
       /\ Head(outbox) = "refusing" /\ outbox' = <<"refusal", "refused">>
    \/ /\ stage = "ended" /\ last = "refusing"
       /\ Head(outbox) = "refusal" /\ outbox' = <<"refused">>
    \/ /\ stage = "ended" /\ last = "refusal" /\ Head(outbox) = "refused" /\ outbox' = <<>>
    \/ /\ stage = "ended" /\ last \in {"generating", "chunk"}
       /\ Head(outbox) = "stop" /\ outbox = <<"stop">> /\ outbox' = <<>>
    \/ /\ stage = "ended" /\ last \in {"generating", "chunk"}
       /\ Head(outbox) = "error" /\ outbox' = <<>>
    \/ /\ stage = "ended" /\ last \in {"generating", "chunk"}
       /\ Head(outbox) = "chunk" /\ outbox = <<"chunk", "limit">> /\ outbox' = <<"limit">>
    \/ /\ stage = "ended" /\ last = "chunk" /\ Head(outbox) = "limit" /\ outbox' = <<>>
<1>1. /\ stage \in {"retrieving", "streaming", "ended"} /\ outbox # <<>>
      /\ outbox' = Tail(outbox)
  BY DEF SendDone
<1>2. CASE stage = "retrieving"
  BY <1>1, <1>2, Tuples DEF ResponseInv, Script
<1>3. CASE stage = "streaming"
  <2>1. \/ last = "retrieving" /\ outbox \in {<<"citations", "generating">>, <<"generating">>}
        \/ last = "citations" /\ outbox = <<"generating">>
        \/ last \in {"generating", "chunk"} /\ outbox \in {<<"ping">>, <<"chunk">>}
    BY <1>1, <1>3 DEF ResponseInv, Script
  <2> QED BY <1>1, <1>3, <2>1, Tuples
<1>4. CASE stage = "ended"
  <2>1. \/ last = "retrieving" /\ outbox = <<"refusing", "refusal", "refused">>
        \/ last = "refusing" /\ outbox = <<"refusal", "refused">>
        \/ last = "refusal" /\ outbox = <<"refused">>
        \/ /\ last \in {"generating", "chunk"}
           /\ outbox \in {<<"stop">>, <<"error">>, <<"chunk", "limit">>}
        \/ last = "chunk" /\ outbox = <<"limit">>
    BY <1>1, <1>4 DEF ResponseInv, Script
  <2>2. CASE last \in {"retrieving", "refusing", "refusal"}
    <3>1. \/ last = "retrieving" /\ outbox = <<"refusing", "refusal", "refused">>
          \/ last = "refusing" /\ outbox = <<"refusal", "refused">>
          \/ last = "refusal" /\ outbox = <<"refused">>
      BY <2>1, <2>2
    <3>2. outbox = <<"refusing", "refusal", "refused">> =>
            Head(outbox) = "refusing" /\ outbox' = <<"refusal", "refused">>
      BY <1>1, Tuples
    <3>3. outbox = <<"refusal", "refused">> => Head(outbox) = "refusal" /\ outbox' = <<"refused">>
      BY <1>1, Tuples
    <3>4. outbox = <<"refused">> => Head(outbox) = "refused" /\ outbox' = <<>>
      BY <1>1, Tuples
    <3> QED BY <1>4, <3>1, <3>2, <3>3, <3>4
  <2>3. CASE outbox = <<"stop">> \/ outbox = <<"error">>
    BY <1>1, <1>4, <2>1, <2>3, Tuples
  <2>4. CASE outbox = <<"chunk", "limit">>
    <3>1. Head(outbox) = "chunk" /\ outbox' = <<"limit">>
      BY <1>1, <2>4, Tuples
    <3>2. outbox # <<"limit">> /\ outbox # <<"refused">> /\ outbox # <<"refusing", "refusal", "refused">>
      BY <2>4, TuplesDiffer
    <3>3. outbox # <<"refusal", "refused">>
      BY <2>4, TuplesDiffer, "chunk" # "refusal"
    <3> QED BY <1>4, <2>1, <2>4, <3>1, <3>2, <3>3
  <2>5. CASE last = "chunk" /\ outbox = <<"limit">>
    BY <1>1, <1>4, <2>5, Tuples
  <2> QED BY <2>1, <2>2, <2>3, <2>4, <2>5
<1> QED BY <1>1, <1>2, <1>3, <1>4

LEMMA SendDoneKeeps ==
  ASSUME ResponseInv, SendDone, provider' = provider
  PROVE  ResponseInv'
<1> USE DEF ResponseInv
<1>0. PICK e : e = Head(outbox) OBVIOUS
<1>1. /\ last' = (IF e = "ping" THEN last ELSE e)
      /\ heard' = (IF e = "chunk" THEN heard \cup {gen.attempt} ELSE heard)
      /\ delivered' = (IF e \in Terminal THEN e ELSE delivered)
      /\ UNCHANGED <<accountingVars, genVars, bound, stage, emitted, pings, endVars>>
  BY <1>0 DEF SendDone
<1>2. \/ /\ stage = "retrieving" /\ last = "none" /\ e = "retrieving" /\ outbox' = <<>>
      \/ /\ stage = "streaming" /\ last = "retrieving"
         /\ e = "citations" /\ outbox' = <<"generating">>
      \/ /\ stage = "streaming" /\ last \in {"retrieving", "citations"}
         /\ e = "generating" /\ outbox' = <<>>
      \/ /\ stage = "streaming" /\ last \in {"generating", "chunk"}
         /\ e = "ping" /\ outbox = <<"ping">> /\ outbox' = <<>>
      \/ /\ stage = "streaming" /\ last \in {"generating", "chunk"}
         /\ e = "chunk" /\ outbox = <<"chunk">> /\ outbox' = <<>>
      \/ /\ stage = "ended" /\ last = "retrieving"
         /\ e = "refusing" /\ outbox' = <<"refusal", "refused">>
      \/ /\ stage = "ended" /\ last = "refusing" /\ e = "refusal" /\ outbox' = <<"refused">>
      \/ /\ stage = "ended" /\ last = "refusal" /\ e = "refused" /\ outbox' = <<>>
      \/ /\ stage = "ended" /\ last \in {"generating", "chunk"}
         /\ e = "stop" /\ outbox = <<"stop">> /\ outbox' = <<>>
      \/ /\ stage = "ended" /\ last \in {"generating", "chunk"} /\ e = "error" /\ outbox' = <<>>
      \/ /\ stage = "ended" /\ last \in {"generating", "chunk"}
         /\ e = "chunk" /\ outbox = <<"chunk", "limit">> /\ outbox' = <<"limit">>
      \/ /\ stage = "ended" /\ last = "chunk" /\ e = "limit" /\ outbox' = <<>>
  BY <1>0, SendSteps
<1>3. Script' BY <1>1, <1>2 DEF Script, Terminal
<1>4. outbox' \notin {<<"chunk">>, <<"chunk", "limit">>, <<"stop">>}
  BY <1>2, Tuples, TuplesDiffer
<1>5. Emission'
  <2>1. outbox = <<"ping">> => outbox # <<"chunk">> BY TuplesDiffer
  <2>2. CASE stage = "streaming"
    <3>1. last \in {"retrieving", "citations"} => emitted = 0
      <4>1. stage = "streaming" /\ last \in {"retrieving", "citations"} => outbox # <<"chunk">>
        BY TuplesDiffer DEF Script
      <4>2. emitted \in Nat BY OutputAssumption DEF StreamTypeInv
      <4> QED BY <2>2, <4>1, <4>2 DEF Emission
    <3> QED BY <1>1, <1>2, <2>1, <2>2, <3>1 DEF Emission
  <2>3. CASE stage # "streaming"
    BY <1>1, <1>2, <2>3 DEF Emission
  <2> QED BY <2>2, <2>3
<1>6. Remembered'
  <2>1. delivered # None => delivered \in Terminal /\ last = delivered
    BY DEF StreamTypeInv, Remembered
  <2>2. last \notin Terminal BY <1>2 DEF Terminal
  <2>3. delivered = None BY <2>1, <2>2
  <2>4. last' \in Terminal => last' = e BY <1>1, <2>2
  <2>5. e \in Terminal => e # "ping" /\ e # None BY TerminalAssumption DEF Terminal
  <2> QED BY <1>1, <2>3, <2>4, <2>5 DEF Remembered
<1>7. StreamTypeInv' BY <1>1 DEF StreamTypeInv, genVars, endVars
<1>8. Progress'
  <2>1. outbox # <<>> BY DEF SendDone
  <2> QED BY <1>1, <2>1 DEF Progress, genVars
<1>9. Voice'
  <2>1. e = "chunk" => gen.observed BY <1>2 DEF Voice
  <2> QED BY <1>1, <1>4, <2>1 DEF Voice, genVars
<1>10. Recorded' /\ LeftClosed'
  BY <1>1 DEF Recorded, LeftClosed, genVars, accountingVars, Allowed, Observed, LastAttempt
<1>11. StopInv'
  <2>1. last' = "stop" => last = "stop" \/ outbox = <<"stop">> BY <1>1, <1>2
  <2> QED BY <1>1, <1>4, <2>1 DEF StopInv, Stops, genVars, accountingVars, LastAttempt, Observed
<1>12. Drawing' BY <1>1, <1>2 DEF Drawing, accountingVars
<1> QED BY <1>3, <1>5, <1>6, <1>7, <1>8, <1>9, <1>10, <1>11, <1>12

LEMMA BodyEndsKeeps ==
  ASSUME ResponseInv, BodyEnds, provider' = provider
  PROVE  ResponseInv'
<1> USE DEF ResponseInv
<1>1. /\ gen.at \in {"fresh", "closed"} /\ stage' = "settling"
      /\ stage \in {"ended", "unwinding"} /\ outbox = <<>>
      /\ UNCHANGED <<accountingVars, genVars, bound, sendVars, endVars>>
  BY DEF BodyEnds, Idle, Script
<1>2. Script' /\ Emission' /\ Remembered' /\ Drawing'
  BY <1>1 DEF Script, Emission, Remembered, Drawing, sendVars, endVars, accountingVars
<1>3. StreamTypeInv' BY <1>1 DEF StreamTypeInv, Stage, genVars, sendVars, endVars
<1>4. Progress' BY <1>1 DEF Progress, genVars
<1>5. Voice' BY <1>1 DEF Voice, genVars, sendVars
<1>6. Recorded' /\ LeftClosed'
  BY <1>1 DEF Recorded, LeftClosed, genVars, accountingVars, Allowed, Observed, LastAttempt
<1>7. StopInv'
  BY <1>1 DEF StopInv, Stops, genVars, sendVars, accountingVars, LastAttempt, Observed
<1> QED BY <1>2, <1>3, <1>4, <1>5, <1>6, <1>7

-----------------------------------------------------------------------------
(* The steps of the adapter that tell the session something.               *)

\* A step that tells it nothing.
LEMMA SessionStays ==
  ASSUME SessionInv, UNCHANGED accountingVars
  PROVE  SessionInv'
BY SessionStep

LEMMA StartAttemptKeeps ==
  ASSUME SessionInv, ResponseInv, StartAttempt, provider' = provider
  PROVE  SessionInv' /\ ResponseInv'
<1> USE DEF ResponseInv
<1> DEFINE id == [owner |-> Policy, number |-> gen.attempt + 1]
           refused == Observed /\ ~ MayStart(id)
<1>1. /\ task.kind = "running" /\ gen.at \in {"fresh", "backoff"}
      /\ IF Observed /\ ~ refused THEN AttemptStarted(id) ELSE UNCHANGED accountingVars
      /\ gen' = (IF refused THEN [gen EXCEPT !.at = "closed"]
                 ELSE [NewGenerator EXCEPT !.at = "calling", !.attempt = gen.attempt + 1,
                                           !.timer = fetches])
      /\ task' = (IF refused THEN Failed ELSE task)
      /\ calls' = (IF refused THEN calls ELSE calls + 1)
      /\ UNCHANGED <<fetches, items, bound, stage, sendVars, endVars>>
  BY DEF StartAttempt
<1>2. stage = "streaming" BY <1>1 DEF Progress, StreamTypeInv, Stage
<1>3. gen \in Generator /\ gen.attempt \in Nat /\ fetches \in Nat
  BY DEF StreamTypeInv, Generator
<1>4. ~ gen.observed /\ ~ Stops BY <1>1 DEF Voice, StopInv
<1>5. summary = None BY <1>2 DEF Drawing
<1>6. CASE refused
  <2>1. UNCHANGED accountingVars BY <1>1, <1>6
  <2>2. /\ gen' \in Generator /\ gen'.at = "closed" /\ gen'.ending = gen.ending
        /\ gen'.attempt = gen.attempt /\ gen'.observed = gen.observed /\ gen'.held = gen.held
    BY <1>1, <1>3, <1>6 DEF Generator, GenPlace
  <2>3. task'.kind = "failed" /\ calls' = calls BY <1>1, <1>6 DEF Failed
  <2>4. Script' /\ Emission' /\ Remembered' /\ Drawing'
    BY <1>1, <1>2, <2>1 DEF Script, Emission, Remembered, Drawing, sendVars, endVars, accountingVars
  <2>5. StreamTypeInv'
    BY <1>1, <2>2, <2>3 DEF StreamTypeInv, TaskKind, sendVars, endVars
  <2>6. Progress' BY <1>1, <1>2, <2>2, <2>3 DEF Progress
  <2>7. Voice' BY <1>1, <2>2, <2>3 DEF Voice, sendVars
  <2>8. Recorded'
    BY <1>1, <2>1, <2>2, <2>3 DEF Recorded, accountingVars, Allowed, Observed
  <2>9. LeftClosed'
    <3>1. \A i \in 1 .. Len(attempts) : Closed(attempts[i])
      <4>1. CASE gen.at = "fresh"
        <5>1. Len(attempts) = 0 BY <1>6, <4>1 DEF Recorded
        <5> QED BY <5>1
      <4>2. CASE gen.at = "backoff" BY <4>2 DEF LeftClosed
      <4> QED BY <1>1, <4>1, <4>2
    <3> QED BY <2>1, <2>2, <3>1 DEF LeftClosed, accountingVars
  <2>10. StopInv' BY <1>1, <1>4, <2>3 DEF StopInv, Stops, sendVars
  <2>11. SessionInv' BY <2>1, SessionStays
  <2> QED BY <2>4, <2>5, <2>6, <2>7, <2>8, <2>9, <2>10, <2>11
<1>7. CASE ~ refused
  <2>1. /\ gen' \in Generator /\ gen'.at = "calling" /\ gen'.attempt = gen.attempt + 1
        /\ gen'.held = 0
    <3>1. gen' = [NewGenerator EXCEPT !.at = "calling", !.attempt = gen.attempt + 1,
                                      !.timer = fetches]
      BY <1>1, <1>7
    <3>2. NewGenerator \in Generator /\ NewGenerator.held = 0
      BY DEF NewGenerator, Generator, GenPlace, Ending
    <3>3. "calling" \in GenPlace BY DEF GenPlace
    <3>4. gen.attempt + 1 \in Nat /\ fetches \in Nat BY <1>3
    <3>5. ASSUME NEW g \in Generator, NEW n \in Nat, NEW f \in Nat,
                 gen' = [g EXCEPT !.at = "calling", !.attempt = n, !.timer = f]
          PROVE  /\ gen' \in Generator /\ gen'.at = "calling" /\ gen'.attempt = n
                 /\ gen'.held = g.held
      BY <3>3, <3>5 DEF Generator
    <3> QED BY <3>1, <3>2, <3>4, <3>5
  <2>2. task' = task /\ calls' = calls + 1 BY <1>1, <1>7
  <2>3. /\ SessionInv' /\ summary' = None
        /\ IF Observed THEN Len(attempts') = gen.attempt + 1 ELSE attempts' = attempts
    <3>1. CASE Observed
      <4>1. AttemptStarted(id) BY <1>1, <1>7, <3>1
      <4>2. gen.attempt + 1 \in Nat /\ Policy \in Owner BY <1>3, ProviderAssumption
      <4>3. SessionInv' /\ summary' = None /\ Len(attempts') = gen.attempt + 1
        BY <4>1, <4>2, StartEffect
      <4> QED BY <3>1, <4>3
    <3>2. CASE ~ Observed
      <4>1. UNCHANGED accountingVars BY <1>1, <3>2
      <4>2. SessionInv' BY <4>1, SessionStays
      <4> QED BY <1>5, <3>2, <4>1, <4>2 DEF accountingVars
    <3> QED BY <3>1, <3>2
  <2>4. Script' /\ Emission' /\ Remembered' /\ Drawing'
    BY <1>1, <1>2, <2>3 DEF Script, Emission, Remembered, Drawing, sendVars, endVars
  <2>5. StreamTypeInv'
    BY <1>1, <2>1, <2>2 DEF StreamTypeInv, sendVars, endVars
  <2>6. Progress' BY <1>1, <1>2, <2>1, <2>2 DEF Progress
  <2>7. Voice'
    <3>1. /\ heard = {} /\ outbox \notin {<<"chunk">>, <<"chunk", "limit">>}
      BY <1>4 DEF Voice
    <3> QED BY <1>1, <2>1, <2>2, <3>1 DEF Voice, sendVars
  <2>8. Recorded'
    <3>1. gen.attempt + 1 <= Allowed
      <4>1. Allowed \in Nat /\ Allowed >= 1
        BY AttemptsAssumption, ProviderAssumption DEF Allowed
      <4> QED BY <1>1, <1>3, <4>1 DEF Recorded
    <3>2. calls' = gen'.attempt BY <2>1, <2>2 DEF Recorded
    <3>3. ~ Observed => attempts' = <<>> BY <2>3 DEF Recorded
    <3>4. Allowed' = Allowed /\ Observed' = Observed BY DEF Allowed, Observed
    <3> QED BY <1>3, <2>1, <2>3, <3>1, <3>2, <3>3, <3>4 DEF Recorded
  <2>9. LeftClosed' BY <2>1 DEF LeftClosed
  <2>10. StopInv' BY <1>1, <1>4, <2>2 DEF StopInv, Stops, sendVars
  <2> QED BY <2>3, <2>4, <2>5, <2>6, <2>7, <2>8, <2>9, <2>10
<1> QED BY <1>6, <1>7

LEMMA UpstreamUsageKeeps ==
  ASSUME SessionInv, ResponseInv, UpstreamUsage, provider' = provider
  PROVE  SessionInv' /\ ResponseInv'
<1> USE DEF ResponseInv
<1>1. /\ task.kind = "running" /\ gen.at = "calling" /\ Observed /\ items' = items + 1
      /\ UNCHANGED <<fetches, calls, bound, stage, sendVars, endVars>>
  BY DEF UpstreamUsage, Running
<1>2. stage = "streaming" BY <1>1 DEF Progress, StreamTypeInv, Stage
<1>3. gen \in Generator BY DEF StreamTypeInv
<1>4. ~ Stops BY <1>1 DEF StopInv
<1>5. Len(attempts) = gen.attempt /\ gen.attempt > 0 /\ gen.attempt \in Nat
  BY <1>1, <1>3 DEF Recorded, Generator
<1>6. attempts # <<>> BY <1>5
<1>7. Sound(LastAttempt, Len(attempts), owner) BY <1>6, LastSound
<1>8. PICK u \in Reported, t \in Tier \cup {None} :
        LET known == LastAttempt.usage
            chunk == [owner |-> Policy, number |-> gen.attempt,
                      tier |-> IF LastAttempt.tier = None THEN t ELSE LastAttempt.tier,
                      usage |-> IF known = None THEN u ELSE Merged(known, u)]
        IN IF known # None /\ ~ (SameTier(LastAttempt, [tier |-> t]) /\ Cumulative(known, u))
           THEN /\ gen' = [gen EXCEPT !.at = "closing", !.ending = "fatal", !.observed = TRUE]
                /\ UNCHANGED <<accountingVars, task>>
           ELSE /\ UsageObserved(chunk)
                /\ IF UsageAccepted(chunk)
                   THEN /\ gen' = [gen EXCEPT !.at = "item", !.observed = TRUE]
                        /\ task' = [kind |-> "usage"]
                   ELSE /\ gen' = [gen EXCEPT !.at = "closing", !.ending = "refused",
                                              !.observed = TRUE]
                        /\ UNCHANGED task
  BY Zenon DEF UpstreamUsage
<1> DEFINE known == LastAttempt.usage
           chunk == [owner |-> Policy, number |-> gen.attempt,
                     tier |-> IF LastAttempt.tier = None THEN t ELSE LastAttempt.tier,
                     usage |-> IF known = None THEN u ELSE Merged(known, u)]
           bad == known # None /\ ~ (SameTier(LastAttempt, [tier |-> t]) /\ Cumulative(known, u))
<1>9. /\ bad => /\ gen' = [gen EXCEPT !.at = "closing", !.ending = "fatal", !.observed = TRUE]
                /\ UNCHANGED <<accountingVars, task>>
      /\ ~ bad =>
           /\ UsageObserved(chunk)
           /\ UsageAccepted(chunk) =>
                /\ gen' = [gen EXCEPT !.at = "item", !.observed = TRUE]
                /\ task' = [kind |-> "usage"]
           /\ ~ UsageAccepted(chunk) =>
                /\ gen' = [gen EXCEPT !.at = "closing", !.ending = "refused", !.observed = TRUE]
                /\ task' = task
  BY <1>8
<1>10. ~ bad => Proper(chunk)
  <2>1. u \in UsageValue /\ ValidUsage(u) BY ReportedAssumption
  <2>2. known # None => known \in UsageValue BY <1>7 DEF Sound, Attempt
  <2>3. ~ bad /\ known # None => Merged(known, u) \in UsageValue /\ ValidUsage(Merged(known, u))
    BY <2>1, <2>2 DEF Cumulative, Merged, UsageValue
  <2>4. LastAttempt.tier \in Tier \cup {None} BY <1>7 DEF Sound, Attempt
  <2> QED BY <2>1, <2>3, <2>4 DEF Proper
<1>11. /\ SessionInv' /\ summary' = None /\ Len(attempts') = Len(attempts)
       /\ ~ bad /\ ~ UsageAccepted(chunk) => Closed(attempts'[Len(attempts')])
  <2>1. CASE bad
    <3>1. UNCHANGED accountingVars BY <1>9, <2>1
    <3>2. SessionInv' BY <3>1, SessionStays
    <3> QED BY <1>2, <2>1, <3>1, <3>2 DEF accountingVars, Drawing
  <2>2. CASE ~ bad
    <3>1. Proper(chunk) /\ UsageObserved(chunk) BY <1>9, <1>10, <2>2
    <3> HIDE DEF chunk
    <3> QED BY <2>2, <3>1, UsageEffect
  <2> QED BY <2>1, <2>2
<1> HIDE DEF bad, chunk, known
<1>12. /\ gen' \in Generator /\ gen'.attempt = gen.attempt /\ gen'.observed = TRUE
       /\ gen'.held = gen.held
       /\ \/ gen'.at = "item" /\ task'.kind = "usage"
          \/ gen'.at = "closing" /\ gen'.ending = "fatal" /\ task' = task
          \/ /\ gen'.at = "closing" /\ gen'.ending = "refused" /\ task' = task
             /\ Closed(attempts'[Len(attempts')])
  <2>1. {"fatal", "refused"} \subseteq Ending /\ {"item", "closing"} \subseteq GenPlace
    BY DEF Ending, GenPlace
  <2>2. CASE bad BY <1>3, <1>9, <2>1, <2>2 DEF Generator
  <2>3. CASE ~ bad /\ UsageAccepted(chunk)
    <3>1. gen' = [gen EXCEPT !.at = "item", !.observed = TRUE] /\ task' = [kind |-> "usage"]
      BY <1>9, <2>3
    <3>2. task'.kind = "usage" BY <3>1
    <3>3. /\ gen' \in Generator /\ gen'.attempt = gen.attempt /\ gen'.observed = TRUE
          /\ gen'.held = gen.held /\ gen'.at = "item"
      BY <1>3, <2>1, <3>1 DEF Generator
    <3> QED BY <3>2, <3>3
  <2>4. CASE ~ bad /\ ~ UsageAccepted(chunk)
    BY <1>3, <1>9, <1>11, <2>1, <2>4 DEF Generator
  <2> QED BY <2>2, <2>3, <2>4
<1>13. Script' /\ Emission' /\ Remembered' /\ Drawing'
  BY <1>1, <1>2, <1>11 DEF Script, Emission, Remembered, Drawing, sendVars, endVars
<1>14. StreamTypeInv' BY <1>1, <1>12 DEF StreamTypeInv, TaskKind, sendVars, endVars
<1>15. Progress' BY <1>1, <1>2, <1>12 DEF Progress
<1>16. Voice' BY <1>1, <1>12 DEF Voice, sendVars
<1>17. Recorded' BY <1>1, <1>5, <1>11, <1>12 DEF Recorded, Allowed, Observed
<1>18. LeftClosed' BY <1>12 DEF LeftClosed, LastAttempt
<1>19. StopInv' BY <1>1, <1>4, <1>12 DEF StopInv, Stops, sendVars
<1> QED BY <1>11, <1>13, <1>14, <1>15, <1>16, <1>17, <1>18, <1>19

\* The verdict on an attempt whose stream is being closed, or none if the
\* session has refused a report of it: no attempt is left open.
LEMMA ReportKeeps ==
  ASSUME SessionInv, ResponseInv, gen.at = "closing", NEW v \in Verdict \cup {None}, Report(v),
         v = None => gen.ending = "refused"
  PROVE  /\ SessionInv' /\ summary' = None /\ Len(attempts') = Len(attempts)
         /\ \A i \in 1 .. Len(attempts') : Closed(attempts'[i])
         /\ Observed /\ v = "completed" /\ Active(CurrentIdentity) =>
              attempts' # <<>> /\ attempts'[Len(attempts')].completion = "completed"
<1>1. stage \in {"streaming", "ended", "unwinding"}
  BY DEF ResponseInv, Progress, StreamTypeInv, Stage
<1>2. summary = None BY <1>1 DEF ResponseInv, Drawing
<1>3. CASE Observed /\ v # None
  <2>1. AttemptClosed(CurrentIdentity, v) /\ v \in Verdict BY <1>3 DEF Report
  <2> QED BY <2>1, ReportEffect
<1>4. CASE ~ (Observed /\ v # None)
  <2>1. UNCHANGED accountingVars BY <1>4 DEF Report
  <2>2. SessionInv' BY <2>1, SessionStays
  <2>3. attempts' = attempts /\ summary' = None BY <1>2, <2>1 DEF accountingVars
  <2>4. attempts # <<>> => Closed(attempts[Len(attempts)])
    <3>1. ~ Observed => attempts = <<>> BY DEF ResponseInv, Recorded
    <3>2. Observed => Closed(LastAttempt) BY <1>4 DEF ResponseInv, LeftClosed
    <3> QED BY <3>1, <3>2 DEF LastAttempt
  <2>5. \A i \in 1 .. Len(attempts) : Closed(attempts[i])
    BY <2>4, AllClosed DEF SessionInv, AttemptsInv, RetryFollowsError
  <2>6. v # "completed" \/ ~ Observed
    BY <1>4, ReasonAssumption DEF AttemptCompletion
  <2> QED BY <2>2, <2>3, <2>5, <2>6
<1> QED BY <1>3, <1>4

LEMMA VerdictGiven ==
  ASSUME ResponseInv, gen.at = "closing", NEW clean \in BOOLEAN
  PROVE  /\ VerdictOn(gen.ending, clean) \in Verdict \cup {None}
         /\ VerdictOn(gen.ending, clean) = None => gen.ending = "refused"
         /\ gen.ending = "completed" /\ clean => VerdictOn(gen.ending, clean) = "completed"
<1>1. gen.ending \in Ending BY DEF ResponseInv, Progress, Ending
<1>2. None \notin Verdict BY ReasonAssumption DEF Verdict
<1>3. {"cleanup_uncertain", "completed", "error", "cancelled", "finish_missing"} \subseteq Verdict
  BY DEF Verdict, AttemptCompletion, UncertaintyReason
<1>4. CASE ~ clean BY <1>2, <1>3, <1>4 DEF VerdictOn
<1>5. CASE clean BY <1>1, <1>2, <1>3, <1>5 DEF VerdictOn, Ending
<1> QED BY <1>4, <1>5

LEMMA CleanupDoneKeeps ==
  ASSUME SessionInv, ResponseInv, CleanupDone, provider' = provider
  PROVE  SessionInv' /\ ResponseInv'
<1> USE DEF ResponseInv
<1>1. gen.at = "closing" /\ UNCHANGED <<fetches, items, calls, bound, sendVars, inSend>>
  BY DEF CleanupDone
<1>2. PICK clean \in BOOLEAN :
        LET replaced == Replaces(gen.ending, clean)
            resumes == replaced /\ stage = "unwinding" /\ ~ inSend
        IN /\ Report(VerdictOn(gen.ending, clean))
           /\ gen' = [gen EXCEPT !.at = IF Retries(gen.ending, clean) THEN "backoff" ELSE "closed"]
           /\ task' = IF Retries(gen.ending, clean) THEN task
                      ELSE IF resumes THEN Failed
                      ELSE Outcome(gen.ending, clean)
           /\ stage' = IF resumes THEN "streaming"
                       ELSE IF replaced /\ stage = "ended" THEN "unwinding" ELSE stage
           /\ cause' = IF resumes THEN None
                       ELSE IF replaced /\ cause = None THEN "cleanup" ELSE cause
           /\ cleanupFailed' = (cleanupFailed \/ (replaced /\ inSend))
  BY DEF CleanupDone
<1> DEFINE replaced == Replaces(gen.ending, clean)
           resumes == replaced /\ stage = "unwinding" /\ ~ inSend
           retries == Retries(gen.ending, clean)
           verdict == VerdictOn(gen.ending, clean)
           outcome == Outcome(gen.ending, clean)
<1>3. /\ gen \in Generator /\ stage \in {"streaming", "ended", "unwinding"} /\ ~ Stops
      /\ summary = None
  BY <1>1 DEF Progress, StreamTypeInv, Stage, StopInv, Drawing
<1>4. stage = "ended" => outbox = <<>> BY <1>1 DEF Progress
<1>5. verdict \in Verdict \cup {None} /\ (verdict = None => gen.ending = "refused")
  BY <1>1, VerdictGiven
<1>6. /\ SessionInv' /\ summary' = None /\ Len(attempts') = Len(attempts)
      /\ \A i \in 1 .. Len(attempts') : Closed(attempts'[i])
      /\ Observed /\ verdict = "completed" /\ Active(CurrentIdentity) =>
           attempts' # <<>> /\ attempts'[Len(attempts')].completion = "completed"
  <2>1. Report(verdict) BY <1>2
  <2> HIDE DEF verdict
  <2> QED BY <1>1, <1>5, <2>1, ReportKeeps
<1>7. /\ gen' \in Generator /\ gen'.at = (IF retries THEN "backoff" ELSE "closed")
      /\ gen'.attempt = gen.attempt /\ gen'.observed = gen.observed /\ gen'.held = gen.held
  <2> HIDE DEF retries
  <2>1. gen' = [gen EXCEPT !.at = IF retries THEN "backoff" ELSE "closed"]
    BY <1>2 DEF retries
  <2> QED BY <1>3, <2>1 DEF Generator, GenPlace
<1>8. /\ retries => /\ stage = "streaming" /\ ~ gen.observed /\ gen.attempt < Allowed
                    /\ task.kind = "running"
  <2>1. retries => gen.ending = "retryable" /\ ~ gen.observed /\ gen.attempt < Allowed
    BY DEF Retries
  <2>2. retries => stage = "streaming" BY <1>1, <1>3, <2>1 DEF Progress
  <2>3. stage = "streaming" => task.kind = "running"
    BY <1>1 DEF Progress, StreamTypeInv, TaskKind
  <2> QED BY <2>1, <2>2, <2>3
<1>9. /\ outcome.kind \in {"none", "stop", "failed"}
      /\ outcome.kind = "none" => gen.ending \in {"cancelled", "exit"}
      /\ outcome.kind = "stop" =>
           gen.ending = "completed" /\ clean /\ (Observed => Active(CurrentIdentity))
  BY DEF Outcome, NoTask, Failed
<1>10. /\ retries => task' = task
       /\ ~ retries /\ resumes => task'.kind = "failed"
       /\ ~ retries /\ ~ resumes => task' = outcome
  BY <1>2 DEF Failed
<1>11. /\ stage' = (IF resumes THEN "streaming"
                    ELSE IF replaced /\ stage = "ended" THEN "unwinding" ELSE stage)
       /\ cause' = (IF resumes THEN None
                    ELSE IF replaced /\ cause = None THEN "cleanup" ELSE cause)
       /\ cleanupFailed' = (cleanupFailed \/ (replaced /\ inSend))
  BY <1>2
<1> HIDE DEF outcome, retries, resumes, replaced
<1>12. resumes => /\ stage = "unwinding" /\ outbox = <<>> /\ last \in {"generating", "chunk"}
                  /\ emitted > 0 => last = "chunk"
  BY <1>1 DEF resumes, Emission, Script
<1>13. stage' \in {"streaming", "ended", "unwinding"} BY <1>3, <1>11
<1>14. Script'
  <2>1. CASE resumes BY <1>1, <1>11, <1>12, <2>1 DEF Script, sendVars
  <2>2. CASE ~ resumes
    BY <1>1, <1>3, <1>4, <1>11, <2>2 DEF Script, sendVars
  <2> QED BY <2>1, <2>2
<1>15. Emission'
  <2>1. CASE resumes BY <1>1, <1>7, <1>11, <1>12, <2>1 DEF Emission, sendVars
  <2>2. CASE ~ resumes
    BY <1>1, <1>3, <1>7, <1>11, <2>2 DEF Emission, sendVars
  <2> QED BY <2>1, <2>2
<1>16. Remembered' BY <1>1 DEF Remembered, sendVars
<1>17. task'.kind \in {"none", "running", "stop", "failed"}
  BY <1>8, <1>9, <1>10
<1>18. StreamTypeInv'
  BY <1>1, <1>7, <1>11, <1>13, <1>17 DEF StreamTypeInv, TaskKind, Stage, sendVars
<1>19. Progress'
  <2>1. CASE retries
    BY <1>7, <1>8, <1>10, <1>11, <1>12, <2>1 DEF Progress
  <2>2. CASE ~ retries /\ resumes
    BY <1>7, <1>10, <1>11, <2>2 DEF Progress
  <2>3. CASE ~ retries /\ ~ resumes
    <3>1. task'.kind = "none" => stage' # "streaming"
      BY <1>1, <1>9, <1>10, <1>11, <2>3 DEF Progress
    <3> QED BY <1>7, <1>13, <1>17, <2>3, <3>1 DEF Progress
  <2> QED BY <2>1, <2>2, <2>3
<1>20. Voice' BY <1>1, <1>7, <1>8, <1>17 DEF Voice, sendVars
<1>21. Recorded'
  <2>1. ~ Observed => attempts' = <<>>
    <3>1. ~ Observed => UNCHANGED accountingVars BY <1>2 DEF Report
    <3> QED BY <3>1 DEF Recorded, accountingVars
  <2>2. Allowed' = Allowed /\ Observed' = Observed BY DEF Allowed, Observed
  <2> QED BY <1>1, <1>6, <1>7, <1>8, <2>1, <2>2 DEF Recorded
<1>22. LeftClosed' BY <1>6, <1>7 DEF LeftClosed
<1>23. StopInv'
  <2>1. CASE task'.kind = "stop"
    <3>1. ~ retries /\ outcome.kind = "stop" BY <1>8, <1>10, <2>1
    <3>2. gen.ending = "completed" /\ clean /\ (Observed => Active(CurrentIdentity))
      BY <1>9, <3>1
    <3>3. verdict = "completed" BY <1>1, <3>2, VerdictGiven
    <3>4. Observed => attempts' # <<>> /\ attempts'[Len(attempts')].completion = "completed"
      BY <1>6, <3>2, <3>3
    <3> QED BY <1>7, <3>1, <3>4 DEF StopInv, LastAttempt, Observed
  <2>2. CASE task'.kind # "stop"
    BY <1>1, <1>3, <2>2 DEF StopInv, Stops, sendVars
  <2> QED BY <2>1, <2>2
<1>24. Drawing' BY <1>6 DEF Drawing
<1> QED BY <1>6, <1>14, <1>15, <1>16, <1>18, <1>19, <1>20, <1>21, <1>22, <1>23, <1>24

-----------------------------------------------------------------------------
(* Cancellation and settlement.                                            *)

\* Whatever an adapter that is not in its stream has done is judged.
LEMMA JudgedOutside ==
  ASSUME ResponseInv, gen.at \in {"fresh", "backoff", "closed"}
  PROVE  \A i \in 1 .. Len(attempts) : Closed(attempts[i])
<1>1. CASE gen.at = "fresh"
  <2>1. Len(attempts) = 0 BY <1>1 DEF ResponseInv, Recorded
  <2> QED BY <2>1
<1>2. CASE gen.at \in {"backoff", "closed"} BY <1>2 DEF ResponseInv, LeftClosed
<1> QED BY <1>1, <1>2

LEMMA CancelGeneratorEffect ==
  ASSUME SessionInv, ResponseInv, CancelGenerator, stage \notin {"settling", "done"}
  PROVE  /\ SessionInv' /\ summary' = None /\ Len(attempts') = Len(attempts)
         /\ gen' \in Generator /\ gen'.at \in {"closing", "closed"}
         /\ gen'.attempt = gen.attempt /\ gen'.observed = gen.observed /\ gen'.held = gen.held
         /\ gen'.at = "closing" => /\ gen'.ending \in {"exit", "cancelled", "lapsed"}
                                   /\ gen.at \in {"calling", "item"} /\ task' = task
         /\ gen'.at = "closed" => /\ \A i \in 1 .. Len(attempts') : Closed(attempts'[i])
                                  /\ task'.kind = "none"
         /\ gen.at = "closed" => UNCHANGED accountingVars
         /\ ~ Observed => attempts' = attempts
<1>1. gen \in Generator /\ gen.at \in GenPlace
  BY DEF ResponseInv, StreamTypeInv, Generator
<1>2. summary = None BY DEF ResponseInv, Drawing
<1>3. ASSUME NEW ending \in {"exit", "cancelled", "lapsed"}, Leave(ending),
             gen.at \in {"calling", "item"}, UNCHANGED <<accountingVars, task>>
      PROVE  /\ SessionInv' /\ summary' = None /\ Len(attempts') = Len(attempts)
             /\ gen' \in Generator /\ gen'.at = "closing" /\ gen'.ending = ending
             /\ gen'.attempt = gen.attempt /\ gen'.observed = gen.observed
             /\ gen'.held = gen.held
             /\ attempts' = attempts
  <2>1. ending \in Ending BY DEF Ending
  <2>2. SessionInv' BY <1>3, SessionStays
  <2> QED BY <1>1, <1>2, <1>3, <2>1, <2>2, LeaveFields DEF accountingVars
<1>4. ASSUME gen' = [gen EXCEPT !.at = "closed"]
      PROVE  /\ gen' \in Generator /\ gen'.at = "closed" /\ gen'.attempt = gen.attempt
             /\ gen'.observed = gen.observed /\ gen'.held = gen.held
  BY <1>1, <1>4 DEF Generator, GenPlace
<1>5. CASE gen.at = "calling"
  <2>1. PICK ending \in {"cancelled", "lapsed"} : Leave(ending)
    BY <1>5 DEF CancelGenerator
  <2>2. UNCHANGED <<accountingVars, task>> BY <1>5 DEF CancelGenerator
  <2> QED BY <1>3, <1>5, <2>1, <2>2
<1>6. CASE gen.at = "item"
  <2>1. Leave("exit") /\ UNCHANGED <<accountingVars, task>>
    BY <1>6 DEF CancelGenerator
  <2> QED BY <1>3, <1>6, <2>1
<1>7. CASE gen.at = "closing"
  <2>1. /\ Report("cleanup_uncertain") /\ gen' = [gen EXCEPT !.at = "closed"]
        /\ task'.kind = "none"
    BY <1>7 DEF CancelGenerator, NoTask
  <2>2. "cleanup_uncertain" \in Verdict /\ "cleanup_uncertain" # None
    BY ReasonAssumption DEF Verdict, UncertaintyReason
  <2>3. /\ SessionInv' /\ summary' = None /\ Len(attempts') = Len(attempts)
        /\ \A i \in 1 .. Len(attempts') : Closed(attempts'[i])
    BY <1>7, <2>1, <2>2, ReportKeeps
  <2>4. ~ Observed => attempts' = attempts
    BY <2>1 DEF Report, accountingVars
  <2>5. /\ gen' \in Generator /\ gen'.at = "closed" /\ gen'.attempt = gen.attempt
        /\ gen'.observed = gen.observed /\ gen'.held = gen.held
    BY <1>4, <2>1
  <2> QED BY <1>7, <2>1, <2>3, <2>4, <2>5
<1>8. CASE gen.at \in {"fresh", "backoff", "closed"}
  <2>1. /\ gen' = [gen EXCEPT !.at = "closed"] /\ task'.kind = "none"
        /\ UNCHANGED accountingVars
    <3>1. CASE gen.at = "fresh" BY <3>1 DEF CancelGenerator, NoTask
    <3>2. CASE gen.at = "backoff" BY <3>2 DEF CancelGenerator, NoTask
    <3>3. CASE gen.at = "closed" BY <3>3 DEF CancelGenerator, NoTask
    <3> QED BY <1>8, <3>1, <3>2, <3>3
  <2>2. \A i \in 1 .. Len(attempts) : Closed(attempts[i]) BY <1>8, JudgedOutside
  <2>3. SessionInv' BY <2>1, SessionStays
  <2>4. attempts' = attempts /\ summary' = None BY <1>2, <2>1 DEF accountingVars
  <2>5. /\ gen' \in Generator /\ gen'.at = "closed" /\ gen'.attempt = gen.attempt
        /\ gen'.observed = gen.observed /\ gen'.held = gen.held
    BY <1>4, <2>1
  <2> QED BY <2>1, <2>2, <2>3, <2>4, <2>5
<1> QED BY <1>1, <1>5, <1>6, <1>7, <1>8 DEF GenPlace

LEMMA InterruptKeeps ==
  ASSUME SessionInv, ResponseInv, NEW reason \in {"disconnect", "shutdown", "send"},
         Interrupt(reason), provider' = provider
  PROVE  SessionInv' /\ ResponseInv'
<1> USE DEF ResponseInv
<1>1. /\ stage \notin {"settling", "done"} /\ ~ (Idle("ended") /\ gen.at = "item")
      /\ CancelGenerator /\ outbox' = <<>> /\ stage' = "unwinding"
      /\ cause' = (IF cause = None THEN reason ELSE cause)
      /\ inSend' = (inSend \/ outbox # <<>>)
      /\ cleanupFailed' = (cleanupFailed \/ (inSend /\ gen.at = "closing" /\ gen.ending = "exit"))
      /\ UNCHANGED <<fetches, items, calls, bound, last, heard, emitted, pings, delivered>>
  BY DEF Interrupt
<1>2. /\ SessionInv' /\ summary' = None /\ Len(attempts') = Len(attempts)
      /\ gen' \in Generator /\ gen'.at \in {"closing", "closed"}
      /\ gen'.attempt = gen.attempt /\ gen'.observed = gen.observed /\ gen'.held = gen.held
      /\ gen'.at = "closing" => /\ gen'.ending \in {"exit", "cancelled", "lapsed"}
                                /\ gen.at \in {"calling", "item"} /\ task' = task
      /\ gen'.at = "closed" => /\ \A i \in 1 .. Len(attempts') : Closed(attempts'[i])
                               /\ task'.kind = "none"
      /\ gen.at = "closed" => UNCHANGED accountingVars
      /\ ~ Observed => attempts' = attempts
  BY <1>1, CancelGeneratorEffect
<1>3. outbox' \notin {<<"chunk">>, <<"chunk", "limit">>, <<"stop">>}
  BY <1>1, Tuples, Zenon
<1>4. task'.kind \in TaskKind /\ (task'.kind # "none" => task' = task)
  BY <1>2 DEF StreamTypeInv, TaskKind
<1>5. Script' BY <1>1 DEF Script
<1>6. Emission'
  <2>1. ASSUME gen'.at = "closing", ~ inSend'
        PROVE  last \in {"generating", "chunk"} /\ (emitted > 0 => last = "chunk")
    <3>1. outbox = <<>> /\ gen.at \in {"calling", "item"} BY <1>1, <1>2, <2>1
    <3>2. stage = "streaming"
      BY <1>1, <3>1 DEF Progress, StreamTypeInv, Stage, Idle
    <3>3. \A e : <<e>> # <<>> BY Tuples
    <3>4. \A d, e : <<d, e>> # <<>> BY Tuples
    <3>5. last \in {"generating", "chunk"} BY <3>1, <3>2, <3>3, <3>4 DEF Script
    <3> QED BY <3>1, <3>2, <3>3, <3>5 DEF Emission
  <2> QED BY <1>1, <2>1 DEF Emission
<1>7. Remembered' BY <1>1 DEF Remembered
<1>8. StreamTypeInv' BY <1>1, <1>2, <1>4 DEF StreamTypeInv, Stage
<1>9. Progress'
  <2>1. task'.kind \in {"stop", "failed"} => gen'.at = "closed"
    BY <1>2, <1>4 DEF Progress
  <2> QED BY <1>1, <1>2, <2>1 DEF Progress
<1>10. Voice' BY <1>1, <1>2, <1>3, <1>4 DEF Voice
<1>11. Recorded'
  <2>1. gen'.at = "closing" => gen.attempt > 0 BY <1>2 DEF Recorded
  <2>2. Allowed' = Allowed /\ Observed' = Observed BY DEF Allowed, Observed
  <2> QED BY <1>1, <1>2, <2>1, <2>2 DEF Recorded
<1>12. LeftClosed' BY <1>2 DEF LeftClosed
<1>13. StopInv'
  <2>1. CASE gen.at = "closed"
    <3>1. UNCHANGED accountingVars /\ gen'.at = "closed" BY <1>2, <2>1
    <3>2. Stops' => Stops BY <1>1, <1>2, <1>3, <3>1 DEF Stops
    <3> QED BY <3>1, <3>2 DEF StopInv, accountingVars, LastAttempt, Observed
  <2>2. CASE gen.at # "closed"
    <3>1. ~ Stops BY <2>2 DEF StopInv
    <3> QED BY <1>1, <1>3, <1>4, <3>1 DEF StopInv, Stops
  <2> QED BY <2>1, <2>2
<1>14. Drawing' BY <1>2 DEF Drawing
<1> QED BY <1>2, <1>5, <1>6, <1>7, <1>8, <1>9, <1>10, <1>11, <1>12, <1>13, <1>14

LEMMA CompletionOf ==
  ASSUME ResponseInv
  PROVE  /\ Completion \in RequestCompletion
         /\ Completion = "completed" => delivered = "stop" /\ cause = None /\ ~ cleanupFailed
<1>1. delivered \in Terminal \cup {None} BY DEF ResponseInv, StreamTypeInv
<1> QED BY <1>1 DEF Completion, RequestCompletion, Terminal

\* A closed attempt is its own judgement, but for two prices it may match.
LEMMA JudgedCompletion ==
  ASSUME NEW a \in Attempt
  PROVE  Judged(a).completion = a.completion
BY DEF Judged, Attempt

LEMMA SettleKeeps ==
  ASSUME SessionInv, ResponseInv, Settle, provider' = provider
  PROVE  SessionInv' /\ ResponseInv'
<1> USE DEF ResponseInv
<1> DEFINE all == IF cleanupFailed /\ attempts # <<>>
                  THEN [attempts EXCEPT ![Len(attempts)] = Marked(LastAttempt, "cleanup_uncertain")]
                  ELSE attempts
<1>1. /\ stage = "settling" /\ stage' = "done" /\ FinalizeWith(all, Completion)
      /\ UNCHANGED <<genVars, bound, sendVars, endVars>>
  BY DEF Settle
<1>2. /\ attempts \in Seq(Attempt) /\ Len(attempts) \in Nat
      /\ \A i \in 1 .. Len(attempts) : Sound(attempts[i], i, owner) /\ Closed(attempts[i])
    <2>1. gen.at \in {"fresh", "closed"} BY <1>1 DEF Progress
    <2>2. \A i \in 1 .. Len(attempts) : Closed(attempts[i]) BY <2>1, JudgedOutside
    <2> QED BY <2>2 DEF SessionInv, AttemptsInv
<1>3. /\ all \in Seq(Attempt) /\ Len(all) = Len(attempts)
      /\ \A i \in 1 .. Len(attempts) :
           /\ Sound(all[i], i, owner) /\ all[i].completion = attempts[i].completion
           /\ attempts[i].uncertainty # None => all[i].uncertainty # None
  <2>1. CASE cleanupFailed /\ attempts # <<>>
    <3> DEFINE n == Len(attempts)
               m == Marked(LastAttempt, "cleanup_uncertain")
    <3>1. n \in 1 .. n /\ LastAttempt = attempts[n] BY <1>2, <2>1 DEF LastAttempt
    <3>2. "cleanup_uncertain" \in UncertaintyReason BY DEF UncertaintyReason
    <3>3. Sound(attempts[n], n, owner) BY <1>2, <3>1
    <3>4. Sound(m, n, owner) /\ (attempts[n].uncertainty # None => m.uncertainty # None)
      BY <3>1, <3>2, <3>3, MarkedSound
    <3>5. m \in Attempt /\ m.completion = attempts[n].completion
      BY <3>1, <3>3, <3>4 DEF Sound, Marked, Attempt
    <3>6. all = [attempts EXCEPT ![n] = m] BY <2>1
    <3> HIDE DEF m, n, all
    <3>7. Len(attempts) = n BY DEF n
    <3>8. all \in Seq(Attempt) /\ Len(all) = Len(attempts)
      BY <1>2, <3>1, <3>5, <3>6, <3>7
    <3>9. \A i \in 1 .. n : all[i] = IF i = n THEN m ELSE attempts[i]
      BY <1>2, <3>1, <3>6, <3>7
    <3> QED BY <1>2, <3>4, <3>5, <3>7, <3>8, <3>9
  <2>2. CASE ~ (cleanupFailed /\ attempts # <<>>)
    BY <1>2, <2>2
  <2> QED BY <2>1, <2>2
<1> HIDE DEF all
<1>4. /\ Completion \in RequestCompletion
      /\ Completion = "completed" => delivered = "stop" /\ cause = None /\ ~ cleanupFailed
  BY CompletionOf
<1>5. SessionInv'
  <2>1. Len(all) = 2 => all[1].completion = "error"
    BY <1>3 DEF SessionInv, RetryFollowsError
  <2>2. \A i \in spoilt : all[i].uncertainty # None
    BY <1>3 DEF SessionInv, SpoiltInv
  <2>3. \A i \in 1 .. Len(all) : Sound(all[i], i, owner) BY <1>3
  <2> HIDE DEF ResponseInv
  <2> QED BY <1>1, <1>3, <1>4, <2>1, <2>2, <2>3, FinalizeWithKeeps
<1>6. /\ attempts' = JudgedAttempts(all)
      /\ summary' # None => summary'.completion = Completion
  BY <1>1 DEF FinalizeWith
<1>7. /\ Len(attempts') = Len(attempts)
      /\ \A i \in 1 .. Len(attempts') : Closed(attempts'[i])
      /\ attempts # <<>> => LastAttempt'.completion = LastAttempt.completion
  <2>1. /\ Len(attempts') = Len(attempts)
        /\ \A i \in 1 .. Len(attempts) : attempts'[i] = Judged(all[i])
    <3>1. attempts' = [i \in 1 .. Len(attempts) |-> Judged(all[i])]
      BY <1>3, <1>6 DEF JudgedAttempts
    <3> QED BY <1>2, <3>1
  <2>2. \A i \in 1 .. Len(attempts) : attempts'[i].completion = attempts[i].completion
    BY <1>3, <2>1, JudgedCompletion DEF Sound
  <2>3. \A i \in 1 .. Len(attempts) : Closed(attempts'[i])
    <3>1. ASSUME NEW i \in 1 .. Len(attempts) PROVE Closed(Judged(all[i]))
      <4>1. all[i] \in Attempt BY <1>3 DEF Sound
      <4>2. "finish_missing" # None /\ "observer_failure" # None
        BY ReasonAssumption DEF UncertaintyReason
      <4> QED BY <4>1, <4>2 DEF Judged, Closed, Attempt
    <3> QED BY <2>1, <3>1
  <2>4. attempts # <<>> => Len(attempts) \in 1 .. Len(attempts) BY <1>2
  <2> QED BY <2>1, <2>2, <2>3, <2>4 DEF LastAttempt
<1>8. Script' /\ Emission' /\ Remembered'
  BY <1>1 DEF Script, Emission, Remembered, sendVars
<1>9. StreamTypeInv' BY <1>1 DEF StreamTypeInv, Stage, genVars, sendVars, endVars
<1>10. Progress' BY <1>1 DEF Progress, genVars
<1>11. Voice' BY <1>1 DEF Voice, genVars, sendVars
<1>12. Recorded'
  <2>1. attempts = <<>> => attempts' = <<>>
    <3>1. attempts = <<>> => Len(attempts') = 0 BY <1>7
    <3>2. attempts' \in Seq(Attempt) BY <1>5 DEF SessionInv, AttemptsInv
    <3> QED BY <3>1, <3>2
  <2>2. Allowed' = Allowed /\ Observed' = Observed BY DEF Allowed, Observed
  <2> QED BY <1>1, <1>7, <2>1, <2>2 DEF Recorded, genVars
<1>13. LeftClosed'
  <2>1. gen' = gen /\ gen.at # "closing" BY <1>1 DEF genVars, Progress
  <2> QED BY <1>7, <2>1 DEF LeftClosed
<1>14. StopInv'
  <2>1. Stops' => Stops BY <1>1 DEF Stops, genVars, sendVars
  <2>2. attempts # <<>> => attempts' # <<>>
    BY <1>2, <1>7
  <2> QED BY <1>1, <1>7, <2>1, <2>2 DEF StopInv, genVars, Observed
<1>15. Drawing'
  BY <1>1, <1>4, <1>6 DEF Drawing, sendVars, endVars
<1> QED BY <1>5, <1>8, <1>9, <1>10, <1>11, <1>12, <1>13, <1>14, <1>15

-----------------------------------------------------------------------------
(* The response: its theorems.                                             *)

LEMMA StreamStep ==
  ASSUME SessionInv, ResponseInv, [StreamNext]_streamVars
  PROVE  SessionInv' /\ ResponseInv'
<1>1. CASE UNCHANGED streamVars
  <2>1. UNCHANGED <<accountingVars, genVars, stage, sendVars, endVars, bound, provider>>
    BY <1>1 DEF streamVars
  <2>2. SessionInv' BY <2>1, SessionStays
  <2>3. bound' \in BOOLEAN BY <2>1 DEF ResponseInv, StreamTypeInv
  <2> QED BY <2>1, <2>2, <2>3, RestKeeps
<1>2. CASE Adapter
  <2>1. provider' = provider BY <1>2 DEF Adapter
  <2>2. CASE StartAttempt BY <2>1, <2>2, StartAttemptKeeps
  <2>3. CASE UpstreamUsage BY <2>1, <2>3, UpstreamUsageKeeps
  <2>4. CASE UpstreamText
    <3>1. UNCHANGED accountingVars BY <2>4 DEF UpstreamText
    <3> QED BY <2>1, <2>4, <3>1, SessionStays, UpstreamTextKeeps
  <2>5. CASE UpstreamEnds
    <3>1. UNCHANGED accountingVars BY <2>5 DEF UpstreamEnds
    <3> QED BY <2>1, <2>5, <3>1, SessionStays, UpstreamEndsKeeps
  <2>6. CASE UpstreamFails
    <3>1. UNCHANGED accountingVars BY <2>6 DEF UpstreamFails
    <3> QED BY <2>1, <2>6, <3>1, SessionStays, UpstreamFailsKeeps
  <2>7. CASE CleanupDone BY <2>1, <2>7, CleanupDoneKeeps
  <2> QED BY <1>2, <2>2, <2>3, <2>4, <2>5, <2>6, <2>7 DEF Adapter
<1>3. CASE Consumer
  <2>1. provider' = provider BY <1>3 DEF Consumer
  <2>2. CASE SendDone
    <3>1. UNCHANGED accountingVars BY <2>2 DEF SendDone
    <3> QED BY <2>1, <2>2, <3>1, SessionStays, SendDoneKeeps
  <2>3. CASE Retrieve
    <3>1. UNCHANGED accountingVars BY <2>3 DEF Retrieve
    <3> QED BY <2>1, <2>3, <3>1, SessionStays, RetrieveKeeps
  <2>4. CASE Fetch
    <3>1. UNCHANGED accountingVars BY <2>4 DEF Fetch
    <3> QED BY <2>1, <2>4, <3>1, SessionStays, FetchKeeps
  <2>5. CASE DeliverText
    <3>1. UNCHANGED accountingVars BY <2>5 DEF DeliverText
    <3> QED BY <2>1, <2>5, <3>1, SessionStays, DeliverTextKeeps
  <2>6. CASE DeliverEnd
    <3>1. UNCHANGED accountingVars BY <2>6 DEF DeliverEnd
    <3> QED BY <2>1, <2>6, <3>1, SessionStays, DeliverEndKeeps
  <2>7. CASE CloseProvider
    <3>1. UNCHANGED accountingVars BY <2>7 DEF CloseProvider
    <3> QED BY <2>1, <2>7, <3>1, SessionStays, CloseProviderKeeps
  <2>8. CASE BodyEnds
    <3>1. UNCHANGED accountingVars BY <2>8 DEF BodyEnds
    <3> QED BY <2>1, <2>8, <3>1, SessionStays, BodyEndsKeeps
  <2>9. CASE Settle BY <2>1, <2>9, SettleKeeps
  <2> QED BY <1>3, <2>2, <2>3, <2>4, <2>5, <2>6, <2>7, <2>8, <2>9 DEF Consumer
<1>4. CASE Environment
  <2>1. provider' = provider BY <1>4 DEF Environment
  <2>2. CASE TimerLapses
    <3>1. UNCHANGED accountingVars BY <2>2 DEF TimerLapses
    <3> QED BY <2>1, <2>2, <3>1, SessionStays, TimerLapsesKeeps
  <2>3. CASE Unbind
    <3>1. /\ UNCHANGED <<accountingVars, genVars, stage, sendVars, endVars>>
          /\ bound' \in BOOLEAN
      BY <2>3 DEF Unbind
    <3> QED BY <2>1, <3>1, SessionStays, RestKeeps
  <2>4. CASE Ping
    <3>1. UNCHANGED accountingVars BY <2>4 DEF Ping
    <3> QED BY <2>1, <2>4, <3>1, SessionStays, PingKeeps
  <2>5. CASE Cancel BY <2>1, <2>5, InterruptKeeps DEF Cancel
  <2>6. CASE SendFails BY <2>1, <2>6, InterruptKeeps DEF SendFails
  <2> QED BY <1>4, <2>2, <2>3, <2>4, <2>5, <2>6 DEF Environment
<1> QED BY <1>1, <1>2, <1>3, <1>4 DEF StreamNext

LEMMA StreamInvariant == StreamSpec => [](SessionInv /\ ResponseInv)
BY StreamInitial, StreamStep, PTL DEF StreamSpec

\* The types of the response's state, and where its adapter may be at each
\* stage of it (stream_with_pings, chat_event_stream).
THEOREM StreamTypeCorrect == StreamSpec => [](StreamTypeInv /\ Progress)
<1>1. ASSUME ResponseInv PROVE StreamTypeInv /\ Progress
  BY <1>1 DEF ResponseInv
<1> QED BY <1>1, StreamInvariant, PTL

\* The client never hears two attempts, for any number of them and of items,
\* pings and failures (GeminiProvider.stream, observed_item).
THEOREM OneVoiceOnly == StreamSpec => []OneVoice
<1>1. ASSUME ResponseInv PROVE OneVoice
  <2>1. heard = {} \/ heard = {gen.attempt} BY <1>1 DEF ResponseInv, Voice
  <2>2. Cardinality({}) = 0 BY FS_EmptySet
  <2>3. Cardinality({gen.attempt}) = 1 BY FS_Singleton
  <2> QED BY <2>1, <2>2, <2>3 DEF OneVoice
<1> QED BY <1>1, StreamInvariant, PTL

\* No way out of the adapter leaves an attempt nobody judged for the summary
\* to be drawn over (the adapters' except and finally clauses).
THEOREM AllJudgedAtSettling == StreamSpec => []NothingLeftOpen
<1>1. ASSUME SessionInv, ResponseInv PROVE NothingLeftOpen
  <2> SUFFICES ASSUME stage = "settling", NEW i \in DOMAIN attempts PROVE Closed(attempts[i])
    BY DEF NothingLeftOpen
  <2>1. gen.at \in {"fresh", "closed"} BY <1>1 DEF ResponseInv, Progress
  <2>2. i \in 1 .. Len(attempts) BY <1>1 DEF SessionInv, AttemptsInv
  <2> QED BY <1>1, <2>1, <2>2, JudgedOutside
<1> QED BY <1>1, StreamInvariant, PTL

\* A request accounted as completed was delivered whole, and an answer that
\* was delivered whole is of an attempt accounted as completed
\* (ChatResponse's completion, attempt_finished).
THEOREM CompletedWasDelivered == StreamSpec => []CompletedIsDelivered
<1>1. ASSUME ResponseInv PROVE CompletedIsDelivered
  <2>1. "stop" # None BY TerminalAssumption DEF Terminal
  <2>2. delivered = "stop" => last = "stop" BY <1>1, <2>1 DEF ResponseInv, Remembered
  <2>3. summary # None /\ summary.completion = "completed" =>
          delivered = "stop" /\ cause = None /\ ~ cleanupFailed
    BY <1>1 DEF ResponseInv, Drawing
  <2>4. last = "stop" /\ Observed => LastAttempt.completion = "completed"
    BY <1>1 DEF ResponseInv, StopInv, Stops
  <2> QED BY <2>2, <2>3, <2>4 DEF CompletedIsDelivered
<1> QED BY <1>1, StreamInvariant, PTL

\* Every upstream call is one the policy allows and one the session recorded
\* before it was made (observe_attempt_started); without an observer there is
\* nothing to account for.
CallsRecorded ==
  /\ calls <= Allowed
  /\ IF Observed THEN Len(attempts) = calls ELSE attempts = <<>>

THEOREM EveryCallRecorded == StreamSpec => []CallsRecorded
<1>1. ASSUME ResponseInv PROVE CallsRecorded
  BY <1>1 DEF ResponseInv, Recorded, CallsRecorded
<1> QED BY <1>1, StreamInvariant, PTL

\* What the session guarantees of any observer holds of the responses, whose
\* settlement may also find the cleanup failed.
THEOREM ResponseAccounted ==
  StreamSpec => [](DoubtIsCharged /\ SummaryAvailable /\ GroundedOnce /\ RetryFollowsError)
<1>1. ASSUME SessionInv
      PROVE  DoubtIsCharged /\ SummaryAvailable /\ GroundedOnce /\ RetryFollowsError
  BY <1>1, DoubtCharged, SummaryThere, GroundedThere DEF SessionInv
<1> QED BY <1>1, StreamInvariant, PTL

-----------------------------------------------------------------------------
(* The response keeps the promise of ChatEvents.                           *)

LEMMA PromiseInitial ==
  ASSUME StreamInit
  PROVE  Promise!Init
BY DEF StreamInit, Promise!Init

LEMMA PromiseStep ==
  ASSUME ResponseInv, [StreamNext]_streamVars
  PROVE  [Promise!Next]_(Promise!eventVars)
<1> USE DEF Promise!eventVars
<1>1. ASSUME last' = last, (stage' = "done") = (stage = "done")
      PROVE  UNCHANGED Promise!eventVars
  BY <1>1
<1>2. CASE UNCHANGED streamVars
  BY <1>1, <1>2 DEF streamVars, sendVars
<1>3. CASE Adapter
  <2>1. last' = last
    BY <1>3 DEF Adapter, StartAttempt, UpstreamUsage, UpstreamText, UpstreamEnds, UpstreamFails,
                CleanupDone, sendVars
  <2>2. CASE CleanupDone
    <3>1. stage # "done" BY <2>2 DEF CleanupDone, ResponseInv, Progress
    <3>2. stage' \in {"streaming", "unwinding", stage} BY <2>2 DEF CleanupDone
    <3> QED BY <1>1, <2>1, <3>1, <3>2
  <2>3. CASE ~ CleanupDone
    <3>1. stage' = stage
      BY <1>3, <2>3 DEF Adapter, StartAttempt, UpstreamUsage, UpstreamText, UpstreamEnds,
                        UpstreamFails
    <3> QED BY <1>1, <2>1, <3>1
  <2> QED BY <2>2, <2>3
<1>4. CASE SendDone
  <2>1. CASE Head(outbox) = "ping"
    BY <1>1, <1>4, <2>1 DEF SendDone
  <2>2. CASE Head(outbox) # "ping"
    <3>1. last' = Head(outbox) /\ stage' = stage /\ stage # "done"
      BY <1>4, <2>2 DEF SendDone
    <3>2. last' \in Promise!Follows(last)
      <4> DEFINE e == Head(outbox)
      <4>1. \/ last = "none" /\ e = "retrieving"
            \/ last = "retrieving" /\ e \in {"refusing", "citations", "generating"}
            \/ last = "refusing" /\ e = "refusal"
            \/ last = "refusal" /\ e = "refused"
            \/ last = "citations" /\ e = "generating"
            \/ last = "generating" /\ e \in {"chunk", "stop", "error"}
            \/ last = "chunk" /\ e \in {"chunk", "stop", "limit", "error"}
        BY <1>4, <2>2, SendSteps
      <4> HIDE DEF e
      <4>2. e \in Promise!Follows(last) BY <4>1 DEF Promise!Follows, Promise!Terminal
      <4> QED BY <3>1, <4>2 DEF e
    <3>3. Promise!Send BY <3>1, <3>2 DEF Promise!Send
    <3> QED BY <3>3 DEF Promise!Next
  <2> QED BY <2>1, <2>2
<1>5. CASE Settle
  <2>1. last' = last /\ stage = "settling" /\ stage' = "done" BY <1>5 DEF Settle, sendVars
  <2>2. Promise!End BY <2>1 DEF Promise!End
  <2> QED BY <2>2 DEF Promise!Next
<1>6. CASE Consumer /\ ~ SendDone /\ ~ Settle
  <2>1. last' = last
    BY <1>6 DEF Consumer, Retrieve, Fetch, DeliverText, DeliverEnd, CloseProvider, BodyEnds,
                sendVars
  <2>2. stage' = stage \/ (stage # "done" /\ stage' # "done")
    BY <1>6 DEF Consumer, Retrieve, Fetch, DeliverText, DeliverEnd, CloseProvider, BodyEnds, Idle
  <2> QED BY <1>1, <2>1, <2>2
<1>7. CASE Environment
  <2>1. last' = last
    BY <1>7 DEF Environment, TimerLapses, Unbind, Ping, Cancel, SendFails, Interrupt, sendVars
  <2>2. stage' = stage \/ (stage # "done" /\ stage' # "done")
    BY <1>7 DEF Environment, TimerLapses, Unbind, Ping, Cancel, SendFails, Interrupt
  <2> QED BY <1>1, <2>1, <2>2
<1> QED BY <1>2, <1>3, <1>4, <1>5, <1>6, <1>7 DEF StreamNext

\* Every response keeps the grammar of its events: the response implements
\* ChatEvents, whatever its provider, its client and the server do.
THEOREM PromisesAreKept == StreamSpec => PromisesKept
<1>1. StreamInit => Promise!Init BY PromiseInitial
<1>2. ResponseInv /\ [StreamNext]_streamVars => [Promise!Next]_(Promise!eventVars)
  BY PromiseStep
<1> QED BY <1>1, <1>2, StreamInvariant, PTL DEF StreamSpec, PromisesKept, Promise!Spec

=============================================================================
