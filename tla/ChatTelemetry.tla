---------------------------- MODULE ChatTelemetry -----------------------------
(***************************************************************************)
(* The telemetry of chat responses (ChatTelemetryUnit and                  *)
(* ChatConcurrencyTracker of telemetry.py) along the life of a response    *)
(* (_ClosingStreamingResponse of api/chat.py): one unit per response, one  *)
(* tracker and one sink per application.  A unit works without awaiting,   *)
(* so its calls are atomic; responses interleave between them.             *)
(*                                                                         *)
(* The sink is the host's: a delivery may fail after any number of its     *)
(* events, the failing one included, with an Exception, which fuses the    *)
(* unit, or with a BaseException, which propagates.                        *)
(***************************************************************************)
EXTENDS Integers, Sequences, FiniteSets

CONSTANTS
  Request,
  None,
  MaxAttempts,   \* of the accounting policy
  MaxFaults      \* bound: deliveries that fail

\* What the policy and the bounds are; no response is the absent one.
TelemetryBounds == MaxAttempts \in 1 .. 2 /\ MaxFaults \in Nat /\ None \notin Request

VARIABLES
  unit,     \* each response's unit and where the response is
  told,     \* what the sink has accepted of each response
  active,   \* ChatConcurrencyTracker._active
  gauge,    \* the last ChatConcurrency value the sink accepted
  mover,    \* the last response that entered or left
  faults

vars == <<unit, told, active, gauge, mover, faults>>

-----------------------------------------------------------------------------
(* What one completion is projected to.                                    *)

TokenKinds == {"input", "cached_input", "output", "thinking", "total"}

\* An attempt is uncertain, or settled with no usage, or with the counts that
\* are positive and whether a total was reported, zero included.
Attempt ==
  {[usage |-> FALSE, positive |-> {}, reported |-> FALSE]} \cup
  {a \in [usage : {TRUE}, positive : SUBSET TokenKinds, reported : BOOLEAN] :
     "total" \in a.positive => a.reported}

EventsOf(a) == 1 + Cardinality(a.positive) + (IF a.reported THEN 1 ELSE 0)

\* The sizes of a summary's attempts.
Sizes ==
  LET sizes == {EventsOf(a) : a \in Attempt}
  IN {0} \cup sizes \cup
     (IF MaxAttempts = 2 THEN {i + j : i \in sizes, j \in sizes} ELSE {})

\* _project_chat_completion: the outcome, its duration, and the attempts.
Projected(size, timed) == 1 + (IF timed THEN 1 ELSE 0) + size

CompletionLimit == 16

\* Whether the projection of a summary is within the limit.
Fits == {Projected(size, timed) <= CompletionLimit : size \in Sizes, timed \in BOOLEAN}

-----------------------------------------------------------------------------
(* Deliveries.                                                             *)

\* How a delivery ends: [how, taken], taken counting the events accepted.
Well == [how |-> "well", taken |-> 0]
Fault(n) == [how : {"fails", "raises"}, taken : 0 .. n]
Deliveries(n) == {Well} \cup (IF faults < MaxFaults THEN Fault(n) ELSE {})
FaultsOf(d) == IF d = Well THEN 0 ELSE 1

\* A unit in the middle of a call: what it has told, whether it is fused, and
\* whether a BaseException is on its way out of it.
Telling(r) == [told |-> told[r], fused |-> unit[r].fused, raised |-> FALSE]

\* deliver_telemetry through the fuse.
Deliver(s, events, d) ==
  IF s.raised \/ s.fused \/ events = <<>> THEN s
  ELSE IF d = Well THEN [s EXCEPT !.told = @ \o events]
  ELSE [told |-> s.told \o SubSeq(events, 1, d.taken),
        fused |-> d.how = "fails", raised |-> d.how = "raises"]

Shown(before, after) == Len(after.told) > Len(before.told)

-----------------------------------------------------------------------------
(* The unit.                                                               *)

At(r, place) == unit[r].at = place
Counted == {r \in Request : unit[r].held}

Absent ==
  [at |-> "new", fused |-> FALSE, finished |-> FALSE, held |-> FALSE, first |-> FALSE,
   corpus |-> FALSE, summary |-> "none", raised |-> FALSE, rejected |-> FALSE]

Init ==
  /\ unit = [r \in Request |-> Absent]
  /\ told = [r \in Request |-> <<>>]
  /\ active = 0 /\ gauge = 0 /\ mover = None /\ faults = 0

\* The unit as its constructor leaves it: with its place, unless telling the
\* sink of it raised.
Entered(s, at) == [Absent EXCEPT !.at = at, !.fused = s.fused, !.held = ~s.raised]

\* ChatTelemetryUnit.__init__.  When it raises, the response is not started
\* (the controlled one settles its lease first).
Create(r) ==
  /\ At(r, "new")
  /\ \E d \in Deliveries(1), e \in Deliveries(1) :
       LET s0 == Deliver(Telling(r), <<"started">>, d)
           s1 == Deliver(s0, <<"gauge">>, e)
           new == Entered(s1, IF s1.raised THEN "ended" ELSE "open")
       IN /\ faults + FaultsOf(d) + FaultsOf(e) <= MaxFaults
          /\ unit' = [unit EXCEPT ![r] = IF s0.raised THEN [Absent EXCEPT !.at = "ended", !.raised = TRUE]
                                                      ELSE [new EXCEPT !.raised = s1.raised]]
          /\ told' = [told EXCEPT ![r] = s1.told]
          /\ active' = IF unit'[r].held THEN active + 1 ELSE active
          /\ gauge' = IF Shown(s0, s1) THEN active + 1 ELSE gauge
          /\ mover' = IF s0.raised THEN mover ELSE r
          /\ faults' = faults + FaultsOf(d) + FaultsOf(e)

\* One event told while the response streams; an exception ends the stream.
Tells(r, event, seen) ==
  \E d \in Deliveries(1) :
    LET s == Deliver(Telling(r), event, d)
    IN /\ unit' = [unit EXCEPT ![r] = [seen EXCEPT !.fused = s.fused,
                                                   !.at = IF s.raised THEN "closing" ELSE @]]
       /\ told' = [told EXCEPT ![r] = s.told]
       /\ faults' = faults + FaultsOf(d)
       /\ UNCHANGED <<active, gauge, mover>>

\* corpus: told once, of the route that was resolved or of none.
Corpus(r) ==
  /\ At(r, "open")
  /\ ~unit[r].corpus /\ ~unit[r].finished
  /\ Tells(r, <<"corpus">>, [unit[r] EXCEPT !.corpus = TRUE])

\* first_token: timed once, if the clock answers.
FirstToken(r) ==
  /\ At(r, "open")
  /\ ~unit[r].first /\ ~unit[r].finished
  /\ \E event \in {<<"token">>, <<>>} :
       Tells(r, event, [unit[r] EXCEPT !.first = TRUE])

-----------------------------------------------------------------------------
(* The response.                                                           *)

\* The stream ends, is cancelled or fails, and its body is closed, which may
\* fail as well.
CloseStream(r) ==
  /\ At(r, "open")
  /\ unit' = [unit EXCEPT ![r].at = "closing"]
  /\ UNCHANGED <<told, active, gauge, mover, faults>>

\* The accounting session, its owner and the controlled owner, one of which
\* draws the summary: none of them, failing or cancelled, stops the telemetry.
Settle(r) ==
  /\ At(r, "closing")
  /\ \E summary \in {"none", "ours", "foreign"} :
       unit' = [unit EXCEPT ![r].at = "settled", ![r].summary = summary]
  /\ UNCHANGED <<told, active, gauge, mover, faults>>

\* _release_concurrency: the place is given back, then the sink is told.
Leaves(r, d) == Deliver(Telling(r), <<"gauge">>, d)

\* Mutant of ValueOnLeave: the tracker is read before it is left.
ValueBeforeLeave == active

ValueOnLeave == active - 1

Finished(r, s, rejected) ==
  [unit[r] EXCEPT !.at = "ended", !.finished = TRUE, !.held = FALSE,
                  !.fused = s.fused, !.raised = s.raised, !.rejected = rejected]

\* s0: once the gauge is told; s: at the end.
Ends(r, s0, s, rejected) ==
  /\ unit' = [unit EXCEPT ![r] = Finished(r, s, rejected)]
  /\ told' = [told EXCEPT ![r] = s.told]
  /\ active' = IF unit'[r].held THEN active ELSE active - 1
  /\ gauge' = IF Shown(Telling(r), s0) THEN ValueOnLeave ELSE gauge
  /\ mover' = r

\* The outcome with the attempts' usage, then their costs.
Completion(s, d, e) ==
  Deliver(Deliver(s, <<"outcome", "usage">>, d), <<"cost">>, e)

\* complete: a summary of another provider's identity, or one projected past
\* the limit, is rejected whole.
Complete(r) ==
  /\ At(r, "settled") /\ unit[r].summary # "none"
  /\ \E fits \in Fits :
     \E d \in Deliveries(1), e \in Deliveries(2), f \in Deliveries(1) :
       LET s == Leaves(r, d)
           cost == FaultsOf(d) + FaultsOf(e) + FaultsOf(f)
       IN /\ faults + cost <= MaxFaults
          /\ faults' = faults + cost
          /\ IF unit[r].summary = "ours" /\ fits
             THEN Ends(r, s, Completion(s, e, f), FALSE)
             ELSE e = Well /\ f = Well /\ Ends(r, s, s, ~s.raised)

\* summary_missing.
SummaryMissing(r) ==
  /\ At(r, "settled") /\ unit[r].summary = "none"
  /\ \E d \in Deliveries(1) :
       LET s == Leaves(r, d)
       IN /\ faults' = faults + FaultsOf(d)
          /\ Ends(r, s, s, TRUE)

Next ==
  \E r \in Request :
    \/ Create(r) \/ Corpus(r) \/ FirstToken(r)
    \/ CloseStream(r) \/ Settle(r) \/ Complete(r) \/ SummaryMissing(r)

Spec == Init /\ [][Next]_vars

-----------------------------------------------------------------------------

\* The tracker counts the responses that are open and no other, whichever
\* deliveries failed or raised on the way in, on the way out or between.
ConcurrencyBalanced ==
  /\ active = Cardinality(Counted)
  /\ \A r \in Request : unit[r].held <=> At(r, "open") \/ At(r, "closing") \/ At(r, "settled")

\* The value the sink holds is the number of open responses, unless the last
\* response that came or went could not be told of.
StaleOnlyByFault ==
  gauge # active => mover # None /\ (unit[mover].fused \/ unit[mover].raised)

Times(r, event) == Cardinality({i \in DOMAIN told[r] : told[r][i] = event})

\* Of one response the sink is told a start, a corpus, a first token and an
\* outcome at most once each, and after the outcome only usage and costs.
OneOutcomeLast ==
  \A r \in Request :
    /\ \A event \in {"started", "corpus", "token", "outcome"} : Times(r, event) <= 1
    /\ \A i, j \in DOMAIN told[r] :
         i < j => /\ told[r][i] = "outcome" => told[r][j] \in {"usage", "cost"}
                  /\ told[r][i] = "cost" => told[r][j] = "cost"

\* A response with a summary of this application's provider has its outcome
\* told, unless a delivery failed: no summary the policy allows is too long.
AnswerIsTold ==
  \A r \in Request :
    At(r, "ended") /\ unit[r].summary = "ours" /\ ~unit[r].fused /\ ~unit[r].raised =>
      Times(r, "outcome") = 1
=============================================================================
