------------------------------- MODULE MCParts --------------------------------
(* Four parts of the backend, each alone with the callers and the faults it   *)
(* may meet: the accounting session under an observer that calls in any       *)
(* order, the application over its starts, stops and releases, the telemetry  *)
(* of two responses, and readiness, of one evaluation and of several.  The    *)
(* parts share no state, so no property of one depends on the steps of        *)
(* another: a behaviour is one part's, and the others stay as they are.       *)
EXTENDS RequestAccounting, Application, TLC

CONSTANTS gemini, ollama, standard, usd, Request, Evaluation, e1

VARIABLES
  part,                              \* the part a behaviour is about
  unit, told, active, gauge, mover,  \* of ChatTelemetry
  failed,                            \* its deliveries that failed
  app, at, checks, heard, users, filtered  \* of Readiness

-----------------------------------------------------------------------------
(* The accounting session.                                                 *)

\* A report of the counts given, in the order of the provider's metadata.
Counts(input, cached, output, thinking, total) ==
  [f \in Field |->
     CASE f = "input" -> input [] f = "cached" -> cached [] f = "output" -> output
       [] f = "thinking" -> thinking [] f = "total" -> total]

\* A complete report, one that goes backwards after it, one that misses the
\* thinking count, and two partial ones that are valid alone and not together.
Reports ==
  {Counts(1, 0, 1, 0, 2), Counts(1, 1, 2, None, None),
   Counts(0, None, None, None, None), Counts(None, 1, None, None, None)}

Rate == [uncached |-> 1, cached |-> 0, output |-> 2, thinking |-> 0]
Priced(id, tier, from) ==
  [id |-> id, owner |-> gemini, tier |-> tier, currency |-> usd, from |-> from,
   through |-> None, rate |-> Rate]

\* The second snapshot took effect without ending the first.
TwoPrices == {Priced(1, None, 0), Priced(2, None, 1), Priced(3, standard, 0)}

-----------------------------------------------------------------------------
(* Telemetry and readiness.                                                *)

Telemetry == INSTANCE ChatTelemetry WITH faults <- failed

\* Every composition the application can make: only the exact route can be
\* composed where it may not be, and without Ollama no name can be wrong.
Composed ==
  {c \in [profile : {"local_static", "firestore_static", "lifecycle_exact"}, valid : BOOLEAN,
          provider : {"echo", "gemini", "ollama"}, provider_named : BOOLEAN,
          embedding : {"fake", "ollama"}, embedding_named : BOOLEAN, budget : BOOLEAN] :
     /\ c.valid \/ c.profile = "lifecycle_exact"
     /\ c.provider # "ollama" => c.provider_named
     /\ c.embedding # "ollama" => c.embedding_named}

\* The boolean probes and the budget's answer in a few ways, the rest in every.
AnyAnswers ==
  [database |-> {"yes", "misconfigured"}, corpus |-> {"yes", "no"}, deployment_mode |-> {"yes"},
   route |-> {"exact", "static", "store_unready", "unreachable", "unavailable"},
   gemini |-> {"serves", "model_missing", "unreachable", "unavailable"},
   budget |-> {"ready", "budget_overrun", "accounting_uncertain"},
   catalog |-> {[kind |-> kind, names |-> {}] : kind \in {"unreachable", "unavailable"}} \cup
               {[kind |-> "reached", names |-> names] :
                  names \in SUBSET {"provider_model", "embedding_model"}}]

\* The catalog is reached or not; the other probes find what serves.
CatalogAnswers ==
  [AnyAnswers EXCEPT !.database = {"yes"}, !.corpus = {"yes"}, !.route = {"static", "exact"},
     !.gemini = {"serves"}, !.budget = {"ready"},
     !.catalog = {[kind |-> "unreachable", names |-> {}],
                  [kind |-> "reached", names |-> {"provider_model", "embedding_model"}]}]

\* One evaluation of whatever is answered, and several that may read at once.
Lone == INSTANCE Readiness
  WITH Compositions <- Composed, Answers <- AnyAnswers, Evaluation <- {e1}
Several == INSTANCE Readiness WITH Compositions <- Composed, Answers <- CatalogAnswers

ASSUME BoundsAssumption == Telemetry!TelemetryBounds /\ Lone!ReadinessBounds /\ Several!ReadinessBounds

-----------------------------------------------------------------------------
(* The parts.                                                              *)

applicationVars == vars
telemetryVars == <<unit, told, active, gauge, mover, failed>>
readinessVars == <<app, at, checks, heard, users, filtered>>

PartsInit ==
  /\ part \in {"accounting", "application", "telemetry", "one_evaluation", "evaluations"}
  /\ AccountingInit
  /\ IF part = "application" THEN Init
     ELSE Init /\ release = 1 /\ uses = [r \in Resource |-> "owned"]
  /\ Telemetry!Init
  /\ \/ part = "one_evaluation" /\ Lone!Init
     \/ part = "evaluations" /\ Several!Init
     \/ /\ part \notin {"one_evaluation", "evaluations"}
        /\ app = None /\ at = None /\ checks = <<>> /\ heard = <<>>
        /\ users = 0 /\ filtered = FALSE

PartsNext ==
  \/ /\ part = "accounting" /\ AccountingNext
     /\ UNCHANGED <<part, applicationVars, telemetryVars, readinessVars>>
  \/ /\ part = "application" /\ Next
     /\ UNCHANGED <<part, accountingVars, telemetryVars, readinessVars>>
  \/ /\ part = "telemetry" /\ Telemetry!Next
     /\ UNCHANGED <<part, accountingVars, applicationVars, readinessVars>>
  \/ /\ \/ part = "one_evaluation" /\ Lone!Next
        \/ part = "evaluations" /\ Several!Next
     /\ UNCHANGED <<part, accountingVars, applicationVars, telemetryVars>>

PartsSpec ==
  PartsInit /\ [][PartsNext]_<<part, accountingVars, applicationVars, telemetryVars, readinessVars>>

\* Responses are only compared with one another.
Symmetry == Permutations(Request)

-----------------------------------------------------------------------------
(* Properties of the parts that are instances here.                        *)

\* Whatever the deliveries to the sink do: the tracker counts the responses that
\* are open, the value the sink holds is stale only when the last response that
\* came or went could not be told of, and of one response the sink hears each
\* event once, in order, and its outcome unless a delivery failed
\* (ChatConcurrencyTracker, ChatTelemetryUnit).
TelemetryIsTrue ==
  part = "telemetry" =>
    /\ Telemetry!ConcurrencyBalanced /\ Telemetry!StaleOnlyByFault
    /\ Telemetry!OneOutcomeLast /\ Telemetry!AnswerIsTold

\* A report says ready exactly when all that the composition needs answered so,
\* blames what was asked and nothing else, judges an Ollama it asks for two
\* models once, and never fails its own contract; the transport's logs are
\* filtered as long as any evaluation reads the catalog, and no longer,
\* whichever ends first or is cancelled (ReadinessEvaluator,
\* suppress_transport_logs).
ReadinessIsTrue ==
  /\ part = "one_evaluation" =>
       /\ Lone!EveryCheckStands /\ Lone!ReadyIsServing /\ Lone!OllamaSpokeOnce
       /\ Lone!OutagesAreNotBlamed /\ Lone!PublicFactsAgree
  /\ part = "evaluations" => Several!FilteredWhileRead
===============================================================================
