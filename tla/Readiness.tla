------------------------------- MODULE Readiness ------------------------------
(***************************************************************************)
(* The readiness of an application (readiness.py, served at /readyz): an   *)
(* evaluator asks one probe after another, most of them over a network,    *)
(* and turns their answers into nine checks.  Evaluations run side by      *)
(* side.  All they share is the filter that keeps the transport's logs out *)
(* while the catalog of Ollama is read.                                    *)
(*                                                                         *)
(* The probes belong to the world: each answers as it likes when it is     *)
(* asked, so a dependency may change between two questions.                *)
(***************************************************************************)
EXTENDS Integers, FiniteSets

CONSTANTS
  Evaluation,
  Compositions,   \* bound: the compositions of an application considered
  Answers         \* bound: the answers each probe gives

\* Profile of the retrieval route, and whether it may be composed at all;
\* provider and embedding, and whether their models have names Ollama can
\* have; the budget's probe, if any.
Composition ==
  [profile : {"local_static", "firestore_static", "lifecycle_exact"}, valid : BOOLEAN,
   provider : {"echo", "gemini", "ollama"}, provider_named : BOOLEAN,
   embedding : {"fake", "ollama"}, embedding_named : BOOLEAN, budget : BOOLEAN]

VARIABLES
  app,      \* the composition
  at,       \* where each evaluation is
  checks,   \* each evaluation's checks so far, by dimension
  heard,    \* what each evaluation was answered, by dimension
  users,    \* _TRANSPORT_LOG_FILTER_USERS
  filtered  \* whether the loggers of the transport have the filter

vars == <<app, at, checks, heard, users, filtered>>

-----------------------------------------------------------------------------
(* Checks.                                                                 *)

Dimension == {"database", "vector_store", "corpus", "provider", "model", "embedding",
              "exact_corpus", "budget", "deployment_mode"}

Check(state, required, reason) == [state |-> state, required |-> required, reason |-> reason]
Ready == Check("ready", TRUE, "ready")
NotReady(reason) == Check("not_ready", TRUE, reason)
Unknown(reason) == Check("unknown", TRUE, reason)
NotRequired == Check("not_required", FALSE, "not_required")

NegativeReasons ==
  [d \in Dimension |->
     CASE d \in {"database", "corpus", "deployment_mode"} -> {"unavailable"}
       [] d = "vector_store" -> {"unreachable", "store_unready"}
       [] d = "provider" -> {"unreachable"}
       [] d = "model" -> {"model_missing"}
       [] d = "embedding" -> {"unreachable", "model_missing"}
       [] d = "exact_corpus" -> {"exact_corpus_unready"}
       [] d = "budget" -> {"budget_exhausted", "budget_overrun"}]

\* ReadinessCheck.validate_relation: a check that fails it raises.
Valid(d, c) ==
  \/ c.state = "ready" /\ c.reason = "ready"
  \/ c.state = "not_required" /\ ~c.required /\ c.reason = "not_required"
  \/ c.state = "not_ready" /\ c.required /\ c.reason \in NegativeReasons[d]
  \/ /\ c.state = "unknown" /\ c.required
     /\ \/ c.reason \in {"unavailable", "misconfigured"}
        \/ d = "budget" /\ c.reason = "accounting_uncertain"

-----------------------------------------------------------------------------
(* What each answer comes to.                                              *)

\* A probe that raises, and one that answers what it may not.
Failures == {"unavailable", "misconfigured"}

Names == {"provider_model", "embedding_model"}

\* OllamaCatalogProbe: unreachable too when the time is up; a body that is too
\* long, cannot be parsed or cannot be closed is no answer.
CatalogAnswer ==
  [kind : {"unreachable"} \cup Failures, names : {{}}] \cup
  [kind : {"reached"}, names : SUBSET Names]

Answer ==
  [database |-> {"yes", "no"} \cup Failures,
   corpus |-> {"yes", "no"} \cup Failures,
   deployment_mode |-> {"yes", "no"} \cup Failures,
   route |-> {"exact", "static", "store_unready", "unreachable"} \cup Failures,
   gemini |-> {"serves", "model_missing", "unreachable"} \cup Failures,
   catalog |-> CatalogAnswer,
   budget |-> {"ready", "budget_exhausted", "budget_overrun", "accounting_uncertain"} \cup Failures]

\* What the bounds are.
ReadinessBounds ==
  /\ Compositions \subseteq Composition
  /\ DOMAIN Answers = DOMAIN Answer /\ \A p \in DOMAIN Answer : Answers[p] \subseteq Answer[p]

Boolean(answer) ==
  CASE answer = "yes" -> Ready
    [] answer = "no" -> NotReady("unavailable")
    [] OTHER -> Unknown(answer)

VectorCheck(route, beats) ==
  IF route \in Failures THEN Unknown(route)
  ELSE IF ~beats \/ route = "unreachable" THEN NotReady("unreachable")
  ELSE IF route = "store_unready" THEN NotReady("store_unready")
  ELSE Ready

ExactCheck(route) ==
  IF app.profile # "lifecycle_exact" THEN NotRequired
  ELSE IF route \in Failures THEN Unknown(route)
  ELSE IF route \in {"unreachable", "store_unready"} THEN Unknown("unavailable")
  ELSE IF route = "static" THEN NotReady("exact_corpus_unready")
  ELSE Ready

\* Provider and model, of an answer of Gemini.
GeminiChecks(answer) ==
  CASE answer \in Failures -> [provider |-> Unknown(answer), model |-> Unknown(answer)]
    [] answer = "unreachable" -> [provider |-> NotReady(answer), model |-> Unknown("unavailable")]
    [] answer = "model_missing" -> [provider |-> Ready, model |-> NotReady(answer)]
    [] OTHER -> [provider |-> Ready, model |-> Ready]

ModelCheck(catalog, name) ==
  IF name \in catalog.names THEN Ready ELSE NotReady("model_missing")

\* Provider and model, of an answer of Ollama.
OllamaChecks(catalog) ==
  CASE catalog.kind \in Failures ->
         [provider |-> Unknown(catalog.kind), model |-> Unknown(catalog.kind)]
    [] catalog.kind = "unreachable" ->
         [provider |-> NotReady("unreachable"), model |-> Unknown("unavailable")]
    [] OTHER -> [provider |-> Ready, model |-> ModelCheck(catalog, "provider_model")]

EmbeddingCheck(catalog) ==
  CASE catalog.kind \in Failures -> Unknown(catalog.kind)
    [] catalog.kind = "unreachable" -> NotReady("unreachable")
    [] OTHER -> ModelCheck(catalog, "embedding_model")

BudgetCheck(answer) ==
  CASE answer = "ready" -> Ready
    [] answer \in {"budget_exhausted", "budget_overrun"} -> NotReady(answer)
    [] OTHER -> Unknown(answer)

-----------------------------------------------------------------------------
(* An evaluation.                                                          *)

Adds(e, new, said) ==
  LET Joined(f, g) ==
        [d \in DOMAIN f \cup DOMAIN g |-> IF d \in DOMAIN f THEN f[d] ELSE g[d]]
  IN /\ checks' = [checks EXCEPT ![e] = Joined(@, new)]
     /\ heard' = [heard EXCEPT ![e] = Joined(@, said)]

Moves(e, from, to) == at[e] = from /\ at' = [at EXCEPT ![e] = to]

Init ==
  /\ app \in Compositions
  /\ at = [e \in Evaluation |-> "database"]
  /\ checks = [e \in Evaluation |-> <<>>] /\ heard = [e \in Evaluation |-> <<>>]
  /\ users = 0 /\ filtered = FALSE

Database(e) ==
  /\ Moves(e, "database", "route")
  /\ \E answer \in Answers.database :
       Adds(e, [database |-> Boolean(answer)], [database |-> answer])
  /\ UNCHANGED <<app, users, filtered>>

\* The route's probe, which an invalid composition does not ask; the heartbeat
\* of the local store; the corpus.
RouteAnswers ==
  IF ~app.valid THEN {"misconfigured"}
  ELSE IF app.profile = "local_static" THEN Answers.route \ {"exact"} ELSE Answers.route

Beats == IF app.profile = "local_static" THEN BOOLEAN ELSE {TRUE}

RouteAndCorpus(e) ==
  /\ Moves(e, "route", "provider")
  /\ \E route \in RouteAnswers, beats \in Beats, corpus \in Answers.corpus :
       Adds(e, [vector_store |-> VectorCheck(route, beats), corpus |-> Boolean(corpus)],
               [route |-> route, beats |-> beats, corpus |-> corpus])
  /\ UNCHANGED <<app, users, filtered>>

\* Of the provider nothing is asked, or Gemini is.
Provider(e) ==
  /\ app.provider # "ollama" \/ ~app.provider_named
  /\ Moves(e, "provider", "embedding")
  /\ \/ /\ app.provider = "echo"
        /\ Adds(e, [provider |-> Ready, model |-> NotRequired], <<>>)
     \/ /\ app.provider = "gemini"
        /\ \E answer \in Answers.gemini : Adds(e, GeminiChecks(answer), [gemini |-> answer])
     \/ /\ app.provider = "ollama"
        /\ Adds(e, [provider |-> Unknown("misconfigured"), model |-> Unknown("misconfigured")], <<>>)
  /\ UNCHANGED <<app, users, filtered>>

-----------------------------------------------------------------------------
(* The catalog of Ollama.                                                  *)

\* _without_transport_logs.
Suppress == users' = users + 1 /\ filtered' = TRUE

\* Mutant of Restore: whoever leaves takes the filter down.
RestoreAtOnce == users' = users - 1 /\ filtered' = FALSE

Restore == users' = users - 1 /\ filtered' = (users # 1)

Reading(e) == at[e] \in {"provider_catalog", "embedding_catalog"}

ReadForProvider(e) ==
  /\ app.provider = "ollama" /\ app.provider_named
  /\ Moves(e, "provider", "provider_catalog")
  /\ Suppress
  /\ UNCHANGED <<app, checks, heard>>

ProviderCatalog(e) ==
  /\ Moves(e, "provider_catalog", "embedding")
  /\ \E catalog \in Answers.catalog : Adds(e, OllamaChecks(catalog), [catalog |-> catalog])
  /\ Restore
  /\ UNCHANGED app

\* catalog_attempted.
Asked(e) == "catalog" \in DOMAIN heard[e]

\* The embedding uses the catalog the provider was judged by, if there is one.
Embedding(e) ==
  /\ app.embedding = "ollama" /\ app.embedding_named => Asked(e)
  /\ Moves(e, "embedding", "rest")
  /\ \/ /\ app.embedding = "fake"
        /\ Adds(e, [embedding |-> Ready], <<>>)
     \/ /\ app.embedding = "ollama" /\ ~app.embedding_named
        /\ Adds(e, [embedding |-> Unknown("misconfigured")], <<>>)
     \/ /\ app.embedding = "ollama" /\ app.embedding_named
        /\ Adds(e, [embedding |-> EmbeddingCheck(heard[e].catalog)], <<>>)
  /\ UNCHANGED <<app, users, filtered>>

ReadForEmbedding(e) ==
  /\ app.embedding = "ollama" /\ app.embedding_named /\ ~Asked(e)
  /\ Moves(e, "embedding", "embedding_catalog")
  /\ Suppress
  /\ UNCHANGED <<app, checks, heard>>

EmbeddingCatalog(e) ==
  /\ Moves(e, "embedding_catalog", "rest")
  /\ \E catalog \in Answers.catalog :
       Adds(e, [embedding |-> EmbeddingCheck(catalog)], [catalog |-> catalog])
  /\ Restore
  /\ UNCHANGED app

-----------------------------------------------------------------------------

\* The exact corpus, of the route's answer; the budget; the deployment mode.
Rest(e) ==
  /\ Moves(e, "rest", "done")
  /\ \E budget \in IF app.budget THEN Answers.budget ELSE {"none"}, mode \in Answers.deployment_mode :
       Adds(e, [exact_corpus |-> ExactCheck(heard[e].route),
                budget |-> IF app.budget THEN BudgetCheck(budget) ELSE NotRequired,
                deployment_mode |-> Boolean(mode)],
               [budget |-> budget, deployment_mode |-> mode])
  /\ UNCHANGED <<app, users, filtered>>

\* The request is cancelled at an await; a read that is under way restores
\* the transport's logs.
Cancel(e) ==
  /\ at[e] \in {"route", "provider", "provider_catalog", "embedding_catalog", "rest"}
  /\ at' = [at EXCEPT ![e] = "cancelled"]
  /\ IF Reading(e) THEN Restore ELSE UNCHANGED <<users, filtered>>
  /\ UNCHANGED <<app, checks, heard>>

Next ==
  \E e \in Evaluation :
    \/ Database(e) \/ RouteAndCorpus(e) \/ Provider(e)
    \/ ReadForProvider(e) \/ ProviderCatalog(e)
    \/ Embedding(e) \/ ReadForEmbedding(e) \/ EmbeddingCatalog(e)
    \/ Rest(e) \/ Cancel(e)

Spec == Init /\ [][Next]_vars

-----------------------------------------------------------------------------
(* The report.                                                             *)

Done(e) == at[e] = "done"

\* ReadinessReport.validate_report.
ReportReady(e) ==
  \A d \in Dimension : checks[e][d].required => checks[e][d].state = "ready"

\* public_readiness.
PublicChecks(e) ==
  [database |-> checks[e].database.state = "ready",
   vector_store |-> checks[e].vector_store.state = "ready",
   corpus |-> checks[e].corpus.state = "ready" /\
              checks[e].exact_corpus.state \in {"ready", "not_required"}]

-----------------------------------------------------------------------------

\* Whatever the probes answer, each check relates its state and reason as the
\* contract of its dimension says: an evaluation never raises.
EveryCheckStands ==
  \A e \in Evaluation : \A d \in DOMAIN checks[e] : Valid(d, checks[e][d])

\* Every dependency of the composition answered, in this evaluation, that it
\* serves.
Serves(e) ==
  LET h == heard[e]
      OllamaHas(name) == h.catalog.kind = "reached" /\ name \in h.catalog.names
  IN /\ h.database = "yes" /\ h.corpus = "yes" /\ h.deployment_mode = "yes"
     /\ app.valid
     /\ h.route \in IF app.profile = "lifecycle_exact" THEN {"exact"} ELSE {"exact", "static"}
     /\ app.profile = "local_static" => h.beats
     /\ app.provider = "gemini" => h.gemini = "serves"
     /\ app.provider = "ollama" => app.provider_named /\ OllamaHas("provider_model")
     /\ app.embedding = "ollama" => app.embedding_named /\ OllamaHas("embedding_model")
     /\ app.budget => h.budget = "ready"

\* An application is reported ready exactly when every dependency its
\* composition needs answered, in this evaluation, that it serves.
ReadyIsServing == \A e \in Evaluation : Done(e) => (ReportReady(e) <=> Serves(e))

\* The check was made of an answer.
Reached(check) == check.state = "ready" \/ check.reason = "model_missing"

\* One Ollama is judged once: provider and embedding never disagree in one
\* report on whether it could be asked and was reached, even if it comes or
\* goes meanwhile.
OllamaSpokeOnce ==
  \A e \in Evaluation :
    /\ Done(e) /\ app.provider = "ollama" /\ app.embedding = "ollama"
    /\ app.provider_named /\ app.embedding_named
    => LET provider == checks[e].provider
           embedding == checks[e].embedding
       IN /\ Reached(provider) <=> Reached(embedding)
          /\ provider.state = "unknown" <=> embedding.state = "unknown"

\* What could not be asked is not blamed: a model is reported missing only by
\* a provider that was reached, and an exact corpus is reported unready only
\* in a store that is not.
OutagesAreNotBlamed ==
  \A e \in Evaluation :
    Done(e) =>
      /\ checks[e].model.state \in {"ready", "not_ready"} => checks[e].provider.state = "ready"
      /\ checks[e].exact_corpus.state \in {"ready", "not_ready"} =>
           checks[e].vector_store.state = "ready"

\* The three public facts never contradict the status they are sent with.
PublicFactsAgree ==
  \A e \in Evaluation :
    Done(e) /\ ReportReady(e) =>
      \A fact \in DOMAIN PublicChecks(e) : PublicChecks(e)[fact]

\* The transport's logs are filtered as long as any evaluation reads the
\* catalog, and no longer, whichever of them ends first or is cancelled.
FilteredWhileRead == filtered <=> \E e \in Evaluation : Reading(e)
=============================================================================
