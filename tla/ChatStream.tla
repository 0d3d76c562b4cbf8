----------------------------- MODULE ChatStream -----------------------------
(***************************************************************************)
(* One chat response without endpoint controls, from its first event to    *)
(* the settlement of its accounting session: the provider adapter with its *)
(* attempts and its retry, stream_with_pings, which runs each step of the  *)
(* adapter in a task of its own, chat_event_stream, and the response that  *)
(* sends the events and settles.  The adapter is a generator: it runs only *)
(* while a task is fetching its next item, and closing it throws an exit   *)
(* at the yield it is suspended at.  Between two awaits nothing else runs, *)
(* so an action is the code from one await or yield to the next.           *)
(*                                                                         *)
(* A client may stop reading or disconnect, the server may cancel, the     *)
(* upstream may answer, fail, or fall silent, and closing it may fail.     *)
(***************************************************************************)
EXTENDS RequestAccounting

CONSTANTS
  Provider,     \* adapters a response may have: "gemini", "ollama", "echo"
  MaxOutput,    \* max_output_chars
  ChunkSize,    \* sizes of the texts an upstream sends
  MaxItems,     \* bound: items an upstream sends
  MaxPings      \* bound: pings

\* The application's sessions all have a policy (provider_attempt_policy).
ASSUME ProviderAssumption ==
  Provider \subseteq {"gemini", "ollama", "echo"} /\ MaxAttempts >= 1 /\ Policy \in Owner
ASSUME OutputAssumption == MaxOutput \in Nat \ {0} /\ ChunkSize \subseteq Nat \ {0}

VARIABLES
  provider,  \* the adapter of this response
  gen,       \* the adapter's generator
  task,      \* what the fetch of its next item came to
  fetches,   \* fetches made: the number of the current fetch's task
  items,     \* items the upstream sent
  calls,     \* upstream calls made
  bound,     \* the provider still is the one the application bound
  stage,     \* how far chat_event_stream is
  outbox,    \* events to send before it goes on, the first being sent
  last,      \* the last event sent, pings apart
  heard,     \* attempts whose text was sent to the client
  emitted,   \* characters put into the outbox
  pings,     \* pings sent
  cause,     \* why the response is being cancelled, None if it is not
  inSend,    \* it was cancelled in a send
  cleanupFailed, \* closing the body raised
  delivered  \* the terminal event that was sent, None if none was

genVars == <<gen, task, fetches, items, calls>>
sendVars == <<outbox, last, heard, emitted, pings, delivered>>
endVars == <<cause, inSend, cleanupFailed>>
streamVars == <<accountingVars, provider, genVars, bound, stage, sendVars, endVars>>

Terminal == {"refused", "stop", "limit", "error"}
ASSUME TerminalAssumption == None \notin Terminal

Observed == provider # "echo"
\* Only Gemini's policy has a retry.
Allowed == IF provider = "gemini" THEN MaxAttempts ELSE 1
CurrentIdentity == [owner |-> Policy, number |-> gen.attempt]

NewGenerator ==
  [at |-> "fresh", attempt |-> 0, timer |-> 0, lapsed |-> FALSE, observed |-> FALSE,
   held |-> 0, ending |-> None]

-----------------------------------------------------------------------------
(* The provider adapter.                                                   *)

\* A task is running the generator, or the consumer is closing it.
Running(at) == task.kind = "running" /\ gen.at = at
Pending == [kind |-> "running"]
NoTask == [kind |-> "none"]
Failed == [kind |-> "failed"]

\* The observer checks that the provider is still the one that was bound,
\* and the session that the attempt may start, before any upstream call.
MayStart(id) == bound /\ Startable(id)

\* The attempt loop begins an attempt: recorded first, then called.
StartAttempt ==
  /\ task.kind = "running"
  /\ gen.at \in {"fresh", "backoff"}
  /\ LET id == [owner |-> Policy, number |-> gen.attempt + 1]
         refused == Observed /\ ~ MayStart(id)
     IN /\ IF Observed /\ ~ refused THEN AttemptStarted(id) ELSE UNCHANGED accountingVars
        /\ gen' = IF refused THEN [gen EXCEPT !.at = "closed"]
                  ELSE [NewGenerator EXCEPT !.at = "calling", !.attempt = gen.attempt + 1,
                                            !.timer = fetches]
        /\ task' = IF refused THEN Failed ELSE task
        /\ calls' = IF refused THEN calls ELSE calls + 1
  /\ UNCHANGED <<fetches, items, bound, stage, sendVars, endVars>>

\* The generator leaves its stream and closes it before it goes on.
Leave(ending) == gen' = [gen EXCEPT !.at = "closing", !.ending = ending]

\* An item with usage: merged into what the attempt reported, observed by
\* the session and yielded.  A tier or a count that cannot be merged fails
\* the attempt; a report the session refuses ends the stream.
UpstreamUsage ==
  /\ Running("calling") /\ Observed /\ items < MaxItems
  /\ provider = "ollama" => LastAttempt.usage = None
  /\ items' = items + 1
  /\ \E u \in Reported, t \in IF provider = "ollama" THEN {None} ELSE Tier \cup {None} :
       LET known == LastAttempt.usage
           update == [tier |-> t]
           chunk == [owner |-> Policy, number |-> gen.attempt,
                     tier |-> IF LastAttempt.tier = None THEN t ELSE LastAttempt.tier,
                     usage |-> IF known = None THEN u ELSE Merged(known, u)]
       IN IF known # None /\ ~ (SameTier(LastAttempt, update) /\ Cumulative(known, u))
          THEN /\ gen' = [gen EXCEPT !.at = "closing", !.ending = "fatal", !.observed = TRUE]
               /\ UNCHANGED <<accountingVars, task>>
          ELSE /\ UsageObserved(chunk)
               /\ IF UsageAccepted(chunk)
                  THEN /\ gen' = [gen EXCEPT !.at = "item", !.observed = TRUE]
                       /\ task' = [kind |-> "usage"]
                  ELSE /\ gen' = [gen EXCEPT !.at = "closing", !.ending = "refused",
                                             !.observed = TRUE]
                       /\ UNCHANGED task
  /\ UNCHANGED <<fetches, calls, bound, stage, sendVars, endVars>>

Text(size) == [kind |-> "text", size |-> size]

\* An item with text: the adapter holds the latest text back, so that it can
\* tell the last one, and yields the one before it.
UpstreamText ==
  /\ Running("calling") /\ items < MaxItems
  /\ items' = items + 1
  /\ \E n \in ChunkSize :
       /\ gen' = [gen EXCEPT !.observed = TRUE, !.held = n,
                             !.at = IF gen.held = 0 THEN "calling" ELSE "item"]
       /\ task' = IF gen.held = 0 THEN task ELSE Text(gen.held)
  /\ UNCHANGED <<accountingVars, fetches, calls, bound, stage, sendVars, endVars>>

\* The upstream is exhausted: the held text is yielded; Gemini counts an
\* answer without text as a failure.
UpstreamEnds ==
  /\ Running("calling")
  /\ IF gen.held > 0
     THEN /\ gen' = [gen EXCEPT !.at = "item", !.held = 0, !.ending = "completed"]
          /\ task' = Text(gen.held)
     ELSE /\ Leave(IF provider = "gemini" THEN "fatal" ELSE "completed")
          /\ UNCHANGED task
  /\ UNCHANGED <<accountingVars, fetches, items, calls, bound, stage, sendVars, endVars>>

\* The upstream raises, or sends what the adapter rejects.
UpstreamFails ==
  /\ Running("calling") /\ Observed
  /\ \E kind \in {"retryable", "fatal"} : Leave(kind)
  /\ UNCHANGED <<accountingVars, task, fetches, items, calls, bound, stage, sendVars, endVars>>

\* Gemini's asyncio.timeout cancels the task that entered it, which is the
\* task of the fetch the attempt began in: later fetches run in other tasks.
TimerFires == gen.timer = fetches
TimerLapses ==
  /\ provider = "gemini" /\ gen.at \in {"calling", "item"} /\ ~ gen.lapsed
  /\ gen' = IF TimerFires /\ Running("calling")
            THEN [gen EXCEPT !.at = "closing", !.ending = "retryable"]
            ELSE [gen EXCEPT !.lapsed = TRUE]
  /\ UNCHANGED <<accountingVars, task, fetches, items, calls, bound, stage, sendVars, endVars>>

\* An exit gives no verdict.
VerdictOnExitMissing(ending, clean) ==
  IF ~ clean THEN "cleanup_uncertain"
  ELSE CASE ending = "completed" -> "completed"
         [] ending \in {"retryable", "fatal", "lapsed"} -> "error"
         [] ending = "cancelled" -> "cancelled"
         [] ending \in {"exit", "refused"} -> None

\* The verdict the adapter gives on leaving an attempt; None if it gives none.
VerdictOn(ending, clean) ==
  IF ~ clean THEN "cleanup_uncertain"
  ELSE CASE ending = "completed" -> "completed"
         [] ending \in {"retryable", "fatal", "lapsed"} -> "error"
         [] ending = "cancelled" -> "cancelled"
         [] ending = "exit" -> "finish_missing"
         [] ending = "refused" -> None

Report(verdict) ==
  IF Observed /\ verdict # None THEN AttemptClosed(CurrentIdentity, verdict)
                                ELSE UNCHANGED accountingVars

\* A retry after whatever the client has already heard.
RetriesAnyFailure(ending, clean) ==
  /\ clean /\ ending = "retryable"
  /\ gen.attempt < Allowed

Retries(ending, clean) ==
  /\ clean /\ ending = "retryable"
  /\ ~ gen.observed
  /\ gen.attempt < Allowed

\* What the consumer sees when the generator has left: the end of the stream
\* only if the attempt was completed and the session accepted that.
Outcome(ending, clean) ==
  IF ending \in {"cancelled", "exit"} THEN NoTask
  ELSE IF ending = "completed" /\ clean /\ (Observed => Active(CurrentIdentity))
       THEN [kind |-> "stop"]
  ELSE Failed

\* An exception that replaces the exit or cancellation being unwound: an
\* Ollama stream that fails to close, and Gemini's lapsed timer, which turns
\* the cancellation into a timeout.
Replaces(ending, clean) ==
  \/ ending = "lapsed"
  \/ provider = "ollama" /\ ~ clean /\ ending \in {"exit", "cancelled"}

\* The upstream is closed, cleanly or not, and the generator goes on to a
\* retry or is done.  An exception that replaces a cancellation reaches the
\* consumer as a failed fetch and the response goes on; in a send, it fails
\* the closing of the body; after the limit, it fails the response.
CleanupDone ==
  /\ gen.at = "closing"
  /\ \E clean \in IF Observed THEN BOOLEAN ELSE {TRUE} :
       LET replaced == Replaces(gen.ending, clean)
           resumes == replaced /\ stage = "unwinding" /\ ~ inSend
       IN /\ Report(VerdictOn(gen.ending, clean))
          /\ gen' = [gen EXCEPT !.at = IF Retries(gen.ending, clean) THEN "backoff" ELSE "closed"]
          /\ task' = IF Retries(gen.ending, clean) THEN task
                     ELSE IF resumes THEN Failed
                     ELSE Outcome(gen.ending, clean)
          /\ stage' = IF resumes THEN "streaming"
                      ELSE IF replaced /\ stage = "ended" THEN "unwinding" ELSE stage
          /\ cause' = IF resumes THEN None
                      ELSE IF replaced /\ cause = None THEN "cleanup" ELSE cause
          /\ cleanupFailed' = (cleanupFailed \/ (replaced /\ inSend))
  /\ UNCHANGED <<fetches, items, calls, bound, sendVars, inSend>>

\* The application closes its provider, which then fails the binding check.
Unbind ==
  /\ provider = "gemini" /\ bound
  /\ bound' = FALSE
  /\ UNCHANGED <<accountingVars, genVars, stage, sendVars, endVars>>

-----------------------------------------------------------------------------
(* The stream of events and the response.                                  *)

\* Waiting for nothing but the next step of the stream.
Idle(s) == stage = s /\ outbox = <<>>

\* The server took an event; the response remembers a terminal one.
SendDone ==
  /\ stage \in {"retrieving", "streaming", "ended"} /\ outbox # <<>>
  /\ LET e == Head(outbox)
     IN /\ last' = IF e = "ping" THEN last ELSE e
        /\ heard' = IF e = "chunk" THEN heard \cup {gen.attempt} ELSE heard
        /\ delivered' = IF e \in Terminal THEN e ELSE delivered
  /\ outbox' = Tail(outbox)
  /\ UNCHANGED <<accountingVars, genVars, bound, stage, emitted, pings, endVars>>

\* Route, retrieval and grounding: an answer with or without citations, or a
\* refusal, also for every failure on the way.
Retrieve ==
  /\ Idle("retrieving")
  /\ \/ /\ outbox' \in {<<"citations", "generating">>, <<"generating">>}
        /\ stage' = "streaming"
     \/ /\ outbox' = <<"refusing", "refusal", "refused">>
        /\ stage' = "ended"
  /\ UNCHANGED <<accountingVars, genVars, bound, last, heard, emitted, pings, delivered, endVars>>

\* A task for the adapter's next item: at first, after a chunk was sent, and
\* at once after usage.  The generator goes on from its yield.
Fetch ==
  /\ Idle("streaming") /\ task.kind \in {"none", "usage"}
  /\ task' = Pending
  /\ fetches' = fetches + 1
  /\ gen' = IF gen.at # "item" THEN gen
            ELSE [gen EXCEPT !.at = IF gen.ending = "completed" THEN "closing" ELSE "calling"]
  /\ UNCHANGED <<accountingVars, items, calls, bound, stage, sendVars, endVars>>

\* The fetch has taken long, or its item came late.
Ping ==
  /\ Idle("streaming") /\ task.kind \in {"running", "text", "usage"} /\ pings < MaxPings
  /\ pings' = pings + 1
  /\ outbox' = <<"ping">>
  /\ UNCHANGED <<accountingVars, genVars, bound, stage, last, heard, emitted, delivered, endVars>>

Smaller(a, b) == IF a < b THEN a ELSE b

\* The answer goes on after its limit.
DeliverTextOn ==
  /\ Idle("streaming") /\ task.kind = "text"
  /\ LET remaining == MaxOutput - emitted
     IN /\ outbox' = (IF remaining > 0 THEN <<"chunk">> ELSE <<>>)
                       \o (IF task.size > remaining THEN <<"limit">> ELSE <<>>)
        /\ emitted' = emitted + Smaller(task.size, remaining)
  /\ task' = NoTask
  /\ UNCHANGED <<accountingVars, gen, fetches, items, calls, bound, stage, last, heard, pings,
                 delivered, endVars>>

\* A text is sent up to the limit of the answer; one beyond it ends the answer.
DeliverText ==
  /\ Idle("streaming") /\ task.kind = "text"
  /\ LET remaining == MaxOutput - emitted
     IN /\ outbox' = (IF remaining > 0 THEN <<"chunk">> ELSE <<>>)
                       \o (IF task.size > remaining THEN <<"limit">> ELSE <<>>)
        /\ emitted' = emitted + Smaller(task.size, remaining)
        /\ stage' = IF task.size > remaining THEN "ended" ELSE stage
  /\ task' = NoTask
  /\ UNCHANGED <<accountingVars, gen, fetches, items, calls, bound, last, heard, pings,
                 delivered, endVars>>

DeliverEnd ==
  /\ Idle("streaming") /\ task.kind \in {"stop", "failed"}
  /\ outbox' = IF task.kind = "stop" THEN <<"stop">> ELSE <<"error">>
  /\ stage' = "ended"
  /\ task' = NoTask
  /\ UNCHANGED <<accountingVars, gen, fetches, items, calls, bound, last, heard, emitted,
                 pings, delivered, endVars>>

\* The answer was cut at the limit: the adapter is closed at its yield.
CloseProvider ==
  /\ Idle("ended") /\ gen.at = "item"
  /\ Leave("exit")
  /\ UNCHANGED <<accountingVars, task, fetches, items, calls, bound, stage, sendVars, endVars>>

\* What a cancellation of the consumer does to the adapter.
CancelGenerator ==
  CASE gen.at = "calling" ->
         /\ Leave(IF gen.lapsed THEN "lapsed" ELSE "cancelled")
         /\ UNCHANGED <<accountingVars, task>>
    [] gen.at = "item" ->
         /\ Leave("exit")
         /\ UNCHANGED <<accountingVars, task>>
    [] gen.at = "closing" ->
         /\ Report("cleanup_uncertain")
         /\ gen' = [gen EXCEPT !.at = "closed"]
         /\ task' = NoTask
    [] gen.at \in {"fresh", "backoff", "closed"} ->
         /\ gen' = [gen EXCEPT !.at = "closed"]
         /\ task' = NoTask
         /\ UNCHANGED accountingVars

\* From the last send to the closing of the adapter nothing is awaited.
Interrupt(reason) ==
  /\ stage \notin {"settling", "done"}
  /\ ~ (Idle("ended") /\ gen.at = "item")
  /\ CancelGenerator
  /\ cause' = IF cause = None THEN reason ELSE cause
  /\ inSend' = (inSend \/ outbox # <<>>)
  /\ cleanupFailed' = (cleanupFailed \/ (inSend /\ gen.at = "closing" /\ gen.ending = "exit"))
  /\ outbox' = <<>>
  /\ stage' = "unwinding"
  /\ UNCHANGED <<fetches, items, calls, bound, last, heard, emitted, pings, delivered>>

\* The client disconnects, or the server cancels the request; the scope of
\* the response delivers its cancellation again until it has ended.
Cancel == \E reason \in {"disconnect", "shutdown"} : Interrupt(reason)

SendFails ==
  /\ stage \in {"retrieving", "streaming", "ended"}
  /\ outbox # <<>>
  /\ Interrupt("send")

\* Only a provider stream that was opened counts as closed.
BodyEndsOpened ==
  /\ gen.at = "closed"
  /\ Idle("ended") \/ stage = "unwinding"
  /\ stage' = "settling"
  /\ UNCHANGED <<accountingVars, genVars, bound, sendVars, endVars>>

\* All was sent, the empty last part of the body too; or all is closed.
BodyEnds ==
  /\ gen.at \in {"fresh", "closed"}
  /\ Idle("ended") \/ stage = "unwinding"
  /\ stage' = "settling"
  /\ UNCHANGED <<accountingVars, genVars, bound, sendVars, endVars>>

\* The terminal event alone decides.
CompletionByEvent ==
  IF cause = "shutdown" THEN "cancelled"
  ELSE IF delivered = None THEN "abandoned"
  ELSE IF delivered = "stop" THEN "completed"
  ELSE delivered

Completion ==
  IF cause = "shutdown" THEN "cancelled"
  ELSE IF cause # None \/ cleanupFailed \/ delivered = None THEN "abandoned"
  ELSE IF delivered = "stop" THEN "completed"
  ELSE delivered

\* The response settles: the session's summary is drawn, with an attempt
\* still open marked first if closing the body failed.
Settle ==
  /\ stage = "settling"
  /\ FinalizeWith(IF cleanupFailed /\ attempts # <<>>
                  THEN [attempts EXCEPT ![Len(attempts)] = Marked(LastAttempt, "cleanup_uncertain")]
                  ELSE attempts, Completion)
  /\ stage' = "done"
  /\ UNCHANGED <<genVars, bound, sendVars, endVars>>

-----------------------------------------------------------------------------
StreamInit ==
  /\ AccountingInit
  /\ provider \in Provider
  /\ gen = NewGenerator /\ task = NoTask
  /\ fetches = 0 /\ items = 0 /\ calls = 0 /\ bound = TRUE
  /\ stage = "retrieving" /\ outbox = <<"retrieving">>
  /\ last = "none" /\ heard = {} /\ emitted = 0 /\ pings = 0 /\ delivered = None
  /\ cause = None /\ inSend = FALSE /\ cleanupFailed = FALSE

Adapter ==
  /\ \/ StartAttempt \/ UpstreamUsage \/ UpstreamText \/ UpstreamEnds \/ UpstreamFails
     \/ CleanupDone
  /\ UNCHANGED provider
Consumer ==
  /\ \/ SendDone \/ Retrieve \/ Fetch \/ DeliverText \/ DeliverEnd \/ CloseProvider
     \/ BodyEnds \/ Settle
  /\ UNCHANGED provider
Environment ==
  /\ TimerLapses \/ Unbind \/ Ping \/ Cancel \/ SendFails
  /\ UNCHANGED provider

StreamNext == Adapter \/ Consumer \/ Environment

\* The adapter's awaits end: the upstream's client library and the sleep have
\* timeouts of their own.  The consumer's awaits end with the adapter's, and
\* its sends if the client reads or disconnects.
StreamFairness == WF_streamVars(Adapter) /\ WF_streamVars(Consumer)

StreamSpec == StreamInit /\ [][StreamNext]_streamVars /\ StreamFairness

-----------------------------------------------------------------------------
(* Properties.                                                             *)

\* The events of every response follow the grammar of ChatEvents: however
\* the provider, the client and the server end it, nothing is sent after the
\* terminal event and none is sent twice (stream_with_pings, chat_event_stream).
Promise == INSTANCE ChatEvents WITH last <- last, over <- stage = "done"
PromisesKept == Promise!Spec

\* The client never hears two attempts: an attempt is retried only while
\* nothing of it was sent (GeminiProvider.stream, observed_item).
OneVoice == Cardinality(heard) <= 1

\* The summary is never drawn over an attempt nobody judged: each way out of
\* the adapter (end, failure, exit, cancellation, a failed or cancelled close,
\* a refused report) has closed its attempt before the response settles.
NothingLeftOpen ==
  stage = "settling" => \A i \in DOMAIN attempts : Closed(attempts[i])

\* A request is accounted as completed only if its whole response was sent,
\* "stop" last, and nothing failed or was cancelled while ending it; then its
\* attempt completed, and its summary exists.
CompletedIsDelivered ==
  stage = "done" /\ summary # None =>
    /\ summary.completion = "completed" => last = "stop" /\ cause = None /\ ~ cleanupFailed
    /\ last = "stop" /\ Observed => LastAttempt.completion = "completed"

\* Every response ends: no failure, retry, limit, cancellation or failed close
\* leaves it waiting, if its sends and the adapter's awaits end.
ResponseEnds == <>(stage = "done")

=============================================================================
