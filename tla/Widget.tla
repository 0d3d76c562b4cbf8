-------------------------------- MODULE Widget --------------------------------
(***************************************************************************)
(* The browser element <cairn-chat>: src/widget/src/index.ts with the      *)
(* stream and history rules of protocol.ts.                                *)
(*                                                                         *)
(* JavaScript runs one task at a time, and drains the microtasks a task    *)
(* leaves behind before the next.  A coroutine (checkCompatibility, send)  *)
(* that waits on the network is woken by a network task or a timer, or is  *)
(* settled by the abort of its controller, and goes on in a microtask.     *)
(* Clicks, responses and timers therefore find every woken coroutine       *)
(* already run.  The page that holds the element is not so patient: its    *)
(* scripts set attributes and move the element between any two microtasks, *)
(* and inside the element's own dispatchEvent (frame below), where the     *)
(* handler that dispatched has more to do when the listeners return.       *)
(***************************************************************************)
EXTENDS Integers, Sequences, FiniteSets, SequencesExt

CONSTANTS
    Bases,            \* the API bases the page may configure
    NoBase,           \* no valid configuration (configuration === null)
    Events,           \* the server's events: a subset of EventKinds
    BatchMax,         \* bound: complete records one read decodes
    MaxChunks,        \* bound: chunks of one attempt
    MaxGeneration,    \* bound: generations of the element
    MaxSends,         \* bound: messages sent
    HistoryLimit,     \* HISTORY_LIMIT
    AggregateMax      \* HISTORY_AGGREGATE_MAX_CODE_POINTS

None == -1
EventKinds == {"status", "citations", "chunk", "stop", "refused", "retryable", "failure"}
Terminal == {"stop", "refused", "retryable", "failure"}

ASSUME WidgetAssumption ==
    /\ NoBase \notin Bases
    /\ Events \subseteq EventKinds
    /\ {BatchMax, MaxChunks, MaxSends, AggregateMax} \subseteq Nat
    /\ {MaxGeneration, HistoryLimit} \subseteq Nat \ {0}

VARIABLES
    connected,        \* isConnected
    apiBase,          \* configuration?.apiBase
    open,             \* !panel.hidden
    state,
    generation,
    compatibleBase,
    compatibility,    \* compatibilityController: the generation of its check
    chat,             \* chatController: the index of its send
    history,
    session,          \* sessionId, counted by its rotations
    checks,           \* the checkCompatibility coroutines, by generation
    sends,            \* the send coroutines
    frame,            \* the handler whose event the listeners are handling
    since,            \* observation: the generation that configured apiBase
    stranded          \* observation: checking, and not connected meanwhile

panel == <<open, state, frame, stranded>>
work == <<compatibility, chat, checks, sends>>
settings == <<connected, apiBase, since>>
vars == <<connected, apiBase, open, state, generation, compatibleBase, compatibility,
          chat, history, session, checks, sends, frame, since, stranded>>

-------------------------------------------------------------------------------
(* The history of protocol.ts.  A turn names its exchange; a user turn has *)
(* size one, an assistant turn the size of its text.                       *)

TurnSize(turn) == IF turn.role = "user" THEN 1 ELSE Len(turn.text)

Aggregate(turns) == FoldLeft(LAMBDA n, turn : n + TurnSize(turn), 0, turns)

\* The newest turns, without those that would exceed the aggregate.
Retain(turn, kept) ==
    IF Aggregate(kept) + TurnSize(turn) > AggregateMax THEN kept ELSE <<turn>> \o kept
Candidates(turns) ==
    IF Len(turns) > HistoryLimit
      THEN SubSeq(turns, Len(turns) - HistoryLimit + 1, Len(turns))
      ELSE turns
BoundedHistory(turns) == FoldRight(Retain, Candidates(turns), <<>>)

CompletedHistory(turns, s, text, finish) ==
    IF finish = "refused" \/ text = <<>>
      THEN BoundedHistory(turns)
      ELSE BoundedHistory(turns \o <<[of |-> s, role |-> "user", text |-> <<>>],
                                     [of |-> s, role |-> "assistant", text |-> text]>>)

(* Whether a batch of records may follow what the attempt has seen.        *)
ValidBatch(batch, saw) ==
    \A i \in DOMAIN batch :
        LET before == saw \union {batch[j] : j \in 1 .. i - 1}
        IN  /\ before \intersect Terminal = {}
            /\ batch[i] = "status" => "chunk" \notin before
            /\ batch[i] = "citations" => before \intersect {"chunk", "citations"} = {}

-------------------------------------------------------------------------------
NoCheck == [at |-> "unused", got |-> "", base |-> NoBase, aborted |-> FALSE, verdict |-> ""]
NoSend == [at |-> "unused", got |-> "", batch |-> <<>>, base |-> NoBase, gen |-> None,
           aborted |-> FALSE, attempt |-> 0, text |-> <<>>, saw |-> {}, result |-> "",
           session |-> None, posted |-> <<>>, since |-> None]

IsCurrent(gen, base) == connected /\ generation = gen /\ apiBase = base

\* What abort() does to a coroutine: withDeadline settles what it awaits.
Aborted(co) == [co EXCEPT !.aborted = TRUE,
                          !.got = IF co.at \in {"fetch", "body", "read"} /\ @ = ""
                                    THEN "aborted" ELSE @]

AbortedChecks == IF compatibility = None THEN checks
                   ELSE [checks EXCEPT ![compatibility] = Aborted(@)]
AbortedSends == IF chat = None THEN sends ELSE [sends EXCEPT ![chat] = Aborted(@)]

AbortWork == /\ compatibility' = None
             /\ chat' = None
             /\ checks' = AbortedChecks
             /\ sends' = AbortedSends

\* checkCompatibility up to its first await, after a synchronous prefix that
\* has left the configuration base, the generation gen, the check owner and
\* the coroutines cs.
CheckCompatibility(base, gen, owner, cs) ==
    IF base = NoBase \/ owner # None
      THEN /\ compatibility' = owner
           /\ checks' = cs
      ELSE /\ compatibility' = gen
           /\ checks' = [cs EXCEPT ![gen] = [NoCheck EXCEPT !.at = "fetch", !.base = base]]

\* No coroutine is waiting for its turn, and no handler for its listeners.
Drained == /\ frame = <<"none", None>>
           /\ \A g \in DOMAIN checks : checks[g].got = ""
           /\ \A s \in DOMAIN sends : sends[s].got = ""

SetState(new) == /\ state' = new
                 /\ stranded' = (new = "checking" /\ ~connected)
Dispatch(handler, id) == frame' = <<handler, id>>
Return == frame' = <<"none", None>>

-------------------------------------------------------------------------------
(* The page: attributes, removal and insertion.                            *)

\* syncConfiguration, of an invalid snapshot.
Misconfigure ==
    /\ generation < MaxGeneration
    /\ apiBase' = NoBase
    /\ generation' = generation + 1
    /\ since' = generation + 1
    /\ AbortWork
    /\ compatibleBase' = NoBase
    /\ SetState(IF open THEN "terminal" ELSE "closed")
    /\ UNCHANGED <<connected, open, history, session, frame>>

\* syncConfiguration, of a valid snapshot with another base, or after none.
Configure(base) ==
    LET changed == apiBase # NoBase
        gen == IF changed THEN generation + 1 ELSE generation
        cached == IF changed THEN NoBase ELSE compatibleBase
    IN  /\ base # apiBase
        /\ gen <= MaxGeneration
        /\ generation' = gen
        /\ apiBase' = base
        /\ since' = gen
        /\ compatibleBase' = cached
        /\ chat' = IF changed THEN None ELSE chat
        /\ sends' = IF changed THEN AbortedSends ELSE sends
        /\ LET owner == IF changed THEN None ELSE compatibility
               cs == IF changed THEN AbortedChecks ELSE checks
           IN  IF open /\ cached # base
                 THEN CheckCompatibility(base, gen, owner, cs)
                 ELSE compatibility' = owner /\ checks' = cs
        /\ IF open THEN SetState(IF cached = base THEN "ready" ELSE "checking")
                   ELSE UNCHANGED <<state, stranded>>
        /\ UNCHANGED <<connected, open, history, session, frame>>

\* disconnectedCallback.
Disconnect ==
    /\ connected
    /\ generation < MaxGeneration
    /\ connected' = FALSE
    /\ AbortWork
    /\ generation' = generation + 1
    /\ stranded' = (stranded \/ state = "checking")
    /\ UNCHANGED <<apiBase, open, state, compatibleBase, history, session, frame, since>>

\* connectedCallback of an element that is initialized: nothing.
Reconnect ==
    /\ ~connected
    /\ connected' = TRUE
    /\ UNCHANGED <<apiBase, since, generation, compatibleBase, history, session, panel, work>>

-------------------------------------------------------------------------------
(* The visitor: open, close, clear, send.                                  *)

Open ==
    /\ Drained
    /\ connected
    /\ ~open
    /\ open' = TRUE
    /\ Dispatch("open", None)
    /\ UNCHANGED <<settings, state, stranded, generation, compatibleBase, history, session, work>>

\* open, after the listeners of cairn-open.
Opened ==
    /\ frame[1] = "open"
    /\ Return
    /\ SetState(CASE apiBase = NoBase -> "terminal"
                  [] apiBase # NoBase /\ compatibleBase = apiBase -> "ready"
                  [] OTHER -> "checking")
    /\ IF state' = "checking"
         THEN CheckCompatibility(apiBase, generation, compatibility, checks)
         ELSE UNCHANGED <<compatibility, checks>>
    /\ UNCHANGED <<settings, open, generation, compatibleBase, history, session, chat, sends>>

Close ==
    /\ Drained
    /\ connected
    /\ open
    /\ generation < MaxGeneration
    /\ generation' = generation + 1
    /\ AbortWork
    /\ open' = FALSE
    /\ SetState("closed")
    /\ UNCHANGED <<settings, compatibleBase, history, session, frame>>

ClearChat ==
    /\ Drained
    /\ connected
    /\ open
    /\ generation < MaxGeneration
    /\ generation' = generation + 1
    /\ AbortWork
    /\ history' = <<>>
    /\ session' = session + 1
    /\ SetState(IF compatibleBase # NoBase THEN "ready" ELSE "checking")
    /\ Dispatch("clear", None)
    /\ UNCHANGED <<settings, open, compatibleBase>>

\* clearChat, after the listeners of cairn-clear.
Cleared ==
    /\ frame[1] = "clear"
    /\ Return
    /\ IF state # "ready" /\ open
         THEN CheckCompatibility(apiBase, generation, compatibility, checks)
         ELSE UNCHANGED <<compatibility, checks>>
    /\ UNCHANGED <<settings, open, state, stranded, generation, compatibleBase, history,
                   session, chat, sends>>

Send(s) ==
    /\ Drained
    /\ connected
    /\ open
    /\ s <= MaxSends
    /\ sends[s].at = "unused"
    /\ \A t \in 1 .. s - 1 : sends[t].at # "unused"
    /\ apiBase # NoBase
    /\ compatibleBase = apiBase
    /\ chat = None
    /\ state \in {"ready", "terminal"}
    /\ chat' = s
    /\ sends' = [sends EXCEPT ![s] = [NoSend EXCEPT
           !.at = "fetch", !.base = apiBase, !.gen = generation, !.attempt = 1,
           !.session = session, !.posted = BoundedHistory(history), !.since = since]]
    /\ SetState("sending")
    /\ UNCHANGED <<settings, open, generation, compatibleBase, history, session,
                   compatibility, checks, frame>>

-------------------------------------------------------------------------------
(* checkCompatibility.                                                     *)

\* The network or the timer settles what the check g awaits.
CheckWakes(g) ==
    /\ Drained
    /\ \/ /\ checks[g].at = "fetch"
          /\ \E got \in {"response", "rejected", "timeout"} :
                checks' = [checks EXCEPT ![g].got = got]
       \/ /\ checks[g].at = "body"
          /\ \E got \in {"available", "mismatch", "broken", "timeout"} :
                checks' = [checks EXCEPT ![g].got = got]
    /\ UNCHANGED <<settings, generation, compatibleBase, history, session, panel,
                   compatibility, chat, sends>>

Over(check) == [check EXCEPT !.at = "over", !.got = "", !.aborted = FALSE]
Release(g) == compatibility' = IF compatibility = g THEN None ELSE compatibility

\* compatibilityFailure: its event is the last it does, and the check's
\* finally comes after the listeners.
CompatibilityFailure(g) ==
    /\ compatibleBase' = NoBase
    /\ SetState("terminal")
    /\ Dispatch("check", g)
    /\ checks' = [checks EXCEPT ![g].got = "told"]
    /\ UNCHANGED compatibility

CheckQuits(g) ==
    /\ checks' = [checks EXCEPT ![g] = Over(@)]
    /\ Release(g)
    /\ UNCHANGED <<compatibleBase, panel>>

\* The headers, or their absence.
CheckFetched(g) ==
    LET check == checks[g] IN
    /\ frame[1] = "none"
    /\ check.at = "fetch" /\ check.got # ""
    /\ CASE check.got = "aborted" -> CheckQuits(g)
         [] check.got \in {"timeout", "rejected"} ->
              IF IsCurrent(g, check.base) THEN CompatibilityFailure(g) ELSE CheckQuits(g)
         [] check.got = "response" ->
              IF IsCurrent(g, check.base)
                THEN /\ checks' = [checks EXCEPT ![g].at = "body", ![g].got = ""]
                     /\ UNCHANGED <<compatibleBase, compatibility, panel>>
                ELSE CheckQuits(g)
    /\ UNCHANGED <<settings, open, generation, history, session, chat, sends>>

\* The manifest, or what readBoundedJsonResponse throws.
CheckRead(g) ==
    LET check == checks[g] IN
    /\ frame[1] = "none"
    /\ check.at = "body" /\ check.got # ""
    /\ CASE ~IsCurrent(g, check.base) -> CheckQuits(g)
         [] IsCurrent(g, check.base) /\ check.got = "available" ->
              /\ compatibleBase' = check.base
              /\ SetState("ready")
              /\ checks' = [checks EXCEPT ![g] = [Over(@) EXCEPT !.verdict = "available"]]
              /\ Release(g)
              /\ UNCHANGED <<open, frame>>
         [] OTHER -> CompatibilityFailure(g)
    /\ UNCHANGED <<settings, open, generation, history, session, chat, sends>>

\* finally, after the listeners of cairn-error.
CheckTold(g) ==
    /\ frame = <<"check", g>>
    /\ Return
    /\ checks' = [checks EXCEPT ![g] = Over(@)]
    /\ Release(g)
    /\ UNCHANGED <<settings, open, state, stranded, generation, compatibleBase, history,
                   session, chat, sends>>

-------------------------------------------------------------------------------
(* send and streamAttempt.                                                 *)

Batches == BoundedSeq(Events, BatchMax) \ {<<>>}
Chunks(batch) == Cardinality({i \in DOMAIN batch : batch[i] = "chunk"})

\* The network or a deadline settles what the attempt awaits: the response,
\* or a read.  "eof" is the end of a body, or bytes the decoder refuses.
SendWakes(s) ==
    LET send == sends[s] IN
    /\ Drained
    /\ \/ /\ send.at = "fetch"
          /\ \E got \in {"response", "failed", "timeout"} :
                sends' = [sends EXCEPT ![s].got = got]
       \/ /\ send.at = "read"
          /\ \E got \in {"failed", "eof", "timeout"} : sends' = [sends EXCEPT ![s].got = got]
       \/ /\ send.at = "read"
          /\ \E batch \in Batches :
                /\ Len(send.text) + Chunks(batch) <= MaxChunks
                /\ sends' = [sends EXCEPT ![s].got = "batch", ![s].batch = batch]
    /\ UNCHANGED <<settings, generation, compatibleBase, history, session, panel,
                   compatibility, chat, checks>>

Deadline(s) == /\ SendWakes(s)
               /\ sends'[s].got = "timeout"

Resulting(send, result) == [send EXCEPT !.at = "result", !.got = "returned",
                                        !.batch = <<>>, !.result = result]

\* What the attempt makes of a batch that may follow: applyEvent, event by
\* event, until one of them ends the attempt.
Applied(send) ==
    LET heard == [send EXCEPT !.text = @ \o [i \in 1 .. Chunks(send.batch) |-> send.attempt],
                              !.saw = @ \union (ToSet(send.batch) \ {"status"}),
                              !.got = "", !.batch = <<>>]
        last == Last(send.batch)
    IN  IF last \in Terminal THEN Resulting(heard, last) ELSE heard

\* Mutant: a deadline that passes is only waited out.
AttemptedPatient(send) ==
    IF send.got \in {"aborted", "failed", "eof"} THEN Resulting(send, "protocol")
    ELSE IF send.got = "batch" THEN Applied(send)
    ELSE [send EXCEPT !.at = "read", !.got = ""]

\* What streamAttempt does when it wakes.
Attempted(send) ==
    LET live == IsCurrent(send.gen, send.base) /\ ~send.aborted
    IN  CASE send.got = "timeout" -> [Resulting(send, "protocol") EXCEPT !.aborted = TRUE]
          [] send.got = "aborted" -> Resulting(send, "aborted")
          [] send.got = "failed" -> Resulting(send, IF send.aborted THEN "aborted" ELSE "network")
          [] send.got \in {"response", "eof", "batch"} /\ ~live -> Resulting(send, "aborted")
          [] send.got = "response" /\ live -> [send EXCEPT !.at = "read", !.got = ""]
          [] send.got = "eof" /\ live -> Resulting(send, "protocol")
          [] send.got = "batch" /\ live ->
               IF ValidBatch(send.batch, send.saw) THEN Applied(send)
                                                   ELSE Resulting(send, "protocol")

StreamAttempt(s) ==
    /\ frame[1] = "none"
    /\ sends[s].at \in {"fetch", "read"} /\ sends[s].got # ""
    /\ sends' = [sends EXCEPT ![s] = Attempted(@)]
    /\ UNCHANGED <<settings, generation, compatibleBase, history, session, panel,
                   compatibility, chat, checks>>

Finished(send) == [send EXCEPT !.at = "over", !.got = "", !.aborted = FALSE, !.saw = {}]

\* finally.
SendQuits(s) ==
    /\ sends' = [sends EXCEPT ![s] = Finished(@)]
    /\ chat' = IF chat = s THEN None ELSE chat
    /\ IF state = "sending" THEN SetState("ready") ELSE UNCHANGED <<state, stranded>>

\* Mutant: the second attempt adds to the first one's text.
RetryKeepsText(s) ==
    /\ sends[s].at = "result" /\ sends[s].got = "returned"
    /\ frame[1] = "none"
    /\ sends[s].result = "retryable" /\ sends[s].attempt = 1
    /\ IsCurrent(sends[s].gen, sends[s].base)
    /\ sends' = [sends EXCEPT ![s].at = "fetch", ![s].attempt = 2, ![s].saw = {},
                              ![s].result = "", ![s].got = ""]
    /\ UNCHANGED <<settings, generation, compatibleBase, history, session, panel,
                   compatibility, chat, checks>>

\* resetAssistant, and the second attempt.
Retry(s) ==
    /\ sends[s].at = "result" /\ sends[s].got = "returned"
    /\ frame[1] = "none"
    /\ sends[s].result = "retryable" /\ sends[s].attempt = 1
    /\ IsCurrent(sends[s].gen, sends[s].base)
    /\ sends' = [sends EXCEPT ![s].at = "fetch", ![s].attempt = 2, ![s].text = <<>>,
                              ![s].saw = {}, ![s].result = "",
                              ![s].got = IF sends[s].aborted THEN "aborted" ELSE ""]
    /\ UNCHANGED <<settings, generation, compatibleBase, history, session, panel,
                   compatibility, chat, checks>>

\* The exchange is over: its history, its state and its event.
Conclude(s) ==
    LET send == sends[s] IN
    /\ send.at = "result" /\ send.got = "returned"
    /\ frame[1] = "none"
    /\ IsCurrent(send.gen, send.base)
    /\ ~(send.result = "retryable" /\ send.attempt = 1)
    /\ send.result # "aborted"
    /\ history' = IF send.result \in {"stop", "refused"}
                    THEN CompletedHistory(history, s, send.text, send.result)
                    ELSE history
    /\ SetState("terminal")
    /\ Dispatch("send", s)
    /\ sends' = [sends EXCEPT ![s].got = "told"]
    /\ UNCHANGED <<settings, open, generation, compatibleBase, session, compatibility, chat,
                   checks>>

\* The return of an exchange that is no longer current, or was aborted.
Discard(s) ==
    LET send == sends[s] IN
    /\ send.at = "result" /\ send.got = "returned"
    /\ frame[1] = "none"
    /\ ~IsCurrent(send.gen, send.base) \/ send.result = "aborted"
    /\ SendQuits(s)
    /\ UNCHANGED <<settings, open, frame, generation, compatibleBase, history, session,
                   compatibility, checks>>

\* finally, after the listeners of cairn-complete or cairn-error.
SendTold(s) ==
    /\ frame = <<"send", s>>
    /\ Return
    /\ SendQuits(s)
    /\ UNCHANGED <<settings, open, generation, compatibleBase, history, session,
                   compatibility, checks>>

-------------------------------------------------------------------------------
\* The element as connectedCallback leaves it, with a configuration or none.
Init ==
    /\ connected = TRUE
    /\ apiBase \in Bases \union {NoBase}
    /\ open = FALSE
    /\ state = "closed"
    /\ generation = IF apiBase = NoBase THEN 1 ELSE 0
    /\ compatibleBase = NoBase
    /\ compatibility = None
    /\ chat = None
    /\ history = <<>>
    /\ session = 0
    /\ checks = [g \in 0 .. MaxGeneration |-> NoCheck]
    /\ sends = [s \in 1 .. MaxSends |-> NoSend]
    /\ frame = <<"none", None>>
    /\ since = generation
    /\ stranded = FALSE

CheckRuns(g) == CheckFetched(g) \/ CheckRead(g) \/ CheckTold(g)
SendRuns(s) == StreamAttempt(s) \/ Retry(s) \/ Conclude(s) \/ Discard(s) \/ SendTold(s)
Page == Misconfigure \/ (\E base \in Bases : Configure(base)) \/ Disconnect \/ Reconnect
Visitor == Open \/ Close \/ ClearChat \/ (\E s \in 1 .. MaxSends : Send(s))

Next ==
    \/ Page
    \/ Visitor
    \/ Opened
    \/ Cleared
    \/ \E g \in 0 .. MaxGeneration : CheckWakes(g) \/ CheckRuns(g)
    \/ \E s \in 1 .. MaxSends : SendWakes(s) \/ SendRuns(s)

Spec == Init /\ [][Next]_vars

\* Microtasks run, and timers fire: a fetch or a read that is not answered
\* times out, and the total deadline ends an attempt whose server goes on
\* sending records (it is pending again and again, hence strong fairness).
FairSpec ==
    /\ Spec
    /\ WF_vars(Opened)
    /\ WF_vars(Cleared)
    /\ \A g \in 0 .. MaxGeneration : SF_vars(CheckWakes(g)) /\ WF_vars(CheckRuns(g))
    /\ \A s \in 1 .. MaxSends : SF_vars(Deadline(s)) /\ WF_vars(SendRuns(s))
-------------------------------------------------------------------------------
(* What the element promises.                                              *)

\* Every turn of the history, and every turn a request carries, belongs to an
\* exchange of the session the request names: an answer that completes while
\* the visitor clears the chat does not come back.  An answer in the history is
\* one attempt's, whole, and never a refusal; the request's history respects
\* both limits.
HistoryIsOfThisSession ==
    /\ \A i \in DOMAIN history :
          LET send == sends[history[i].of]
          IN  /\ send.session = session
              /\ send.result = "stop"
              /\ history[i].role = "assistant" =>
                    history[i].text = [k \in 1 .. Len(send.text) |-> send.attempt]
    /\ \A s \in DOMAIN sends :
          LET posted == sends[s].posted
          IN  /\ \A i \in DOMAIN posted : sends[posted[i].of].session = sends[s].session
              /\ Len(posted) <= HistoryLimit
              /\ Aggregate(posted) <= AggregateMax

\* Once the microtasks have run, an open panel that says it is busy is: a send
\* is in flight exactly in the state sending, which its finally leaves, also
\* when clear, a new base or a removal came between, and checking means that a
\* check is under way, unless the element was out of the page meanwhile, or
\* has no configuration; never both at once.
WorkIsShown ==
    Drained =>
        /\ state = "sending" <=> chat # None
        /\ compatibility # None => state = "checking"
        /\ state = "checking" /\ apiBase # NoBase => compatibility # None \/ stranded
        /\ open <=> state # "closed"

\* No message goes to a base that has not said it is compatible since it was
\* configured: leaving a base and coming back needs a new check.
SendIsNegotiated ==
    \A s \in DOMAIN sends :
        sends[s].at # "unused" =>
            \E g \in sends[s].since .. sends[s].gen :
                checks[g].verdict = "available" /\ checks[g].base = sends[s].base

\* Configuration, clear, close and removal never let what was begun before them
\* into what comes after: the history, the state shown and the base spoken to
\* are the current generation's (CairnChat, generation).
GenerationsApart == HistoryIsOfThisSession /\ WorkIsShown /\ SendIsNegotiated

\* Every check and every send ends, whatever the server withholds or repeats.
WorkEnds ==
    /\ \A g \in 0 .. MaxGeneration :
          checks[g].at \in {"fetch", "body"} ~> checks[g].at = "over"
    /\ \A s \in 1 .. MaxSends : sends[s].at = "fetch" ~> sends[s].at = "over"
================================================================================
