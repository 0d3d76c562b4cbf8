--------------------------- MODULE ControlledChat ---------------------------
(***************************************************************************)
(* Chat requests under the deployment-wide controls: the endpoint          *)
(* (src/backend/app/api/chat.py: chat_message, the controlled streams,     *)
(* _ControlledResponseOwner) and EndpointController                        *)
(* (src/backend/app/endpoint_controls.py), composed with the store.        *)
(*                                                                         *)
(* Every store call is a message.  A call is tried twice under one         *)
(* operation id and given CallTimeout each time; a message may reach the   *)
(* store late, after the caller stopped waiting or was cancelled, or       *)
(* never.  The clock of the controller and of the store advance together;  *)
(* the event loop serves a timer before time moves past it.  A client may  *)
(* take any time to read what it was sent, and may go away in any phase.   *)
(*                                                                         *)
(* Data abstraction.  The chat stream inside a request is its next event,  *)
(* at any time; of its provider attempts the model keeps what accounting   *)
(* keeps: how many, whether one is running, and the cost due for them.     *)
(***************************************************************************)
EXTENDS EndpointControlStore

CONSTANTS
  Request,        \* chat requests
  CallTimeout,    \* CONTROL_STORE_CALL_TIMEOUT_SECONDS
  Latency,        \* bound on how late a message reaches the store
  PollInterval,   \* the cadence of queue polls (1.0)
  QueueWait,      \* queue_wait_seconds
  LeaseRenew,     \* lease_renew_seconds
  PerAttempt,     \* budget_reserve_per_attempt
  MaxAttempts,    \* maximum_provider_attempts
  MaxCost,        \* bound on the price of one attempt, which may exceed PerAttempt
  MaxCalls        \* bound on the operation ids of one request

ASSUME OperationAssumption ==
  MaxCalls \in Nat /\ OperationId = Request \X (1 .. MaxCalls)
ASSUME TimingAssumption ==
  /\ {CallTimeout, Latency, PollInterval} \subseteq Nat \ {0}
  /\ QueueWait \in Nat /\ LeaseRenew \in Nat
  /\ LeaseRenew >= 2 * CallTimeout /\ LeaseTTL >= 3 * LeaseRenew
  /\ TicketTTL = QueueWait + 2 * CallTimeout
  /\ PollAttempts * PollInterval >= QueueWait
  /\ PollAttempts * PollInterval < QueueWait + PollInterval

Greater(a, b) == IF a >= b THEN a ELSE b
\* The most that one attempt, and all attempts of a request, may come to be due.
MostPerAttempt == Greater(PerAttempt, MaxCost)
MostDue == MostPerAttempt * MaxAttempts
ASSUME AttemptAssumption ==
  /\ PerAttempt \in Nat /\ MaxCost \in Nat /\ MaxAttempts \in 0 .. 2
  /\ Reserve = PerAttempt * MaxAttempts
  /\ 0 .. MostDue \subseteq Charges /\ TRUE \in Presented

VARIABLES
  clock,       \* the clock of the controller and of the store
  phase,       \* where each request is
  call,        \* the store call each request waits for, or made last
  messages,    \* calls on their way to the store
  ticket,      \* _ControlledResponseOwner._ticket, 0 for none
  lease,       \* _ControlledResponseOwner._lease, 0 for none
  authority,   \* _lease_deadlines and _lease_store_expiries, by lease id
  wake,        \* the renewal timer of a stream, or the next poll of a wait
  waitEnd,     \* the deadline of a queued stream
  ticks,       \* renewals a stream has asked for
  work         \* accounting session and provider attempts of each request

requests == <<phase, call, ticket, lease, authority, wake, waitEnd, ticks, work>>
chatVars == <<vars, clock, messages, requests>>

-----------------------------------------------------------------------------
(* Vocabulary.                                                             *)

Phase == {"idle", "admitting", "responding", "queued", "polling", "streaming",
          "renewing", "sending", "closing", "settling", "done"}
Waiting == {"admitting", "polling", "renewing", "settling"}
\* Whether a session is bound, its attempts, whether one runs or another may
\* start, what they cost so far, and whether part of that is not known.  Only
\* properties read which lease it runs under, and the windows that lease was
\* granted in: the code does not keep them.
Work == [bound : BOOLEAN, attempts : 0 .. MaxAttempts,
         state : {"ready", "active", "over"}, due : 0 .. MostDue,
         uncertain : BOOLEAN,
         lease : 0 .. MaxPairs, windows : SUBSET (Period \X Nat)]
NoReply == [type |-> "none"]
Failure == [type |-> "Failure"]   \* ControlStoreError

Set(f, r, v) == f' = [f EXCEPT ![r] = v]
Held(id) == [id |-> id, fenced |-> TRUE]
Deadline(r) == authority[lease[r]].deadline

\* authority_remaining(lease) > 0
HasAuthority(r) == lease[r] \in DOMAIN authority /\ Deadline(r) > clock
\* authority_remaining drops the entry it finds lapsed.
Drop(id) == authority' = Without(authority, id)

-----------------------------------------------------------------------------
(* Store calls: call_mutation_with_one_replay over _await_bounded.         *)

\* Mutant: the ids are numbered without the random part, the same for everyone.
NumberedOperation(r) == <<CHOOSE x \in Request : TRUE, call[r].op[2] + 1>>
\* EndpointController._id: an operation id is never drawn twice.
NewOperation(r) == <<r, call[r].op[2] + 1>>

Message(r, c) == [op |-> c.op, kind |-> c.kind, args |-> c.args,
                  attempt |-> c.attempt, sent |-> clock]
Send(r, c) ==
  /\ Set(call, r, c)
  /\ messages' = messages \cup {Message(r, c)}

\* overall is the overall_deadline; without one it is Horizon + CallTimeout.
Endless == Horizon + CallTimeout
Ask(r, kind, args, overall) ==
  /\ NewOperation(r) \in OperationId
  /\ Send(r, [op |-> NewOperation(r), kind |-> kind, args |-> args, attempt |-> 1,
              started |-> clock, deadline |-> Lesser(clock + CallTimeout, overall),
              overall |-> overall, reply |-> NoReply])

\* The store executes the message, and its answer reaches a caller who still
\* waits for that attempt.
Execute(m) ==
  \/ m.kind = "admit_or_enqueue" /\ AdmitOrEnqueue(m.op, m.args[1], m.args[2], clock)
  \/ m.kind = "wait_for_admission" /\ WaitForAdmission(m.op, m.args, clock)
  \/ m.kind = "renew" /\ Renew(m.op, m.args, clock)
  \/ m.kind = "cancel_ticket" /\ CancelTicket(m.op, m.args, clock)
  \/ m.kind = "finalize" /\ Finalize(m.op, m.args[1], m.args[2], m.args[3], clock)
AnswerTo(m) ==
  IF m.op \in DOMAIN receipts' THEN receipts'[m.op].outcome ELSE Failure
Expects(m, r) ==
  phase[r] \in Waiting /\ call[r].op = m.op /\ call[r].attempt = m.attempt

Land(m) ==
  /\ Execute(m)
  /\ messages' = messages \ {m}
  /\ call' = [r \in Request |-> IF Expects(m, r)
                                THEN [call[r] EXCEPT !.reply = AnswerTo(m)]
                                ELSE call[r]]
  /\ UNCHANGED <<clock, phase, ticket, lease, authority, wake, waitEnd, ticks, work>>

\* The deadline of the first attempt passed: the same call under the same id.
Replay(r) ==
  /\ phase[r] \in Waiting
  /\ call[r].attempt = 1 /\ call[r].deadline <= clock /\ clock < call[r].overall
  /\ Send(r, [call[r] EXCEPT !.attempt = 2, !.reply = NoReply,
                !.deadline = Lesser(clock + CallTimeout, call[r].overall)])
  /\ UNCHANGED <<vars, clock, phase, ticket, lease, authority, wake, waitEnd,
                 ticks, work>>

\* What the controller's await returns or raises: the answer in time, or
\* unknown_outcome after the second attempt or the overall deadline.
Answered(r, kind, outcome) ==
  /\ call[r].kind = kind
  /\ \/ /\ clock < call[r].deadline
        /\ call[r].reply # NoReply /\ outcome = call[r].reply
     \/ /\ clock >= call[r].deadline
        /\ call[r].attempt = 2 \/ clock >= call[r].overall
        /\ outcome = Failure

\* The call is over; its record keeps only the operation id.
Idle(r) ==
  [op |-> call[r].op, kind |-> "none", args |-> <<>>, attempt |-> 0,
   started |-> 0, deadline |-> 0, overall |-> 0, reply |-> NoReply]
EndCall(r) == Set(call, r, Idle(r)) /\ UNCHANGED <<vars, clock, messages>>
NoCall == UNCHANGED <<vars, clock, messages, call>>

-----------------------------------------------------------------------------
(* chat_message: admission, and the response it returns.                   *)

Arrive(r) ==
  /\ phase[r] = "idle"
  /\ \E ip \in Ip, session \in Session :
       Ask(r, "admit_or_enqueue", <<ip, session>>, Endless)
  /\ Set(phase, r, "admitting")
  /\ UNCHANGED <<vars, clock, ticket, lease, authority, wake, waitEnd, ticks, work>>

\* _record_authority drops the entries that had lapsed when the call started;
\* the lease is refused when the others already fill the controller.
Current(started) == {i \in DOMAIN authority : authority[i].deadline > started}
Recordable(id, started) ==
  Cardinality(Current(started)) < MaxActive /\ id \notin Current(started)
\* Mutant: the authority is counted from the answer instead of the request.
RecordAuthorityLate(outcome, started) ==
  authority' =
    IF Recordable(outcome.id, started)
    THEN Put(Restrict(authority, Current(started)), outcome.id,
             [deadline |-> clock + LeaseTTL, expiry |-> outcome.expires])
    ELSE Restrict(authority, Current(started))
RecordAuthority(outcome, started) ==
  authority' =
    IF Recordable(outcome.id, started)
    THEN Put(Restrict(authority, Current(started)), outcome.id,
             [deadline |-> started + LeaseTTL, expiry |-> outcome.expires])
    ELSE Restrict(authority, Current(started))

\* The owner claims the lease or ticket; every other outcome is one terminal
\* event without an owner.
AdmissionAnswered(r) ==
  \E outcome \in {call[r].reply, Failure} :
    /\ Answered(r, "admit_or_enqueue", outcome)
    /\ \/ /\ outcome.type = "Admitted"
          /\ RecordAuthority(outcome, call[r].started)
          /\ IF Recordable(outcome.id, call[r].started)
             THEN Set(lease, r, outcome.id) /\ Set(phase, r, "responding")
             ELSE Set(phase, r, "done") /\ UNCHANGED lease
          /\ UNCHANGED ticket
       \/ /\ outcome.type = "Queued"
          /\ Set(ticket, r, outcome.id) /\ Set(phase, r, "responding")
          /\ UNCHANGED <<lease, authority>>
       \/ /\ outcome.type \in {"Denied", "Failure"}
          /\ Set(phase, r, "done")
          /\ UNCHANGED <<ticket, lease, authority>>
    /\ EndCall(r) /\ UNCHANGED <<wake, waitEnd, ticks, work>>

-----------------------------------------------------------------------------
(* _queued_controlled_stream                                               *)

BeginWait(r) ==
  /\ phase[r] = "responding" /\ ticket[r] # 0
  /\ Set(waitEnd, r, clock + QueueWait) /\ Set(wake, r, clock)
  /\ Set(phase, r, "queued")
  /\ NoCall /\ UNCHANGED <<ticket, lease, authority, ticks, work>>

Poll(r) ==
  /\ phase[r] = "queued" /\ clock < waitEnd[r] /\ wake[r] <= clock
  /\ Ask(r, "wait_for_admission", Held(ticket[r]), waitEnd[r])
  /\ Set(phase, r, "polling")
  /\ UNCHANGED <<vars, clock, ticket, lease, authority, wake, waitEnd, ticks, work>>

\* The deadline denies the request; a poll under way is cancelled.
WaitEnds(r) ==
  /\ phase[r] \in {"queued", "polling"} /\ waitEnd[r] <= clock
  /\ Set(phase, r, "closing") /\ EndCall(r)
  /\ UNCHANGED <<ticket, lease, authority, wake, waitEnd, ticks, work>>

\* Mutant: polls are not kept apart.
NextPollAtOnce(r) == clock
\* A period after the last poll, and a whole number of periods into the wait.
NextPoll(r) ==
  LET start == waitEnd[r] - QueueWait
      periods == (clock - start + PollInterval - 1) \div PollInterval
  IN  Greater(wake[r] + PollInterval, start + periods * PollInterval)

PollPendingAnswered(r, outcome) ==
  /\ outcome.type = "Pending"
  /\ Set(wake, r, NextPoll(r)) /\ Set(phase, r, "queued")
  /\ UNCHANGED <<ticket, lease, authority>>

\* promote: the ticket becomes the lease.  A lease the controller refuses is
\* an internal error, and the ticket is still the one to cancel.
PollAdmittedAnswered(r, outcome) ==
  /\ outcome.type = "Admitted"
  /\ RecordAuthority(outcome, call[r].started)
  /\ IF Recordable(outcome.id, call[r].started)
     THEN Set(ticket, r, 0) /\ Set(lease, r, outcome.id) /\ Set(phase, r, "responding")
     ELSE Set(phase, r, "closing") /\ UNCHANGED <<ticket, lease>>
  /\ UNCHANGED wake

\* A denial releases the ticket; an error keeps it.
PollRefusedAnswered(r, outcome) ==
  /\ outcome.type \in {"Denied", "Failure"}
  /\ IF outcome.type = "Denied" THEN Set(ticket, r, 0) ELSE UNCHANGED ticket
  /\ Set(phase, r, "closing")
  /\ UNCHANGED <<lease, authority, wake>>

PollAnswer(r) ==
  /\ phase[r] = "polling"
  /\ \E outcome \in {call[r].reply, Failure} :
       /\ Answered(r, "wait_for_admission", outcome)
       /\ \/ PollPendingAnswered(r, outcome)
          \/ PollAdmittedAnswered(r, outcome)
          \/ PollRefusedAnswered(r, outcome)
  /\ EndCall(r) /\ UNCHANGED <<waitEnd, ticks, work>>

-----------------------------------------------------------------------------
(* _admitted_controlled_stream                                             *)

\* Mutant: the timer does not look at what is left of the lease.
RenewalRegular(r) == clock + LeaseRenew
\* The renewal timer.
Renewal(r) == clock + Lesser(LeaseRenew, Deadline(r) - clock)

\* Without authority no accounting session is bound and nothing is retrieved.
BeginStream(r) ==
  /\ phase[r] = "responding" /\ lease[r] # 0
  /\ \/ /\ HasAuthority(r)
        /\ Set(work, r, [work[r] EXCEPT !.bound = TRUE, !.lease = lease[r],
             !.windows = {w \in DOMAIN windows : lease[r] \in LeasesIn(w)}])
        /\ Set(wake, r, Renewal(r)) /\ Set(phase, r, "streaming")
        /\ UNCHANGED authority
     \/ /\ ~HasAuthority(r)
        /\ Drop(lease[r]) /\ Set(phase, r, "closing")
        /\ UNCHANGED <<wake, work>>
  /\ NoCall /\ UNCHANGED <<ticket, lease, waitEnd, ticks>>

\* The next event is there and is sent, with authority; the last one ends the
\* stream, and so does a stream that fails.  A renewal that is due goes first.
Produce(r) ==
  /\ phase[r] = "streaming" /\ clock < wake[r]
  /\ \/ HasAuthority(r) /\ \E next \in {"sending", "closing"} : Set(phase, r, next)
     \/ ~HasAuthority(r) /\ Set(phase, r, "closing")
  /\ IF HasAuthority(r) THEN UNCHANGED authority ELSE Drop(lease[r])
  /\ NoCall /\ UNCHANGED <<ticket, lease, wake, waitEnd, ticks, work>>

\* Mutant: after a slow send the next event is fetched without a look at the lease.
ResumeUnchecked(r) ==
  /\ phase[r] = "sending" /\ Set(phase, r, "streaming")
  /\ NoCall /\ UNCHANGED <<ticket, lease, authority, wake, waitEnd, ticks, work>>
\* The client took the event.
Resume(r) ==
  /\ phase[r] = "sending"
  /\ \/ HasAuthority(r) /\ Set(phase, r, "streaming") /\ UNCHANGED authority
     \/ ~HasAuthority(r) /\ Set(phase, r, "closing") /\ Drop(lease[r])
  /\ NoCall /\ UNCHANGED <<ticket, lease, wake, waitEnd, ticks, work>>

MayRenew(r) ==
  /\ HasAuthority(r) /\ ticks[r] < RenewalTicks
  /\ Deadline(r) - clock >= 2 * CallTimeout

AskRenewal(r) ==
  /\ phase[r] = "streaming" /\ wake[r] <= clock /\ MayRenew(r)
  /\ Ask(r, "renew", Held(lease[r]), Deadline(r))
  /\ Set(ticks, r, ticks[r] + 1) /\ Set(phase, r, "renewing")
  /\ UNCHANGED <<vars, clock, ticket, lease, authority, wake, waitEnd, work>>

\* The timer finds no tick or too little authority left for a renewal.
LeaseEnds(r) ==
  /\ phase[r] = "streaming" /\ wake[r] <= clock /\ ~MayRenew(r)
  /\ IF ticks[r] < RenewalTicks \/ ~HasAuthority(r)
     THEN Drop(lease[r]) ELSE UNCHANGED authority
  /\ Set(phase, r, "closing")
  /\ NoCall /\ UNCHANGED <<ticket, lease, wake, waitEnd, ticks, work>>

\* The deadline moves as far as the store moved the expiry, and never beyond a
\* full TTL from the start of the call.
Extended(r, outcome) ==
  Lesser(Deadline(r) + outcome.expires - authority[lease[r]].expiry,
         call[r].started + LeaseTTL)
Extends(r, outcome) ==
  /\ outcome.type = "Renewed"
  /\ lease[r] \in DOMAIN authority
  /\ outcome.expires > authority[lease[r]].expiry
  /\ Extended(r, outcome) > call[r].started

RenewalGranted(r, outcome) ==
  /\ Extends(r, outcome)
  /\ authority' = [authority EXCEPT ![lease[r]] =
       [deadline |-> Extended(r, outcome), expiry |-> outcome.expires]]
  /\ Set(wake, r, clock + Lesser(LeaseRenew, Greater(0, Extended(r, outcome) - clock)))
  /\ Set(phase, r, "streaming")

\* Anything but Renewed revokes the authority and stops the stream.
RenewalFailed(r, outcome) ==
  /\ ~Extends(r, outcome)
  /\ Drop(lease[r]) /\ Set(phase, r, "closing")
  /\ UNCHANGED wake

RenewalAnswer(r) ==
  /\ phase[r] = "renewing"
  /\ \E outcome \in {call[r].reply, Failure} :
       /\ Answered(r, "renew", outcome)
       /\ RenewalGranted(r, outcome) \/ RenewalFailed(r, outcome)
  /\ EndCall(r) /\ UNCHANGED <<ticket, lease, waitEnd, ticks, work>>

-----------------------------------------------------------------------------
(* The provider attempts behind the stream, as RequestAccountingSession    *)
(* sees them.  They go on while a renewal is asked for, and while a ping   *)
(* is being sent.                                                          *)

StartAttempt(r) ==
  /\ phase[r] \in {"streaming", "renewing", "sending"}
  /\ work[r].bound /\ work[r].state = "ready" /\ work[r].attempts < MaxAttempts
  /\ Set(work, r, [work[r] EXCEPT !.attempts = @ + 1, !.state = "active",
                                 !.due = @ + PerAttempt])
  /\ NoCall /\ UNCHANGED <<phase, ticket, lease, authority, wake, waitEnd, ticks>>

\* The attempt ends with a known price, which nothing relates to what was
\* reserved for it, or without one: then the reserved amount stays due.  Only
\* after an error may the provider start another one ("ready").
FinishAttempt(r) ==
  /\ phase[r] \in {"streaming", "renewing", "sending", "closing"}
  /\ work[r].state = "active"
  /\ \E next \in {"ready", "over"} :
       \/ \E cost \in 0 .. MaxCost :
            Set(work, r, [work[r] EXCEPT !.state = next, !.due = @ - PerAttempt + cost])
       \/ Set(work, r, [work[r] EXCEPT !.state = next, !.uncertain = TRUE])
  /\ NoCall /\ UNCHANGED <<phase, ticket, lease, authority, wake, waitEnd, ticks>>

-----------------------------------------------------------------------------
(* _ControlledResponseOwner.finalize, once the response is over.           *)

\* Mutant: an abandoned stream is settled as if it had used nothing.
ReconciliationForgiving(r, abandoned) ==
  IF abandoned THEN <<0, TRUE>>
  ELSE <<work[r].due, work[r].uncertain \/ work[r].state = "active">>
\* reconciliation_from_summary: charge and accounting_uncertain.
Reconciliation(r, abandoned) ==
  IF abandoned THEN <<PerAttempt * work[r].attempts, work[r].attempts > 0>>
  ELSE <<work[r].due, work[r].uncertain \/ work[r].state = "active">>

\* Without a session nothing was used (finalize_without_provider); a session
\* that cannot be summed up costs the reservation (finalize_uncertain).
\* Whether the request counts as abandoned depends on the final send.
Settlements(r) ==
  IF work[r].bound
  THEN {Reconciliation(r, abandoned) : abandoned \in BOOLEAN} \cup {<<Reserve, TRUE>>}
  ELSE {<<0, FALSE>>}

Settling(r) ==
  /\ phase[r] = "closing"
  /\ \/ /\ ticket[r] # 0
        /\ Ask(r, "cancel_ticket", Held(ticket[r]), Endless)
        /\ Set(ticket, r, 0) /\ Set(phase, r, "settling")
        /\ UNCHANGED <<lease, authority>>
     \/ /\ lease[r] # 0
        /\ Drop(lease[r])
        /\ \E settlement \in Settlements(r) :
             Ask(r, "finalize", <<Held(lease[r]), settlement[1], settlement[2]>>, Endless)
        /\ Set(lease, r, 0) /\ Set(phase, r, "settling")
        /\ UNCHANGED ticket
     \/ /\ ticket[r] = 0 /\ lease[r] = 0
        /\ Set(phase, r, "done")
        /\ UNCHANGED <<call, messages, ticket, lease, authority>>
  /\ UNCHANGED <<vars, clock, wake, waitEnd, ticks, work>>

\* Whatever the store says, the owner is done with the request.
Settled(r) ==
  /\ phase[r] = "settling"
  /\ \E kind \in {"cancel_ticket", "finalize"}, outcome \in {call[r].reply, Failure} :
       Answered(r, kind, outcome)
  /\ Set(phase, r, "done") /\ EndCall(r)
  /\ UNCHANGED <<ticket, lease, authority, wake, waitEnd, ticks, work>>

\* The client disconnects or the server shuts down: the task is cancelled in
\* its await.  Before the response there is no owner; renew revokes.
Cancelled(r) ==
  /\ phase[r] \notin {"idle", "closing", "done"}
  /\ IF phase[r] \in {"admitting", "settling"}
     THEN Set(phase, r, "done") ELSE Set(phase, r, "closing")
  /\ IF phase[r] = "renewing" THEN Drop(lease[r]) ELSE UNCHANGED authority
  /\ EndCall(r) /\ UNCHANGED <<ticket, lease, wake, waitEnd, ticks, work>>

-----------------------------------------------------------------------------
(* The event loop runs every timer that is due before time passes on.      *)

TimerDue(r) ==
  \/ phase[r] \in Waiting /\ call[r].deadline <= clock
  \/ phase[r] \in {"queued", "polling"} /\ waitEnd[r] <= clock
  \/ phase[r] \in {"queued", "streaming"} /\ wake[r] <= clock

Tick ==
  /\ clock < Horizon
  /\ \A r \in Request : ~TimerDue(r)
  /\ clock' = clock + 1
  /\ messages' = {m \in messages : m.sent + Latency >= clock'}
  /\ UNCHANGED <<vars, requests>>

\* EndpointController.check_readiness
Probe == CheckBudgetReadiness(clock) /\ UNCHANGED <<clock, messages, requests>>

\* The steps of a request that do not wait for its client or provider.
Advance(r) ==
  \/ Replay(r) \/ AdmissionAnswered(r)
  \/ BeginWait(r) \/ Poll(r) \/ WaitEnds(r) \/ PollAnswer(r)
  \/ BeginStream(r) \/ AskRenewal(r) \/ LeaseEnds(r) \/ RenewalAnswer(r)
  \/ Settling(r) \/ Settled(r)

ChatInit ==
  /\ Init
  /\ clock = 0 /\ messages = {} /\ authority = <<>>
  /\ phase = [r \in Request |-> "idle"]
  /\ call = [r \in Request |->
       [op |-> <<r, 0>>, kind |-> "none", args |-> <<>>, attempt |-> 0,
        started |-> 0, deadline |-> 0, overall |-> 0, reply |-> NoReply]]
  /\ ticket = [r \in Request |-> 0] /\ lease = [r \in Request |-> 0]
  /\ wake = [r \in Request |-> 0] /\ waitEnd = [r \in Request |-> 0]
  /\ ticks = [r \in Request |-> 0]
  /\ work = [r \in Request |-> [bound |-> FALSE, attempts |-> 0, state |-> "ready",
                                due |-> 0, uncertain |-> FALSE,
                                lease |-> 0, windows |-> {}]]

ChatNext ==
  \/ \E r \in Request :
       \/ Arrive(r) \/ Advance(r) \/ Produce(r) \/ Resume(r)
       \/ StartAttempt(r) \/ FinishAttempt(r) \/ Cancelled(r)
  \/ \E m \in messages : Land(m)
  \/ Tick \/ Probe

ChatSpec == ChatInit /\ [][ChatNext]_chatVars
-----------------------------------------------------------------------------
(* Properties.                                                             *)

\* Requests hold ids the store has issued, the controller remembers at most
\* one deadline per lease it may have, and work stays within the policy.
ChatTypeOK ==
  /\ clock \in Instant /\ lastNow <= clock
  /\ phase \in [Request -> Phase]
  /\ \A r \in Request : call[r].op \in Request \X (0 .. MaxCalls)
  /\ \A m \in messages : m.op \in OperationId /\ m.sent <= clock
  /\ ticket \in [Request -> 0 .. tokenSequence]
  /\ lease \in [Request -> 0 .. tokenSequence]
  /\ Functional(authority, 1 .. tokenSequence, [deadline : Nat, expiry : Nat])
  /\ Cardinality(DOMAIN authority) <= MaxActive
  /\ wake \in [Request -> Nat] /\ waitEnd \in [Request -> Nat]
  /\ ticks \in [Request -> 0 .. RenewalTicks]
  /\ work \in [Request -> Work]

\* While the controller believes in a lease, the store still has it, for at
\* least as long (_record_authority, renew): neither a late answer, a replay
\* nor a renewal lets the local deadline outlive the store's.
AuthorityBacked ==
  \A i \in DOMAIN authority : authority[i].deadline > clock =>
    i \in DOMAIN leases /\ leases[i].expires >= authority[i].deadline

\* The deployment-wide bound on concurrent work: no more streams run, with
\* their renewal not yet due, than the store has leases
\* (_admitted_controlled_stream's timers against the store's expiry).
Running ==
  {r \in Request :
    \/ phase[r] = "streaming" /\ clock < wake[r]
    \/ phase[r] = "renewing" /\ clock < call[r].deadline}
StreamsBounded == Cardinality(Running) <= MaxActive

\* A stream asks for an event, its first or the next one after a send or a
\* renewal of any length, only while the store still holds its lease.
FetchesUnderLease ==
  [][\A r \in Request :
       phase[r] # "streaming" /\ phase'[r] = "streaming" =>
         lease[r] \in LiveLeases(clock)]_chatVars

\* A lease or ticket has at most one owner, whatever calls were replayed,
\* abandoned or answered late (_ControlledResponseOwner, _id).
OneOwner ==
  \A r, s \in Request : r # s =>
    /\ lease[r] # 0 => lease[r] # lease[s]
    /\ ticket[r] # 0 => ticket[r] # ticket[s]

\* The store's allowance for a ticket or lease covers every call still on its
\* way: the cadence of the queued stream never asks for more polls, nor the
\* stream for more renewals, than PollAttempts and RenewalTicks reserve.
CallsAffordable ==
  \A m \in messages : Fresh(m.op, clock) =>
    /\ m.kind = "wait_for_admission" /\ m.args.id \in LiveTickets(clock) =>
         tickets[m.args.id].polls > 0
    /\ m.kind = "renew" /\ m.args.id \in LiveLeases(clock) =>
         leases[m.args.id].renewals > 0

\* What the provider attempts of all requests cost is committed or still
\* reserved in each budget window their leases were granted in, until the window
\* is over and forgotten, whichever of settlement and expiry comes first.  Of a
\* request whose settlement is not there yet, or in a window marked uncertain,
\* that is no more than was reserved for the attempts it made ("unpriced,
\* incomplete, retried, abandoned, or cleanup-uncertain work retains the
\* conservative reservation"); in every other window it is all they cost.
Covered(r) == Lesser(work[r].due, PerAttempt * work[r].attempts)
Unsettled(r) == work[r].lease \in DOMAIN leases
Counted(r, w) ==
  IF windows[w].uncertain \/ Unsettled(r) THEN Covered(r) ELSE work[r].due
DueIn(w) ==
  {d \in Request \X (1 .. MostDue) :
     w \in work[d[1]].windows /\ d[2] <= Counted(d[1], w)}
WorkIsCharged ==
  \A r \in Request : \A w \in work[r].windows :
    IF w \in DOMAIN windows
    THEN windows[w].committed + windows[w].reserved >= Cardinality(DueIn(w))
    ELSE WindowEnd(w) <= clock

\* A request whose attempts came to cost more than was reserved for all of them
\* is never settled in silence: each window its lease was granted in is marked
\* overrun, or uncertain where only the reservation was charged, and budget
\* readiness is refused until that window is over (_release_reservation,
\* check_budget_readiness), also after a lost settlement and an expiry.
OverspendingIsMarked ==
  \A r \in Request : \A w \in work[r].windows \cap DOMAIN windows :
    work[r].due > Reserve /\ ~Unsettled(r) =>
      windows[w].overrun \/ windows[w].uncertain
=============================================================================
