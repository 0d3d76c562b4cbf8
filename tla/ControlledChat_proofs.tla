------------------------ MODULE ControlledChat_proofs -------------------------
(***************************************************************************)
(* Proofs about controlled chat requests: they use the store only as the   *)
(* store's own specification allows, so that its theorems hold under them; *)
(* they keep their types; each stream runs under a lease of its own that   *)
(* the store keeps at least as long as the stream believes; allowances     *)
(* cover every call that is asked of the store; what provider attempts     *)
(* cost stays committed or reserved in the budget windows; and a cost      *)
(* above the reservation leaves them marked.                               *)
(***************************************************************************)
EXTENDS ControlledChat, EndpointControlStore_proofs, FiniteSetTheorems, TLAPS

\* ConfigAssumption is always cited for the ranges of the settings.
USE DEF EndpointControlConfig

-----------------------------------------------------------------------------
(* The inductive invariant.                                                *)

\* What an outcome names exists: its lease or ticket has been issued.
Named(outcome) ==
  /\ outcome.type \in {"Admitted", "Queued"} => outcome.id \in 1 .. tokenSequence
  /\ outcome.type \in {"Admitted", "Renewed"} => outcome.expires \in Nat
ReceiptsNamed == \A op \in DOMAIN receipts : Named(receipts[op].outcome)

\* Calls the store knows how to serve.
Servable(kind, args) ==
  \/ kind = "admit_or_enqueue" /\ args \in Ip \X Session
  \/ kind \in {"wait_for_admission", "renew", "cancel_ticket"} /\ args \in IssuedHandle
  \/ kind = "finalize" /\ args \in IssuedHandle \X Charges \X BOOLEAN

ClockInv == clock \in Instant /\ lastNow <= clock
MessageInv ==
  \A m \in messages :
    m.op \in OperationId /\ m.sent \in Nat /\ m.sent <= clock /\ Servable(m.kind, m.args)

CallField ==
  {"op", "kind", "args", "attempt", "started", "deadline", "overall", "reply"}
CallOK(c) ==
  /\ DOMAIN c = CallField
  /\ c.op \in Request \X (0 .. MaxCalls)
  /\ c.started \in Nat /\ c.deadline \in Nat /\ c.overall \in Nat
  /\ Named(c.reply)
CallInv ==
  /\ DOMAIN call = Request /\ phase \in [Request -> Phase]
  /\ \A r \in Request :
       /\ CallOK(call[r])
       /\ phase[r] \in Waiting =>
            call[r].op \in OperationId /\ Servable(call[r].kind, call[r].args)

OwnerInv ==
  /\ ticket \in [Request -> 0 .. tokenSequence]
  /\ lease \in [Request -> 0 .. tokenSequence]
\* A request that waits in the queue has its ticket.
WaitInv ==
  \A r \in Request : phase[r] \in {"queued", "polling"} => ticket[r] # 0
Entry == [deadline : Nat, expiry : Nat]
AuthorityInv ==
  /\ Functional(authority, 1 .. tokenSequence, Entry)
  /\ Cardinality(DOMAIN authority) <= MaxActive
TimerInv ==
  /\ wake \in [Request -> Nat] /\ waitEnd \in [Request -> Nat]
  /\ ticks \in [Request -> 0 .. RenewalTicks]

\* What is due for the attempts that ended, and for the one that runs.
DueOK(w) ==
  IF w.state = "active"
  THEN /\ w.attempts # 0 /\ PerAttempt <= w.due
       /\ w.due - PerAttempt <= MostPerAttempt * (w.attempts - 1)
  ELSE w.due <= MostPerAttempt * w.attempts
WorkInv == work \in [Request -> Work] /\ \A r \in Request : DueOK(work[r])

StoreInv == WindowInv /\ ReceiptsNamed
RequestInv ==
  /\ MessageInv /\ CallInv /\ OwnerInv /\ WaitInv /\ AuthorityInv /\ TimerInv
  /\ WorkInv
ChatInv == StoreInv /\ ClockInv /\ RequestInv

-----------------------------------------------------------------------------
(* What the store's receipts name.                                         *)

LEMMA NamedFailure == Named(NoReply) /\ Named(Failure)
BY DEF Named, NoReply, Failure

LEMMA NamedStays ==
  ASSUME NEW outcome, Named(outcome), tokenSequence \in Nat, tokenSequence' \in Nat,
         tokenSequence <= tokenSequence'
  PROVE  /\ outcome.type \in {"Admitted", "Queued"} => outcome.id \in 1 .. tokenSequence'
         /\ outcome.type \in {"Admitted", "Renewed"} => outcome.expires \in Nat
BY DEF Named

LEMMA PruneNamed ==
  ASSUME ReceiptsNamed, tokenSequence \in Nat, tokenSequence' \in Nat,
         tokenSequence <= tokenSequence', NEW now, receipts' = ReceiptsAt(now)
  PROVE  ReceiptsNamed'
<1>1. \A op \in DOMAIN receipts' : op \in DOMAIN receipts /\ receipts'[op] = receipts[op]
  BY DEF ReceiptsAt, Restrict
<1>2. ASSUME NEW op \in DOMAIN receipts' PROVE Named(receipts[op].outcome)'
  <2>1. Named(receipts[op].outcome) /\ receipts'[op].outcome = receipts[op].outcome
    BY <1>1 DEF ReceiptsNamed
  <2> QED BY <2>1, NamedStays DEF Named
<1> QED BY <1>2 DEF ReceiptsNamed

LEMMA RecordNamed ==
  ASSUME ReceiptsNamed, tokenSequence \in Nat, tokenSequence' \in Nat,
         tokenSequence <= tokenSequence',
         NEW op, NEW kind, NEW args, NEW outcome, NEW now,
         Record(op, kind, args, outcome, now),
         outcome.type \in {"Admitted", "Queued"} => outcome.id \in 1 .. tokenSequence',
         outcome.type \in {"Admitted", "Renewed"} => outcome.expires \in Nat
  PROVE  ReceiptsNamed'
<1>1. ASSUME NEW o \in DOMAIN receipts', o # op
      PROVE  o \in DOMAIN receipts /\ receipts'[o] = receipts[o]
  BY <1>1 DEF Record, Put, ReceiptsAt, Restrict
<1>2. op \in DOMAIN receipts' /\ receipts'[op].outcome = outcome
  BY DEF Record, Put
<1>3. ASSUME NEW o \in DOMAIN receipts' PROVE Named(receipts[o].outcome)'
  <2>1. CASE o = op
    BY <1>2, <2>1 DEF Named
  <2>2. CASE o # op
    <3>1. Named(receipts[o].outcome) /\ receipts'[o].outcome = receipts[o].outcome
      BY <1>1, <2>2 DEF ReceiptsNamed
    <3> QED BY <3>1, NamedStays DEF Named
  <2> QED BY <2>1, <2>2
<1> QED BY <1>3 DEF ReceiptsNamed

\* The outcomes without a lease or a ticket.
LEMMA PlainOutcomes ==
  /\ \A reason : Denied(reason).type \notin {"Admitted", "Queued", "Renewed"}
  /\ \A reason : Lost(reason).type \notin {"Admitted", "Queued", "Renewed"}
  /\ \A id : Pending(id).type \notin {"Admitted", "Queued", "Renewed"}
  /\ Finalized.type \notin {"Admitted", "Queued", "Renewed"}
  /\ CancelledTicket.type \notin {"Admitted", "Queued", "Renewed"}
BY DEF Denied, Lost, Pending, Finalized, CancelledTicket

LEMMA GrantIds ==
  ASSUME TypeOK, CanIssue, tokenSequence' = NextId, NEW now \in Instant
  PROVE  /\ tokenSequence \in Nat /\ tokenSequence' \in Nat
         /\ tokenSequence <= tokenSequence' /\ NextId \in 1 .. tokenSequence'
         /\ now + LeaseTTL \in Nat
BY TokenBounds, ConfigAssumption DEF CanIssue, NextId, Instant

LEMMA AdmitNamed ==
  ASSUME TypeOK, ReceiptsNamed, NEW now \in Instant, NEW op,
         NEW ip \in Ip, NEW session \in Session, AdmitOrEnqueue(op, ip, session, now)
  PROVE  ReceiptsNamed'
<1> DEFINE args == <<ip, session>>
<1>0. \/ AdmitReplayed(op, now) \/ AdmitThrottled(op, args, now)
      \/ AdmitRefused(op, args, now) \/ AdmitDenied(op, args, now)
      \/ AdmitGranted(op, args, now) \/ AdmitQueued(op, args, now)
  BY DEF AdmitOrEnqueue
<1> HIDE DEF args
<1>1. tokenSequence \in Nat
  BY TokenBounds
<1>2. CASE AdmitReplayed(op, now) \/ AdmitRefused(op, args, now)
  BY <1>1, <1>2, PruneNamed DEF AdmitReplayed, AdmitRefused, OnlyPrune
<1>3. CASE AdmitThrottled(op, args, now)
  BY <1>1, <1>3, RecordNamed, PlainOutcomes DEF AdmitThrottled
<1>4. CASE AdmitDenied(op, args, now)
  <2>1. AdmitBranch(now) \in {"budget", "busy"}
    BY <1>4 DEF AdmitDenied, Unthrottled
  <2>2. AdmitDenial(now).type = "Denied"
    BY <2>1 DEF AdmitDenial, Denied
  <2> QED BY <1>1, <1>4, <2>2, RecordNamed DEF AdmitDenied
<1>5. CASE AdmitGranted(op, args, now)
  <2>1. CanIssue
    BY <1>5 DEF AdmitGranted, Unthrottled, AdmitRoom
  <2>2. tokenSequence' = NextId
    BY <1>5 DEF AdmitGranted, GrantLease
  <2>3. /\ Admitted(NextId, now + LeaseTTL).id = NextId
        /\ Admitted(NextId, now + LeaseTTL).expires = now + LeaseTTL
    BY DEF Admitted
  <2> QED BY <1>5, <2>1, <2>2, <2>3, GrantIds, RecordNamed DEF AdmitGranted
<1>6. CASE AdmitQueued(op, args, now)
  <2>1. CanIssue
    BY <1>6 DEF AdmitQueued, Unthrottled, AdmitRoom
  <2>2. Queued(NextId).id = NextId /\ Queued(NextId).type = "Queued"
    BY DEF Queued
  <2> QED BY <1>6, <2>1, <2>2, GrantIds, RecordNamed DEF AdmitQueued
<1> QED BY <1>0, <1>2, <1>3, <1>4, <1>5, <1>6

LEMMA PollNamed ==
  ASSUME TypeOK, ReceiptsNamed, NEW now \in Instant, NEW op, NEW h,
         WaitForAdmission(op, h, now)
  PROVE  ReceiptsNamed'
<1>1. tokenSequence \in Nat
  BY TokenBounds
<1>2. CASE Replayed(op, now) \/ PollRefused(op, h, now)
  BY <1>1, <1>2, PruneNamed DEF Replayed, PollRefused, Refused, OnlyPrune
<1>3. CASE PollGone(op, h, now) \/ PollPending(op, h, now) \/ PollDenied(op, h, now)
  BY <1>1, <1>3, RecordNamed, PlainOutcomes
     DEF PollGone, PollPending, PollDenied, PollAnswered
<1>4. CASE PollAdmitted(op, h, now)
  <2>1. CanIssue
    BY <1>4 DEF PollAdmitted, PollAnswered, PollRoom
  <2>2. tokenSequence' = NextId
    BY <1>4 DEF PollAdmitted, GrantLease
  <2>3. /\ Admitted(NextId, now + LeaseTTL).id = NextId
        /\ Admitted(NextId, now + LeaseTTL).expires = now + LeaseTTL
    BY DEF Admitted
  <2> QED BY <1>4, <2>1, <2>2, <2>3, GrantIds, RecordNamed DEF PollAdmitted, PollAnswered
<1> QED BY <1>2, <1>3, <1>4 DEF WaitForAdmission

LEMMA RenewNamed ==
  ASSUME TypeOK, ReceiptsNamed, NEW now \in Instant, NEW op, NEW h, Renew(op, h, now)
  PROVE  ReceiptsNamed'
<1>1. tokenSequence \in Nat /\ now + LeaseTTL \in Nat
  BY TokenBounds, ConfigAssumption DEF Instant
<1>2. CASE Replayed(op, now) \/ RenewRefused(op, h, now)
  BY <1>1, <1>2, PruneNamed DEF Replayed, RenewRefused, Refused, OnlyPrune
<1>3. CASE RenewLost(op, h, now)
  BY <1>1, <1>3, RecordNamed, PlainOutcomes DEF RenewLost, RenewAnswered
<1>4. CASE RenewGranted(op, h, now)
  <2>1. /\ Renewed(now + LeaseTTL).type = "Renewed"
        /\ Renewed(now + LeaseTTL).expires = now + LeaseTTL
    BY DEF Renewed
  <2> QED BY <1>1, <1>4, <2>1, RecordNamed DEF RenewGranted, RenewAnswered
<1> QED BY <1>2, <1>3, <1>4 DEF Renew

LEMMA CloseNamed ==
  ASSUME TypeOK, ReceiptsNamed, NEW now \in Instant, NEW op, NEW h, NEW charge,
         NEW uncertain,
         Finalize(op, h, charge, uncertain, now) \/ CancelTicket(op, h, now)
  PROVE  ReceiptsNamed'
<1>1. tokenSequence \in Nat
  BY TokenBounds
<1>2. CASE Replayed(op, now) \/ FinalizeRefused(op, h, now) \/ CancelRefused(op, h, now)
  BY <1>1, <1>2, PruneNamed
     DEF Replayed, FinalizeRefused, CancelRefused, Refused, OnlyPrune
<1>3. CASE FinalizeSettled(op, h, charge, uncertain, now) \/ CancelDone(op, h, now)
  BY <1>1, <1>3, RecordNamed, PlainOutcomes DEF FinalizeSettled, CancelDone
<1> QED BY <1>2, <1>3 DEF Finalize, CancelTicket

-----------------------------------------------------------------------------
(* Steps that leave the store alone.                                       *)

Quiet == UNCHANGED <<vars, clock>>

LEMMA StoreStays ==
  ASSUME StoreInv, UNCHANGED vars
  PROVE  StoreInv' /\ tokenSequence' = tokenSequence
<1>1. WindowInv'
  BY WindowInvNext DEF StoreInv
<1>2. receipts' = receipts /\ tokenSequence' = tokenSequence
  BY DEF vars
<1>3. ReceiptsNamed'
  BY <1>2 DEF StoreInv, ReceiptsNamed, Named
<1> QED BY <1>1, <1>2, <1>3 DEF StoreInv

LEMMA ClockStays ==
  ASSUME ClockInv, Quiet
  PROVE  ClockInv'
BY DEF ClockInv, Quiet, vars

LEMMA Timing ==
  /\ CallTimeout \in Nat \ {0} /\ PollInterval \in Nat \ {0}
  /\ QueueWait \in Nat /\ LeaseRenew \in Nat /\ LeaseTTL \in Nat \ {0}
  /\ LeaseRenew >= 2 * CallTimeout /\ Horizon \in Nat /\ MaxActive \in Nat \ {0}
  /\ RenewalTicks \in Nat \ {0}
BY TimingAssumption, ConfigAssumption

\* A call that is sent keeps the messages and the calls well-formed.
LEMMA SendOK ==
  ASSUME MessageInv, CallInv, ClockInv, Quiet, NEW r \in Request, NEW c, Send(r, c),
         c.op \in OperationId, Servable(c.kind, c.args), CallOK(c),
         NEW p \in Phase, phase' = [phase EXCEPT ![r] = p]
  PROVE  MessageInv' /\ CallInv'
<1>1. tokenSequence' = tokenSequence /\ clock' = clock /\ clock \in Nat
  BY ConfigAssumption DEF Quiet, vars, ClockInv, Instant
<1>2. \A kind, args : Servable(kind, args)' <=> Servable(kind, args)
  BY <1>1 DEF Servable, IssuedHandle
<1>3. \A d : CallOK(d)' <=> CallOK(d)
  BY <1>1 DEF CallOK, Named
<1>4. MessageInv'
  <2>1. messages' = messages \cup {Message(r, c)}
    BY DEF Send
  <2>2. /\ Message(r, c).op = c.op /\ Message(r, c).kind = c.kind
        /\ Message(r, c).args = c.args /\ Message(r, c).sent = clock
    BY DEF Message
  <2>3. ASSUME NEW m \in messages'
        PROVE  /\ m.op \in OperationId /\ m.sent \in Nat /\ m.sent <= clock'
               /\ Servable(m.kind, m.args)'
    <3>1. CASE m \in messages
      BY <1>1, <1>2, <3>1 DEF MessageInv
    <3>2. CASE m = Message(r, c)
      BY <1>1, <1>2, <2>2, <3>2
    <3> QED BY <2>1, <3>1, <3>2
  <2> QED BY <2>3 DEF MessageInv
<1>5. call' = [call EXCEPT ![r] = c]
  BY DEF Send, Set
<1>6. DOMAIN call' = Request /\ phase' \in [Request -> Phase]
  BY <1>5 DEF CallInv
<1>7. ASSUME NEW s \in Request
      PROVE  /\ CallOK(call[s])'
             /\ phase'[s] \in Waiting =>
                  call'[s].op \in OperationId /\ Servable(call[s].kind, call[s].args)'
  <2>1. CASE s = r
    <3>1. call'[s] = c
      BY <1>5, <2>1 DEF CallInv
    <3>2. CallOK(call[s])'
      BY <1>1, <3>1 DEF CallOK, Named
    <3>3. Servable(call[s].kind, call[s].args)'
      BY <1>1, <3>1 DEF Servable, IssuedHandle
    <3> QED BY <3>1, <3>2, <3>3
  <2>2. CASE s # r
    <3>1. call'[s] = call[s] /\ phase'[s] = phase[s]
      BY <1>5, <2>2 DEF CallInv
    <3>2. CallOK(call[s])'
      <4>1. CallOK(call[s])
        BY DEF CallInv
      <4> QED BY <1>1, <3>1, <4>1 DEF CallOK, Named
    <3>3. ASSUME phase'[s] \in Waiting
          PROVE  call'[s].op \in OperationId /\ Servable(call[s].kind, call[s].args)'
      <4>1. call[s].op \in OperationId /\ Servable(call[s].kind, call[s].args)
        BY <3>1, <3>3 DEF CallInv
      <4> QED BY <1>1, <3>1, <4>1 DEF Servable, IssuedHandle
    <3> QED BY <3>2, <3>3
  <2> QED BY <2>1, <2>2
<1>8. CallInv'
  BY <1>6, <1>7 DEF CallInv
<1> QED BY <1>4, <1>8

LEMMA AskOK ==
  ASSUME MessageInv, CallInv, ClockInv, Quiet, NEW r \in Request,
         NEW kind, NEW args, NEW overall \in Nat, Ask(r, kind, args, overall),
         Servable(kind, args), NEW p \in Phase, phase' = [phase EXCEPT ![r] = p]
  PROVE  MessageInv' /\ CallInv'
<1> DEFINE c == [op |-> NewOperation(r), kind |-> kind, args |-> args, attempt |-> 1,
                 started |-> clock, deadline |-> Lesser(clock + CallTimeout, overall),
                 overall |-> overall, reply |-> NoReply]
<1>1. NewOperation(r) \in OperationId /\ Send(r, c)
  BY DEF Ask
<1>2. clock \in Nat /\ clock + CallTimeout \in Nat
  BY Timing, ConfigAssumption DEF ClockInv, Instant
<1>3. Lesser(clock + CallTimeout, overall) \in Nat
  BY <1>2 DEF Lesser
<1>4. NewOperation(r) \in Request \X (0 .. MaxCalls)
  BY <1>1, OperationAssumption
<1>5. /\ DOMAIN c = CallField /\ c.op = NewOperation(r) /\ c.kind = kind
      /\ c.args = args /\ c.started = clock /\ c.overall = overall
      /\ c.deadline = Lesser(clock + CallTimeout, overall) /\ c.reply = NoReply
  BY DEF CallField
<1> HIDE DEF c
<1>6. CallOK(c)
  BY <1>2, <1>3, <1>4, <1>5, NamedFailure DEF CallOK
<1>7. PICK d : d = c
  OBVIOUS
<1>8. Send(r, d)
  BY <1>1, <1>7 DEF Send, Message, Set
<1>9. d.op \in OperationId /\ Servable(d.kind, d.args)
  BY <1>1, <1>5, <1>7
<1>10. CallOK(d)
  BY <1>6, <1>7
<1> QED BY <1>8, <1>9, <1>10, SendOK

LEMMA ReplayOK ==
  ASSUME MessageInv, CallInv, ClockInv, NEW r \in Request, Replay(r)
  PROVE  MessageInv' /\ CallInv'
<1> DEFINE d == Lesser(clock + CallTimeout, call[r].overall)
           c == [call[r] EXCEPT !.attempt = 2, !.reply = NoReply, !.deadline = d]
<1>1. Quiet /\ Send(r, c) /\ phase[r] \in Waiting /\ phase' = phase
  BY DEF Replay, Quiet
<1>2. clock \in Nat /\ clock + CallTimeout \in Nat /\ call[r].overall \in Nat
  BY Timing, ConfigAssumption DEF ClockInv, Instant, CallInv, CallOK
<1>3. d \in Nat
  BY <1>2 DEF Lesser
<1> HIDE DEF d
<1>4. DOMAIN call[r] = CallField
  BY DEF CallInv, CallOK
<1>5. /\ DOMAIN c = CallField /\ c.op = call[r].op /\ c.kind = call[r].kind
      /\ c.args = call[r].args /\ c.started = call[r].started
      /\ c.overall = call[r].overall /\ c.deadline = d /\ c.reply = NoReply
  BY <1>4 DEF CallField
<1> HIDE DEF c
<1>6. CallOK(c) /\ c.op \in OperationId /\ Servable(c.kind, c.args)
  BY <1>1, <1>3, <1>5, NamedFailure DEF CallInv, CallOK
<1>7. PICK e : e = c
  OBVIOUS
<1>8. PICK p : p = phase[r]
  OBVIOUS
<1>9. p \in Phase /\ phase' = [phase EXCEPT ![r] = p]
  BY <1>1, <1>8 DEF CallInv
<1>10. Send(r, e)
  BY <1>1, <1>7 DEF Send, Message, Set
<1>11. CallOK(e) /\ e.op \in OperationId /\ Servable(e.kind, e.args)
  BY <1>6, <1>7
<1> QED BY <1>1, <1>9, <1>10, <1>11, SendOK

\* A request that waits for no call any more.
LEMMA EndOK ==
  ASSUME MessageInv, CallInv, Quiet, NEW r \in Request, NEW p \in Phase \ Waiting,
         EndCall(r) \/ NoCall, phase' = [phase EXCEPT ![r] = p]
  PROVE  MessageInv' /\ CallInv'
<1>1. /\ tokenSequence' = tokenSequence /\ clock' = clock /\ messages' = messages
  BY DEF Quiet, vars, EndCall, NoCall
<1>2. \A kind, args : Servable(kind, args)' <=> Servable(kind, args)
  BY <1>1 DEF Servable, IssuedHandle
<1>3. \A d : CallOK(d)' <=> CallOK(d)
  BY <1>1 DEF CallOK, Named
<1>4. MessageInv'
  BY <1>1, <1>2 DEF MessageInv
<1>5. DOMAIN Idle(r) = CallField /\ Idle(r).op = call[r].op /\ Idle(r).started = 0
      /\ Idle(r).deadline = 0 /\ Idle(r).overall = 0 /\ Idle(r).reply = NoReply
  BY DEF Idle, CallField
<1>6. CallOK(Idle(r))
  BY <1>5, NamedFailure DEF CallOK, CallInv
<1>7. call' = [call EXCEPT ![r] = Idle(r)] \/ call' = call
  BY DEF EndCall, NoCall, Set
<1>8. DOMAIN call' = Request /\ phase' \in [Request -> Phase]
  BY <1>7 DEF CallInv
<1>9. ASSUME NEW s \in Request
      PROVE  /\ CallOK(call[s])'
             /\ phase'[s] \in Waiting =>
                  call'[s].op \in OperationId /\ Servable(call[s].kind, call[s].args)'
  <2>1. CASE s = r
    <3>1. CallOK(call'[s])
      BY <1>6, <1>7, <2>1 DEF CallInv
    <3>2. CallOK(call[s])'
      BY <1>1, <3>1 DEF CallOK, Named
    <3>3. phase'[s] \notin Waiting
      BY <2>1 DEF CallInv
    <3> QED BY <3>2, <3>3
  <2>2. CASE s # r
    <3>1. call'[s] = call[s] /\ phase'[s] = phase[s]
      BY <1>7, <2>2 DEF CallInv
    <3>2. CallOK(call[s])'
      <4>1. CallOK(call[s])
        BY DEF CallInv
      <4> QED BY <1>1, <3>1, <4>1 DEF CallOK, Named
    <3>3. ASSUME phase'[s] \in Waiting
          PROVE  call'[s].op \in OperationId /\ Servable(call[s].kind, call[s].args)'
      <4>1. call[s].op \in OperationId /\ Servable(call[s].kind, call[s].args)
        BY <3>1, <3>3 DEF CallInv
      <4> QED BY <1>1, <3>1, <4>1 DEF Servable, IssuedHandle
    <3> QED BY <3>2, <3>3
  <2> QED BY <2>1, <2>2
<1>10. CallInv'
  BY <1>8, <1>9 DEF CallInv
<1> QED BY <1>4, <1>10

-----------------------------------------------------------------------------
(* The parts a step leaves alone, and the ways the others change.          *)

LEMMA QuietOK ==
  ASSUME ChatInv, Quiet
  PROVE  /\ StoreInv' /\ ClockInv' /\ tokenSequence' = tokenSequence
         /\ tokenSequence \in Nat /\ clock \in Nat
<1>1. UNCHANGED vars
  BY DEF Quiet
<1>2. TypeOK
  BY DEF ChatInv, StoreInv, WindowInv
<1>3. clock \in Nat
  BY ConfigAssumption DEF ChatInv, ClockInv, Instant
<1> QED BY <1>1, <1>2, <1>3, StoreStays, ClockStays, TokenBounds DEF ChatInv

\* No call begins or ends.
LEMMA CallStays ==
  ASSUME MessageInv, CallInv, Quiet, UNCHANGED <<messages, call, phase>>
  PROVE  MessageInv' /\ CallInv'
<1>1. tokenSequence' = tokenSequence /\ clock' = clock
  BY DEF Quiet, vars
<1>2. MessageInv'
  BY <1>1 DEF MessageInv, Servable, IssuedHandle
<1>3. ASSUME NEW s \in Request
      PROVE  /\ CallOK(call[s])'
             /\ phase'[s] \in Waiting =>
                  call'[s].op \in OperationId /\ Servable(call[s].kind, call[s].args)'
  <2>1. call'[s] = call[s] /\ phase'[s] = phase[s]
    OBVIOUS
  <2>2. CallOK(call[s])'
    <3>1. CallOK(call[s])
      BY DEF CallInv
    <3> QED BY <1>1, <2>1, <3>1 DEF CallOK, Named
  <2>3. ASSUME phase'[s] \in Waiting
        PROVE  call'[s].op \in OperationId /\ Servable(call[s].kind, call[s].args)'
    <3>1. call[s].op \in OperationId /\ Servable(call[s].kind, call[s].args)
      BY <2>1, <2>3 DEF CallInv
    <3> QED BY <1>1, <2>1, <3>1 DEF Servable, IssuedHandle
  <2> QED BY <2>2, <2>3
<1>4. DOMAIN call' = Request /\ phase' \in [Request -> Phase]
  BY DEF CallInv
<1> QED BY <1>2, <1>3, <1>4 DEF CallInv

LEMMA OwnerStays ==
  ASSUME OwnerInv, tokenSequence' = tokenSequence, UNCHANGED <<ticket, lease>>
  PROVE  OwnerInv'
BY DEF OwnerInv

LEMMA OwnerSet ==
  ASSUME OwnerInv, tokenSequence' = tokenSequence, NEW r \in Request,
         NEW id \in 0 .. tokenSequence,
         ticket' = ticket \/ ticket' = [ticket EXCEPT ![r] = id]
           \/ ticket' = [ticket EXCEPT ![r] = 0],
         lease' = lease \/ lease' = [lease EXCEPT ![r] = id]
           \/ lease' = [lease EXCEPT ![r] = 0],
         tokenSequence \in Nat
  PROVE  OwnerInv'
<1>1. 0 \in 0 .. tokenSequence
  OBVIOUS
<1> QED BY <1>1 DEF OwnerInv

LEMMA WaitStays ==
  ASSUME WaitInv, UNCHANGED <<phase, ticket>>
  PROVE  WaitInv'
BY DEF WaitInv

LEMMA WaitSet ==
  ASSUME WaitInv, CallInv, NEW r \in Request, NEW p,
         phase' = [phase EXCEPT ![r] = p],
         \A s \in Request \ {r} : ticket'[s] = ticket[s],
         p \in {"queued", "polling"} => ticket'[r] # 0
  PROVE  WaitInv'
<1> SUFFICES ASSUME NEW s \in Request, phase'[s] \in {"queued", "polling"}
             PROVE  ticket'[s] # 0
  BY DEF WaitInv
<1>1. CASE s = r
  <2>1. phase'[s] = p
    BY <1>1 DEF CallInv
  <2> QED BY <1>1, <2>1
<1>2. CASE s # r
  <2>1. phase'[s] = phase[s]
    BY <1>2 DEF CallInv
  <2> QED BY <1>2, <2>1 DEF WaitInv
<1> QED BY <1>1, <1>2

LEMMA AuthorityFinite ==
  ASSUME AuthorityInv, tokenSequence \in Nat, NEW S \in SUBSET DOMAIN authority
  PROVE  /\ IsFiniteSet(S) /\ Cardinality(S) \in Nat
         /\ Cardinality(S) <= Cardinality(DOMAIN authority)
         /\ Cardinality(DOMAIN authority) \in Nat
<1>1. IsFiniteSet(1 .. tokenSequence)
  BY FS_Interval
<1>2. IsFiniteSet(DOMAIN authority)
  BY <1>1, FS_Subset DEF AuthorityInv, Functional
<1> QED BY <1>2, FS_Subset, FS_CardinalityType

LEMMA AuthorityStays ==
  ASSUME AuthorityInv, tokenSequence' = tokenSequence, UNCHANGED authority
  PROVE  AuthorityInv'
BY DEF AuthorityInv, Functional, Entry

LEMMA AuthorityRestricted ==
  ASSUME AuthorityInv, tokenSequence' = tokenSequence, tokenSequence \in Nat,
         NEW S \in SUBSET DOMAIN authority, authority' = Restrict(authority, S)
  PROVE  AuthorityInv'
<1>1. DOMAIN authority' = S /\ \A i \in S : authority'[i] = authority[i]
  BY DEF Restrict
<1>2. Cardinality(S) <= MaxActive
  BY AuthorityFinite, Timing DEF AuthorityInv
<1> QED BY <1>1, <1>2 DEF AuthorityInv, Functional, Entry

LEMMA AuthorityDropped ==
  ASSUME AuthorityInv, tokenSequence' = tokenSequence, tokenSequence \in Nat,
         NEW id, Drop(id)
  PROVE  AuthorityInv'
<1>1. DOMAIN authority \ {id} \in SUBSET DOMAIN authority
  OBVIOUS
<1> QED BY <1>1, AuthorityRestricted DEF Drop, Without

LEMMA AuthorityMoved ==
  ASSUME AuthorityInv, tokenSequence' = tokenSequence, NEW id,
         NEW e \in Entry, authority' = [authority EXCEPT ![id] = e]
  PROVE  AuthorityInv'
BY DEF AuthorityInv, Functional, Entry

LEMMA AuthorityRecorded ==
  ASSUME AuthorityInv, tokenSequence' = tokenSequence, tokenSequence \in Nat,
         NEW outcome, NEW started \in Nat, RecordAuthority(outcome, started),
         outcome.id \in 1 .. tokenSequence, outcome.expires \in Nat
  PROVE  AuthorityInv'
<1> DEFINE kept == Restrict(authority, Current(started))
           e == [deadline |-> started + LeaseTTL, expiry |-> outcome.expires]
<1>1. Current(started) \in SUBSET DOMAIN authority
  BY DEF Current
<1>2. CASE ~Recordable(outcome.id, started)
  BY <1>1, <1>2, AuthorityRestricted DEF RecordAuthority
<1>3. CASE Recordable(outcome.id, started)
  <2>1. authority' = Put(kept, outcome.id, e)
    BY <1>3 DEF RecordAuthority
  <2>2. e \in Entry
    BY Timing DEF Entry
  <2>3. DOMAIN kept = Current(started) /\ \A i \in Current(started) : kept[i] = authority[i]
    BY DEF Restrict
  <2> HIDE DEF kept, e
  <2>4. DOMAIN authority' = Current(started) \cup {outcome.id}
    BY <2>1, <2>3 DEF Put
  <2>5. ASSUME NEW i \in DOMAIN authority' PROVE authority'[i] \in Entry
    <3>1. CASE i = outcome.id
      BY <2>1, <2>2, <2>4, <3>1 DEF Put
    <3>2. CASE i # outcome.id
      <4>1. i \in Current(started) /\ authority'[i] = authority[i]
        BY <2>1, <2>3, <2>4, <3>2 DEF Put
      <4> QED BY <1>1, <4>1 DEF AuthorityInv, Functional
    <3> QED BY <3>1, <3>2
  <2>6. Cardinality(DOMAIN authority') <= MaxActive
    <3>1. IsFiniteSet(Current(started)) /\ Cardinality(Current(started)) \in Nat
      BY <1>1, AuthorityFinite
    <3>2. Cardinality(Current(started) \cup {outcome.id})
            = Cardinality(Current(started)) + 1
      BY <1>3, <3>1, FS_AddElement DEF Recordable
    <3> QED BY <1>3, <2>4, <3>1, <3>2, Timing DEF Recordable
  <2>7. DOMAIN authority' \subseteq 1 .. tokenSequence'
    BY <1>1, <2>4 DEF AuthorityInv, Functional
  <2> QED BY <2>5, <2>6, <2>7 DEF AuthorityInv, Functional, Entry
<1> QED BY <1>2, <1>3

LEMMA TimerStays ==
  ASSUME TimerInv, UNCHANGED <<wake, waitEnd, ticks>>
  PROVE  TimerInv'
BY DEF TimerInv

LEMMA WorkStays ==
  ASSUME WorkInv, UNCHANGED work
  PROVE  WorkInv'
BY DEF WorkInv

-----------------------------------------------------------------------------
(* The steps of the store, of the clock and of the readiness probe.        *)

LEMMA ExecuteIsNext ==
  ASSUME ClockInv, NEW m, Servable(m.kind, m.args), m.op \in OperationId, Execute(m)
  PROVE  Next /\ lastNow' = clock
<1>1. clock \in Instant
  BY DEF ClockInv
<1>2. CASE m.kind = "admit_or_enqueue"
  <2>1. AdmitOrEnqueue(m.op, m.args[1], m.args[2], clock)
    BY <1>2 DEF Execute
  <2>2. m.args[1] \in Ip /\ m.args[2] \in Session
    BY <1>2 DEF Servable
  <2>3. lastNow' = clock
    BY <2>1 DEF AdmitOrEnqueue, Enters
  <2> QED BY <1>1, <2>1, <2>2, <2>3 DEF Next, CallByClient
<1>3. CASE m.kind = "wait_for_admission"
  <2>1. WaitForAdmission(m.op, m.args, clock) /\ m.args \in IssuedHandle
    BY <1>3 DEF Execute, Servable
  <2>2. lastNow' = clock
    BY <2>1 DEF WaitForAdmission, Enters
  <2> QED BY <1>1, <2>1, <2>2 DEF Next, CallByHolder
<1>4. CASE m.kind = "renew"
  <2>1. Renew(m.op, m.args, clock) /\ m.args \in IssuedHandle
    BY <1>4 DEF Execute, Servable
  <2>2. lastNow' = clock
    BY <2>1 DEF Renew, Enters
  <2> QED BY <1>1, <2>1, <2>2 DEF Next, CallByHolder
<1>5. CASE m.kind = "cancel_ticket"
  <2>1. CancelTicket(m.op, m.args, clock) /\ m.args \in IssuedHandle
    BY <1>5 DEF Execute, Servable
  <2>2. lastNow' = clock
    BY <2>1 DEF CancelTicket, Enters
  <2> QED BY <1>1, <2>1, <2>2 DEF Next, CallByHolder
<1>6. CASE m.kind = "finalize"
  <2>1. Finalize(m.op, m.args[1], m.args[2], m.args[3], clock)
    BY <1>6 DEF Execute
  <2>2. m.args[1] \in IssuedHandle /\ m.args[2] \in Charges /\ m.args[3] \in BOOLEAN
    BY <1>6 DEF Servable
  <2>3. lastNow' = clock
    BY <2>1 DEF Finalize, Enters
  <2> QED BY <1>1, <2>1, <2>2, <2>3 DEF Next, CallByHolder
<1> QED BY <1>2, <1>3, <1>4, <1>5, <1>6 DEF Execute

LEMMA ExecuteNames ==
  ASSUME StoreInv, ClockInv, NEW m, Servable(m.kind, m.args), Execute(m)
  PROVE  ReceiptsNamed'
<1>1. clock \in Instant /\ TypeOK /\ ReceiptsNamed
  BY DEF ClockInv, StoreInv, WindowInv
<1>2. CASE m.kind = "admit_or_enqueue"
  <2>1. AdmitOrEnqueue(m.op, m.args[1], m.args[2], clock)
    BY <1>2 DEF Execute
  <2>2. m.args[1] \in Ip /\ m.args[2] \in Session
    BY <1>2 DEF Servable
  <2> QED BY <1>1, <2>1, <2>2, AdmitNamed
<1>3. CASE m.kind = "wait_for_admission"
  <2>1. WaitForAdmission(m.op, m.args, clock)
    BY <1>3 DEF Execute
  <2> QED BY <1>1, <2>1, PollNamed
<1>4. CASE m.kind = "renew"
  <2>1. Renew(m.op, m.args, clock)
    BY <1>4 DEF Execute
  <2> QED BY <1>1, <2>1, RenewNamed
<1>5. CASE m.kind = "cancel_ticket"
  <2>1. CancelTicket(m.op, m.args, clock)
    BY <1>5 DEF Execute
  <2> QED BY <1>1, <2>1, CloseNamed
<1>6. CASE m.kind = "finalize"
  <2>1. Finalize(m.op, m.args[1], m.args[2], m.args[3], clock)
    BY <1>6 DEF Execute
  <2> QED BY <1>1, <2>1, CloseNamed
<1> QED BY <1>2, <1>3, <1>4, <1>5, <1>6 DEF Execute

\* Ids are only ever added.
LEMMA IdsGrow ==
  ASSUME WindowInv, Next
  PROVE  /\ tokenSequence \in Nat /\ tokenSequence' \in Nat
         /\ tokenSequence <= tokenSequence'
<1>1. TypeOK
  BY DEF WindowInv
<1>2. PICK now \in Instant : LeaseEffect(now)
  BY <1>1, NextEffect DEF Effect
<1>3. tokenSequence' \in tokenSequence .. MaxPairs
  BY <1>2, LeaseEffectInv DEF LeaseStepOK
<1> QED BY <1>1, <1>3, TokenBounds

LEMMA OwnersKeepIds ==
  ASSUME OwnerInv, AuthorityInv, UNCHANGED <<ticket, lease, authority>>,
         tokenSequence \in Nat, tokenSequence' \in Nat,
         tokenSequence <= tokenSequence'
  PROVE  OwnerInv' /\ AuthorityInv'
<1>1. /\ 0 .. tokenSequence \subseteq 0 .. tokenSequence'
      /\ 1 .. tokenSequence \subseteq 1 .. tokenSequence'
  OBVIOUS
<1> QED BY <1>1 DEF OwnerInv, AuthorityInv, Functional, Entry

LEMMA ServableStays ==
  ASSUME NEW kind, NEW args, Servable(kind, args),
         tokenSequence \in Nat, tokenSequence' \in Nat,
         tokenSequence <= tokenSequence'
  PROVE  Servable(kind, args)'
<1>1. IssuedHandle \subseteq IssuedHandle'
  <2>1. ASSUME NEW h \in IssuedHandle PROVE h \in IssuedHandle'
    <3>1. h \in Handle /\ h.id <= tokenSequence /\ h.id \in Nat
      BY ConfigAssumption DEF IssuedHandle, Handle, TokenId
    <3> QED BY <3>1 DEF IssuedHandle
  <2> QED BY <2>1
<1> QED BY <1>1 DEF Servable

LEMMA LandOK ==
  ASSUME ChatInv, NEW m \in messages, Land(m)
  PROVE  Next /\ ChatInv'
<1>1. Servable(m.kind, m.args) /\ m.op \in OperationId /\ Execute(m)
  BY DEF ChatInv, RequestInv, MessageInv, Land
<1>2. Next /\ lastNow' = clock
  BY <1>1, ExecuteIsNext DEF ChatInv
<1>3. StoreInv'
  BY <1>1, <1>2, WindowInvNext, ExecuteNames DEF ChatInv, StoreInv
<1>4. /\ tokenSequence \in Nat /\ tokenSequence' \in Nat
      /\ tokenSequence <= tokenSequence'
  BY <1>2, IdsGrow DEF ChatInv, StoreInv
<1>5. ClockInv'
  BY <1>2, ConfigAssumption DEF ChatInv, ClockInv, Instant, Land
<1>6. MessageInv'
  <2>1. ASSUME NEW n \in messages'
        PROVE  /\ n.op \in OperationId /\ n.sent \in Nat /\ n.sent <= clock'
               /\ Servable(n.kind, n.args)'
    <3>1. n \in messages /\ clock' = clock
      BY DEF Land
    <3>2. /\ n.op \in OperationId /\ n.sent \in Nat /\ n.sent <= clock
          /\ Servable(n.kind, n.args)
      BY <3>1 DEF ChatInv, RequestInv, MessageInv
    <3> QED BY <1>4, <3>1, <3>2, ServableStays
  <2> QED BY <2>1 DEF MessageInv
<1>7. CallInv'
  <2>1. PICK a : a = AnswerTo(m)
    OBVIOUS
  <2>2. /\ a.type \in {"Admitted", "Queued"} => a.id \in 1 .. tokenSequence'
        /\ a.type \in {"Admitted", "Renewed"} => a.expires \in Nat
    <3>1. CASE m.op \in DOMAIN receipts'
      BY <1>3, <2>1, <3>1 DEF AnswerTo, StoreInv, ReceiptsNamed, Named
    <3>2. CASE m.op \notin DOMAIN receipts'
      BY <2>1, <3>2 DEF AnswerTo, Failure
    <3> QED BY <3>1, <3>2
  <2>3. ASSUME NEW s \in Request
        PROVE  /\ CallOK(call[s])'
               /\ phase'[s] \in Waiting =>
                    call'[s].op \in OperationId /\ Servable(call[s].kind, call[s].args)'
    <3>1. CallOK(call[s]) /\ phase' = phase
      BY DEF ChatInv, RequestInv, CallInv, Land
    <3>2. call'[s] = call[s] \/ call'[s] = [call[s] EXCEPT !.reply = a]
      BY <2>1 DEF Land
    <3>3. /\ DOMAIN call'[s] = DOMAIN call[s] /\ call'[s].op = call[s].op
          /\ call'[s].kind = call[s].kind /\ call'[s].args = call[s].args
          /\ call'[s].started = call[s].started
          /\ call'[s].deadline = call[s].deadline
          /\ call'[s].overall = call[s].overall
          /\ call'[s].reply \in {call[s].reply, a}
      BY <3>1, <3>2 DEF CallOK, CallField
    <3>4. /\ call[s].reply.type \in {"Admitted", "Queued"} =>
               call[s].reply.id \in 1 .. tokenSequence'
          /\ call[s].reply.type \in {"Admitted", "Renewed"} =>
               call[s].reply.expires \in Nat
      BY <1>4, <3>1, NamedStays DEF CallOK
    <3>5. CallOK(call[s])'
      BY <2>2, <3>1, <3>3, <3>4 DEF CallOK, Named
    <3>6. ASSUME phase'[s] \in Waiting
          PROVE  call'[s].op \in OperationId /\ Servable(call[s].kind, call[s].args)'
      <4>1. call[s].op \in OperationId /\ Servable(call[s].kind, call[s].args)
        BY <3>1, <3>6 DEF ChatInv, RequestInv, CallInv
      <4>2. PICK k, g : k = call[s].kind /\ g = call[s].args
        OBVIOUS
      <4>3. Servable(k, g)'
        BY <1>4, <4>1, <4>2, ServableStays
      <4>4. k = call'[s].kind /\ g = call'[s].args
        BY <3>3, <4>2
      <4> QED BY <3>3, <4>1, <4>3, <4>4 DEF Servable, IssuedHandle
    <3> QED BY <3>5, <3>6
  <2>4. DOMAIN call' = Request /\ phase' \in [Request -> Phase]
    BY DEF Land, ChatInv, RequestInv, CallInv
  <2> QED BY <2>3, <2>4 DEF CallInv
<1>8. OwnerInv' /\ AuthorityInv'
  BY <1>4, OwnersKeepIds DEF Land, ChatInv, RequestInv
<1>9. TimerInv' /\ WorkInv' /\ WaitInv'
  BY TimerStays, WorkStays, WaitStays DEF Land, ChatInv, RequestInv
<1> QED BY <1>2, <1>3, <1>5, <1>6, <1>7, <1>8, <1>9 DEF ChatInv, RequestInv

LEMMA TickOK ==
  ASSUME ChatInv, Tick
  PROVE  ChatInv'
<1>1. UNCHANGED vars /\ clock' = clock + 1 /\ clock < Horizon /\ messages' \subseteq messages
  BY DEF Tick
<1>2. StoreInv' /\ tokenSequence' = tokenSequence
  BY <1>1, StoreStays DEF ChatInv
<1>3. ClockInv'
  BY <1>1, ConfigAssumption DEF ChatInv, ClockInv, Instant, StoreInv, WindowInv, TypeOK, vars
<1>4. MessageInv'
  <2>1. ASSUME NEW m \in messages'
        PROVE  /\ m.op \in OperationId /\ m.sent \in Nat /\ m.sent <= clock'
               /\ Servable(m.kind, m.args)'
    <3>1. /\ m.op \in OperationId /\ m.sent \in Nat /\ m.sent <= clock
          /\ Servable(m.kind, m.args)
      BY <1>1 DEF ChatInv, RequestInv, MessageInv
    <3>2. m.sent <= clock + 1
      BY <3>1, ConfigAssumption DEF ChatInv, ClockInv, Instant
    <3> QED BY <1>1, <1>2, <3>1, <3>2 DEF Servable, IssuedHandle
  <2> QED BY <2>1 DEF MessageInv
<1>5. CallInv'
  <2>1. UNCHANGED <<call, phase>>
    BY DEF Tick, requests
  <2>2. ASSUME NEW s \in Request
        PROVE  /\ CallOK(call[s])'
               /\ phase'[s] \in Waiting =>
                    call'[s].op \in OperationId /\ Servable(call[s].kind, call[s].args)'
    <3>1. call'[s] = call[s] /\ phase'[s] = phase[s]
      BY <2>1
    <3>2. /\ CallOK(call[s])
          /\ phase[s] \in Waiting =>
               call[s].op \in OperationId /\ Servable(call[s].kind, call[s].args)
      BY DEF ChatInv, RequestInv, CallInv
    <3>3. CallOK(call[s])'
      BY <1>2, <3>1, <3>2 DEF CallOK, Named
    <3> QED BY <1>2, <3>1, <3>2, <3>3 DEF Servable, IssuedHandle
  <2> QED BY <2>1, <2>2 DEF ChatInv, RequestInv, CallInv
<1>6. OwnerInv' /\ WaitInv' /\ AuthorityInv' /\ TimerInv' /\ WorkInv'
  BY <1>2, OwnerStays, WaitStays, AuthorityStays, TimerStays, WorkStays
     DEF Tick, requests, ChatInv, RequestInv
<1> QED BY <1>2, <1>3, <1>4, <1>5, <1>6 DEF ChatInv, RequestInv

LEMMA ProbeOK ==
  ASSUME ChatInv, Probe
  PROVE  Next /\ ChatInv'
<1>1. /\ CheckBudgetReadiness(clock) /\ clock \in Instant
      /\ UNCHANGED <<clock, messages, requests>>
  BY DEF Probe, ChatInv, ClockInv
<1>2. Next
  BY <1>1 DEF Next
<1>3. /\ lastNow' = clock /\ receipts' = ReceiptsAt(clock)
      /\ tokenSequence' = tokenSequence
  BY <1>1 DEF CheckBudgetReadiness, OnlyPrune
<1>4. tokenSequence \in Nat
  BY TokenBounds DEF ChatInv, StoreInv, WindowInv
<1>5. StoreInv'
  BY <1>2, <1>3, <1>4, WindowInvNext, PruneNamed DEF ChatInv, StoreInv
<1>6. ClockInv'
  BY <1>1, <1>3, ConfigAssumption DEF ClockInv, Instant
<1>7. MessageInv'
  BY <1>1, <1>3 DEF ChatInv, RequestInv, MessageInv, Servable, IssuedHandle
<1>8. CallInv'
  <2>1. UNCHANGED <<call, phase>>
    BY <1>1 DEF requests
  <2>2. ASSUME NEW s \in Request
        PROVE  /\ CallOK(call[s])'
               /\ phase'[s] \in Waiting =>
                    call'[s].op \in OperationId /\ Servable(call[s].kind, call[s].args)'
    <3>1. call'[s] = call[s] /\ phase'[s] = phase[s]
      BY <2>1
    <3>2. /\ CallOK(call[s])
          /\ phase[s] \in Waiting =>
               call[s].op \in OperationId /\ Servable(call[s].kind, call[s].args)
      BY DEF ChatInv, RequestInv, CallInv
    <3>3. CallOK(call[s])'
      BY <1>3, <3>1, <3>2 DEF CallOK, Named
    <3> QED BY <1>3, <3>1, <3>2, <3>3 DEF Servable, IssuedHandle
  <2> QED BY <2>1, <2>2 DEF ChatInv, RequestInv, CallInv
<1>9. OwnerInv' /\ WaitInv' /\ AuthorityInv' /\ TimerInv' /\ WorkInv'
  BY <1>1, <1>3, OwnerStays, WaitStays, AuthorityStays, TimerStays, WorkStays
     DEF requests, ChatInv, RequestInv
<1> QED BY <1>2, <1>5, <1>6, <1>7, <1>8, <1>9 DEF ChatInv, RequestInv

-----------------------------------------------------------------------------
(* The steps of a request: admission and the wait.                         *)

LEMMA PhaseFacts ==
  /\ Waiting \subseteq Phase
  /\ {"responding", "queued", "streaming", "sending", "closing", "done"}
       \subseteq Phase \ Waiting
BY DEF Phase, Waiting

LEMMA EndlessNat == Endless \in Nat
BY Timing DEF Endless

\* A handle on what a request owns can be served.
LEMMA OwnedHandle ==
  ASSUME TypeOK, NEW id \in 1 .. tokenSequence
  PROVE  Held(id) \in IssuedHandle
<1>1. tokenSequence \in Nat /\ tokenSequence <= MaxPairs /\ MaxPairs \in Nat
  BY TokenBounds
<1>2. id \in TokenId
  BY <1>1 DEF TokenId
<1>3. TRUE \in Presented
  BY AttemptAssumption, Zenon
<1>4. Held(id) \in Handle
  BY <1>2, <1>3 DEF Held, Handle
<1>5. Held(id).id = id /\ id <= tokenSequence
  BY <1>1 DEF Held
<1> QED BY <1>4, <1>5 DEF IssuedHandle

LEMMA ArriveOK ==
  ASSUME ChatInv, NEW r \in Request, Arrive(r)
  PROVE  ChatInv'
<1>1. Quiet /\ UNCHANGED <<ticket, lease, authority, wake, waitEnd, ticks, work>>
  BY DEF Arrive, Quiet
<1>2. PICK ip \in Ip, session \in Session :
        Ask(r, "admit_or_enqueue", <<ip, session>>, Endless)
  BY DEF Arrive
<1>3. phase' = [phase EXCEPT ![r] = "admitting"]
  BY DEF Arrive, Set
<1>4. Servable("admit_or_enqueue", <<ip, session>>)
  BY DEF Servable
<1>5. "admitting" \in Phase
  BY DEF Phase
<1>6. MessageInv' /\ CallInv'
  BY <1>1, <1>2, <1>3, <1>4, <1>5, AskOK, EndlessNat DEF ChatInv, RequestInv
<1>7. WaitInv'
  BY <1>1, <1>3, WaitSet DEF ChatInv, RequestInv
<1> QED BY <1>1, <1>6, <1>7, QuietOK, OwnerStays, AuthorityStays, TimerStays, WorkStays
        DEF ChatInv, RequestInv

LEMMA ReplayKeeps ==
  ASSUME ChatInv, NEW r \in Request, Replay(r)
  PROVE  ChatInv'
<1>1. Quiet /\ UNCHANGED <<ticket, lease, authority, wake, waitEnd, ticks, work>>
  BY DEF Replay, Quiet
<1>2. MessageInv' /\ CallInv'
  BY ReplayOK DEF ChatInv, RequestInv
<1>3. WaitInv'
  BY WaitStays DEF Replay, ChatInv, RequestInv
<1> QED BY <1>1, <1>2, <1>3, QuietOK, OwnerStays, AuthorityStays, TimerStays, WorkStays
        DEF ChatInv, RequestInv

\* An answer that arrives is one the store gave.
LEMMA AnswerNamed ==
  ASSUME CallInv, NEW r \in Request, NEW outcome \in {call[r].reply, Failure}
  PROVE  Named(outcome) /\ call[r].started \in Nat
<1>1. CallOK(call[r])
  BY DEF CallInv
<1> QED BY <1>1, NamedFailure DEF CallOK

LEMMA AdmissionOK ==
  ASSUME ChatInv, NEW r \in Request, AdmissionAnswered(r)
  PROVE  ChatInv'
<1>1. Quiet /\ EndCall(r) /\ UNCHANGED <<wake, waitEnd, ticks, work>>
  BY DEF AdmissionAnswered, EndCall, Quiet
<1>2. PICK outcome \in {call[r].reply, Failure} :
    \/ /\ outcome.type = "Admitted"
       /\ RecordAuthority(outcome, call[r].started)
       /\ IF Recordable(outcome.id, call[r].started)
          THEN Set(lease, r, outcome.id) /\ Set(phase, r, "responding")
          ELSE Set(phase, r, "done") /\ UNCHANGED lease
       /\ UNCHANGED ticket
    \/ /\ outcome.type = "Queued"
       /\ Set(ticket, r, outcome.id) /\ Set(phase, r, "responding")
       /\ UNCHANGED <<lease, authority>>
    \/ /\ outcome.type \in {"Denied", "Failure"}
       /\ Set(phase, r, "done")
       /\ UNCHANGED <<ticket, lease, authority>>
  BY DEF AdmissionAnswered
<1>3. Named(outcome) /\ call[r].started \in Nat
  BY AnswerNamed DEF ChatInv, RequestInv
<1>4. PICK started : started = call[r].started
  OBVIOUS
<1>5. tokenSequence' = tokenSequence /\ tokenSequence \in Nat
  BY <1>1, QuietOK
<1>6. PICK p \in {"responding", "done"} : phase' = [phase EXCEPT ![r] = p]
  BY <1>2 DEF Set
<1>7. MessageInv' /\ CallInv'
  BY <1>1, <1>6, PhaseFacts, EndOK DEF ChatInv, RequestInv
<1>9. WaitInv'
  <2>1. \A s \in Request \ {r} : ticket'[s] = ticket[s]
    BY <1>2 DEF Set, ChatInv, RequestInv, OwnerInv
  <2> QED BY <1>6, <2>1, WaitSet DEF ChatInv, RequestInv
<1>8. OwnerInv' /\ AuthorityInv'
  <2>1. CASE outcome.type = "Admitted"
    <3>1. /\ RecordAuthority(outcome, started) /\ UNCHANGED ticket
          /\ lease' = lease \/ lease' = [lease EXCEPT ![r] = outcome.id]
      BY <1>2, <1>4, <2>1 DEF Set
    <3>2. outcome.id \in 1 .. tokenSequence /\ outcome.expires \in Nat
      BY <1>3, <2>1 DEF Named
    <3>3. outcome.id \in 0 .. tokenSequence
      BY <1>5, <3>2
    <3> QED BY <1>3, <1>4, <1>5, <3>1, <3>2, <3>3, OwnerSet, AuthorityRecorded
            DEF ChatInv, RequestInv
  <2>2. CASE outcome.type = "Queued"
    <3>1. UNCHANGED <<lease, authority>> /\ ticket' = [ticket EXCEPT ![r] = outcome.id]
      BY <1>2, <2>2 DEF Set
    <3>2. outcome.id \in 0 .. tokenSequence
      BY <1>3, <1>5, <2>2 DEF Named
    <3> QED BY <1>5, <3>1, <3>2, OwnerSet, AuthorityStays DEF ChatInv, RequestInv
  <2>3. CASE outcome.type \in {"Denied", "Failure"}
    BY <1>2, <1>5, <2>3, OwnerStays, AuthorityStays DEF ChatInv, RequestInv
  <2> QED BY <1>2, <2>1, <2>2, <2>3
<1> QED BY <1>1, <1>7, <1>8, <1>9, QuietOK, TimerStays, WorkStays
        DEF ChatInv, RequestInv

LEMMA BeginWaitOK ==
  ASSUME ChatInv, NEW r \in Request, BeginWait(r)
  PROVE  ChatInv'
<1>1. Quiet /\ NoCall /\ UNCHANGED <<ticket, lease, authority, ticks, work>>
  BY DEF BeginWait, NoCall, Quiet
<1>2. phase' = [phase EXCEPT ![r] = "queued"]
  BY DEF BeginWait, Set
<1>3. MessageInv' /\ CallInv'
  BY <1>1, <1>2, PhaseFacts, EndOK DEF ChatInv, RequestInv
<1>4. TimerInv'
  <2>1. clock \in Nat /\ clock + QueueWait \in Nat
    BY <1>1, QuietOK, Timing
  <2>2. /\ waitEnd' = [waitEnd EXCEPT ![r] = clock + QueueWait]
        /\ wake' = [wake EXCEPT ![r] = clock]
    BY DEF BeginWait, Set
  <2> QED BY <1>1, <2>1, <2>2 DEF TimerInv, ChatInv, RequestInv
<1>5. WaitInv'
  BY <1>1, <1>2, WaitSet DEF BeginWait, ChatInv, RequestInv
<1> QED BY <1>1, <1>3, <1>4, <1>5, QuietOK, OwnerStays, AuthorityStays, WorkStays
        DEF ChatInv, RequestInv

LEMMA PollOK ==
  ASSUME ChatInv, NEW r \in Request, Poll(r)
  PROVE  ChatInv'
<1>1. Quiet /\ UNCHANGED <<ticket, lease, authority, wake, waitEnd, ticks, work>>
  BY DEF Poll, Quiet
<1>2. PICK h, e : h = Held(ticket[r]) /\ e = waitEnd[r]
  OBVIOUS
<1>3. Ask(r, "wait_for_admission", h, e)
  BY <1>2 DEF Poll, Ask, Send, Message, Set, Lesser, NewOperation
<1>4. ticket[r] \in 1 .. tokenSequence
  BY <1>1, QuietOK DEF Poll, ChatInv, RequestInv, OwnerInv, WaitInv
<1>5. h \in IssuedHandle
  BY <1>2, <1>4, OwnedHandle DEF ChatInv, StoreInv, WindowInv
<1>6. Servable("wait_for_admission", h) /\ e \in Nat
  BY <1>2, <1>5 DEF Servable, ChatInv, RequestInv, TimerInv
<1>7. phase' = [phase EXCEPT ![r] = "polling"] /\ "polling" \in Phase
  BY DEF Poll, Set, Phase
<1>8. MessageInv' /\ CallInv'
  BY <1>1, <1>3, <1>6, <1>7, AskOK DEF ChatInv, RequestInv
<1>9. WaitInv'
  BY <1>1, <1>7, WaitSet DEF Poll, ChatInv, RequestInv, WaitInv
<1> QED BY <1>1, <1>8, <1>9, QuietOK, OwnerStays, AuthorityStays, TimerStays, WorkStays
        DEF ChatInv, RequestInv

LEMMA WaitEndsOK ==
  ASSUME ChatInv, NEW r \in Request, WaitEnds(r)
  PROVE  ChatInv'
<1>1. /\ Quiet /\ EndCall(r)
      /\ UNCHANGED <<ticket, lease, authority, wake, waitEnd, ticks, work>>
  BY DEF WaitEnds, EndCall, Quiet
<1>2. phase' = [phase EXCEPT ![r] = "closing"]
  BY DEF WaitEnds, Set
<1>3. MessageInv' /\ CallInv'
  BY <1>1, <1>2, PhaseFacts, EndOK DEF ChatInv, RequestInv
<1>4. WaitInv'
  BY <1>1, <1>2, WaitSet DEF ChatInv, RequestInv
<1> QED BY <1>1, <1>3, <1>4, QuietOK, OwnerStays, AuthorityStays, TimerStays,
           WorkStays DEF ChatInv, RequestInv

\* The next poll is at a time, never before one period from the last.
LEMMA NextPollNat ==
  ASSUME TimerInv, NEW r \in Request, clock \in Nat
  PROVE  NextPoll(r) \in Nat
<1> DEFINE start == waitEnd[r] - QueueWait
           periods == (clock - start + PollInterval - 1) \div PollInterval
<1>1. wake[r] \in Nat /\ waitEnd[r] \in Nat
  BY DEF TimerInv
<1>2. start \in Int /\ clock - start + PollInterval - 1 \in Int
  BY <1>1, Timing
<1>3. periods \in Int
  <2> HIDE DEF start
  <2>1. ASSUME NEW i \in Int PROVE i \div PollInterval \in Int
    BY Timing
  <2> QED BY <1>2, <2>1
<1> HIDE DEF periods
<1>4. periods * PollInterval \in Int
  BY <1>3, Timing
<1>5. start + periods * PollInterval \in Int /\ wake[r] + PollInterval \in Nat
  BY <1>1, <1>2, <1>4, Timing
<1>6. NextPoll(r) = Greater(wake[r] + PollInterval, start + periods * PollInterval)
  BY DEF NextPoll, periods
<1> QED BY <1>5, <1>6 DEF Greater

LEMMA PollAnswerOK ==
  ASSUME ChatInv, NEW r \in Request, PollAnswer(r)
  PROVE  ChatInv'
<1>1. Quiet /\ EndCall(r) /\ UNCHANGED <<waitEnd, ticks, work>>
  BY DEF PollAnswer, EndCall, Quiet
<1>2. PICK outcome \in {call[r].reply, Failure} :
        \/ PollPendingAnswered(r, outcome)
        \/ PollAdmittedAnswered(r, outcome)
        \/ PollRefusedAnswered(r, outcome)
  BY DEF PollAnswer
<1>3. Named(outcome) /\ call[r].started \in Nat /\ ticket[r] # 0
  BY AnswerNamed DEF PollAnswer, ChatInv, RequestInv, WaitInv
<1>4. PICK started : started = call[r].started
  OBVIOUS
<1>5. tokenSequence' = tokenSequence /\ tokenSequence \in Nat /\ clock \in Nat
  BY <1>1, QuietOK
<1>6. PICK p \in {"queued", "responding", "closing"} : phase' = [phase EXCEPT ![r] = p]
  BY <1>2 DEF Set, PollPendingAnswered, PollAdmittedAnswered, PollRefusedAnswered
<1>7. MessageInv' /\ CallInv'
  BY <1>1, <1>6, PhaseFacts, EndOK DEF ChatInv, RequestInv
<1>8. ticket' = ticket \/ ticket' = [ticket EXCEPT ![r] = 0]
  BY <1>2 DEF Set, PollPendingAnswered, PollAdmittedAnswered, PollRefusedAnswered
<1>9. WaitInv'
  <2>1. \A s \in Request \ {r} : ticket'[s] = ticket[s]
    BY <1>8 DEF ChatInv, RequestInv, OwnerInv
  <2>2. p = "queued" => ticket' = ticket
    <3>1. phase'[r] = p
      BY <1>6 DEF ChatInv, RequestInv, CallInv
    <3>2. PollPendingAnswered(r, outcome) => ticket' = ticket
      BY DEF PollPendingAnswered
    <3>3. PollAdmittedAnswered(r, outcome) => phase'[r] # "queued"
      BY DEF PollAdmittedAnswered, Set, ChatInv, RequestInv, CallInv
    <3>4. PollRefusedAnswered(r, outcome) => phase'[r] # "queued"
      BY DEF PollRefusedAnswered, Set, ChatInv, RequestInv, CallInv
    <3> QED BY <1>2, <3>1, <3>2, <3>3, <3>4
  <2> QED BY <1>3, <1>6, <2>1, <2>2, WaitSet DEF ChatInv, RequestInv
<1>10. OwnerInv' /\ AuthorityInv'
  <2>1. CASE PollPendingAnswered(r, outcome)
    BY <1>5, <2>1, OwnerStays, AuthorityStays
       DEF PollPendingAnswered, ChatInv, RequestInv
  <2>2. CASE PollAdmittedAnswered(r, outcome)
    <3>1. /\ RecordAuthority(outcome, started)
          /\ lease' = lease \/ lease' = [lease EXCEPT ![r] = outcome.id]
      BY <1>4, <2>2 DEF PollAdmittedAnswered, Set
    <3>2. outcome.id \in 1 .. tokenSequence /\ outcome.expires \in Nat
      BY <1>3, <2>2 DEF Named, PollAdmittedAnswered
    <3>3. outcome.id \in 0 .. tokenSequence
      BY <1>5, <3>2
    <3> QED BY <1>3, <1>4, <1>5, <1>8, <3>1, <3>2, <3>3, OwnerSet, AuthorityRecorded
            DEF ChatInv, RequestInv
  <2>3. CASE PollRefusedAnswered(r, outcome)
    <3>1. UNCHANGED <<lease, authority>> /\ 0 \in 0 .. tokenSequence
      BY <1>5, <2>3 DEF PollRefusedAnswered
    <3> QED BY <1>5, <1>8, <3>1, OwnerSet, AuthorityStays DEF ChatInv, RequestInv
  <2> QED BY <1>2, <2>1, <2>2, <2>3
<1>11. TimerInv'
  <2>1. wake' = wake \/ wake' = [wake EXCEPT ![r] = NextPoll(r)]
    BY <1>2 DEF Set, PollPendingAnswered, PollAdmittedAnswered, PollRefusedAnswered
  <2>2. NextPoll(r) \in Nat
    BY <1>5, NextPollNat DEF ChatInv, RequestInv
  <2> QED BY <1>1, <2>1, <2>2 DEF TimerInv, ChatInv, RequestInv
<1> QED BY <1>1, <1>7, <1>9, <1>10, <1>11, QuietOK, WorkStays DEF ChatInv, RequestInv

-----------------------------------------------------------------------------
(* The steps of a request: the stream.                                     *)

LEMMA AuthorityEntry ==
  ASSUME AuthorityInv, NEW r \in Request, lease[r] \in DOMAIN authority
  PROVE  /\ lease[r] \in 1 .. tokenSequence
         /\ authority[lease[r]].deadline \in Nat /\ authority[lease[r]].expiry \in Nat
         /\ Deadline(r) \in Nat
BY DEF AuthorityInv, Functional, Entry, Deadline

\* A stream's step without a call: it may drop its authority or set its timer.
LEMMA StreamStep ==
  ASSUME ChatInv, NEW r \in Request, Quiet, NoCall,
         UNCHANGED <<ticket, lease, waitEnd, ticks>>,
         NEW p \in {"streaming", "sending", "closing"},
         phase' = [phase EXCEPT ![r] = p],
         authority' = authority \/ Drop(lease[r]),
         NEW t \in Nat, wake' = wake \/ wake' = [wake EXCEPT ![r] = t],
         WorkInv'
  PROVE  ChatInv'
<1>1. tokenSequence' = tokenSequence /\ tokenSequence \in Nat
  BY QuietOK
<1>2. MessageInv' /\ CallInv'
  BY PhaseFacts, EndOK DEF ChatInv, RequestInv
<1>3. WaitInv'
  BY WaitSet DEF ChatInv, RequestInv
<1>4. AuthorityInv'
  BY <1>1, AuthorityStays, AuthorityDropped DEF ChatInv, RequestInv
<1>5. TimerInv'
  BY DEF TimerInv, ChatInv, RequestInv
<1> QED BY <1>1, <1>2, <1>3, <1>4, <1>5, QuietOK, OwnerStays DEF ChatInv, RequestInv

LEMMA WorkSet ==
  ASSUME WorkInv, NEW r \in Request, NEW w \in Work, work' = [work EXCEPT ![r] = w],
         DueOK(w)
  PROVE  WorkInv'
<1>1. /\ work' \in [Request -> Work] /\ work'[r] = w
      /\ \A s \in Request \ {r} : work'[s] = work[s]
  BY DEF WorkInv
<1>2. \A s \in Request : DueOK(work'[s])
  BY <1>1 DEF WorkInv
<1> QED BY <1>1, <1>2 DEF WorkInv, DueOK

LEMMA BeginStreamOK ==
  ASSUME ChatInv, NEW r \in Request, BeginStream(r)
  PROVE  ChatInv'
<1>1. Quiet /\ NoCall /\ UNCHANGED <<ticket, lease, waitEnd, ticks>>
  BY DEF BeginStream, NoCall, Quiet
<1>2. clock \in Nat
  BY <1>1, QuietOK
<1>3. CASE HasAuthority(r) /\ UNCHANGED authority
           /\ Set(work, r, [work[r] EXCEPT !.bound = TRUE, !.lease = lease[r],
                  !.windows = {w \in DOMAIN windows : lease[r] \in LeasesIn(w)}])
           /\ Set(wake, r, Renewal(r)) /\ Set(phase, r, "streaming")
  <2>1. Deadline(r) \in Nat /\ Deadline(r) > clock
    BY <1>3, AuthorityEntry DEF HasAuthority, ChatInv, RequestInv
  <2>2. PICK t : t = Renewal(r)
    OBVIOUS
  <2>3. t \in Nat
    BY <1>2, <2>1, <2>2, Timing DEF Renewal, Lesser
  <2>4. WorkInv'
    <3>1. PICK ws : ws = {w \in DOMAIN windows : lease[r] \in LeasesIn(w)}
      OBVIOUS
    <3>2. ws \in SUBSET (Period \X Nat)
      BY <3>1 DEF ChatInv, StoreInv, WindowInv, TypeOK, Functional
    <3>3. lease[r] \in 0 .. MaxPairs
      <4>1. lease[r] \in 0 .. tokenSequence
        BY DEF ChatInv, RequestInv, OwnerInv
      <4>2. tokenSequence \in 0 .. MaxPairs /\ MaxPairs \in Nat
        BY ConfigAssumption DEF ChatInv, StoreInv, WindowInv, TypeOK
      <4> QED BY <4>1, <4>2
    <3>4. PICK w : w = [work[r] EXCEPT !.bound = TRUE, !.lease = lease[r],
                                       !.windows = ws]
      OBVIOUS
    <3>5. work' = [work EXCEPT ![r] = w]
      BY <1>3, <3>1, <3>4 DEF Set
    <3>6. WorkInv /\ work[r] \in Work /\ DueOK(work[r])
      BY DEF WorkInv, ChatInv, RequestInv
    <3>7. /\ w \in Work /\ w.state = work[r].state
          /\ w.due = work[r].due /\ w.attempts = work[r].attempts
      BY <3>2, <3>3, <3>4, <3>6 DEF Work
    <3>8. DueOK(w)
      BY <3>6, <3>7 DEF DueOK
    <3> QED BY <3>5, <3>6, <3>7, <3>8, WorkSet
  <2>5. phase' = [phase EXCEPT ![r] = "streaming"] /\ wake' = [wake EXCEPT ![r] = t]
    BY <1>3, <2>2 DEF Set
  <2> QED BY <1>1, <1>3, <2>3, <2>4, <2>5, StreamStep
<1>4. CASE Drop(lease[r]) /\ Set(phase, r, "closing") /\ UNCHANGED <<wake, work>>
  <2>1. WorkInv'
    BY <1>4, WorkStays DEF ChatInv, RequestInv
  <2>2. phase' = [phase EXCEPT ![r] = "closing"]
    BY <1>4 DEF Set
  <2> QED BY <1>1, <1>2, <1>4, <2>1, <2>2, StreamStep
<1> QED BY <1>3, <1>4 DEF BeginStream

LEMMA ProduceOK ==
  ASSUME ChatInv, NEW r \in Request, Produce(r) \/ Resume(r) \/ LeaseEnds(r)
  PROVE  ChatInv'
<1>1. Quiet /\ NoCall /\ UNCHANGED <<ticket, lease, wake, waitEnd, ticks, work>>
  BY DEF Produce, Resume, LeaseEnds, NoCall, Quiet
<1>2. clock \in Nat
  BY <1>1, QuietOK
<1>3. PICK p \in {"streaming", "sending", "closing"} : phase' = [phase EXCEPT ![r] = p]
  BY DEF Produce, Resume, LeaseEnds, Set
<1>4. authority' = authority \/ Drop(lease[r])
  BY DEF Produce, Resume, LeaseEnds
<1>5. WorkInv'
  BY <1>1, WorkStays DEF ChatInv, RequestInv
<1> QED BY <1>1, <1>2, <1>3, <1>4, <1>5, StreamStep

LEMMA AskRenewalOK ==
  ASSUME ChatInv, NEW r \in Request, AskRenewal(r)
  PROVE  ChatInv'
<1>1. Quiet /\ UNCHANGED <<ticket, lease, authority, wake, waitEnd, work>>
  BY DEF AskRenewal, Quiet
<1>2. lease[r] \in DOMAIN authority /\ ticks[r] < RenewalTicks
  BY DEF AskRenewal, MayRenew, HasAuthority
<1>3. lease[r] \in 1 .. tokenSequence /\ Deadline(r) \in Nat
  BY <1>2, AuthorityEntry DEF ChatInv, RequestInv
<1>4. PICK h, e : h = Held(lease[r]) /\ e = Deadline(r)
  OBVIOUS
<1>5. Ask(r, "renew", h, e)
  BY <1>4 DEF AskRenewal, Ask, Send, Message, Set, Lesser, NewOperation
<1>6. h \in IssuedHandle
  BY <1>3, <1>4, OwnedHandle DEF ChatInv, StoreInv, WindowInv
<1>7. Servable("renew", h) /\ e \in Nat
  BY <1>3, <1>4, <1>6 DEF Servable
<1>8. phase' = [phase EXCEPT ![r] = "renewing"] /\ "renewing" \in Phase
  BY DEF AskRenewal, Set, Phase
<1>9. MessageInv' /\ CallInv'
  BY <1>1, <1>5, <1>7, <1>8, AskOK DEF ChatInv, RequestInv
<1>10. WaitInv'
  BY <1>1, <1>8, WaitSet DEF ChatInv, RequestInv
<1>11. TimerInv'
  <2>1. ticks[r] + 1 \in 0 .. RenewalTicks
    BY <1>2, Timing DEF ChatInv, RequestInv, TimerInv
  <2>2. ticks' = [ticks EXCEPT ![r] = ticks[r] + 1]
    BY DEF AskRenewal, Set
  <2> QED BY <1>1, <2>1, <2>2 DEF ChatInv, RequestInv, TimerInv
<1> QED BY <1>1, <1>9, <1>10, <1>11, QuietOK, OwnerStays, AuthorityStays, WorkStays
        DEF ChatInv, RequestInv

LEMMA RenewalAnswerOK ==
  ASSUME ChatInv, NEW r \in Request, RenewalAnswer(r)
  PROVE  ChatInv'
<1>1. Quiet /\ EndCall(r) /\ UNCHANGED <<ticket, lease, waitEnd, ticks, work>>
  BY DEF RenewalAnswer, EndCall, Quiet
<1>2. PICK outcome \in {call[r].reply, Failure} :
        RenewalGranted(r, outcome) \/ RenewalFailed(r, outcome)
  BY DEF RenewalAnswer
<1>3. Named(outcome) /\ call[r].started \in Nat
  BY AnswerNamed DEF ChatInv, RequestInv
<1>4. tokenSequence' = tokenSequence /\ tokenSequence \in Nat /\ clock \in Nat
  BY <1>1, QuietOK
<1>5. PICK p \in {"streaming", "closing"} : phase' = [phase EXCEPT ![r] = p]
  BY <1>2 DEF Set, RenewalGranted, RenewalFailed
<1>6. MessageInv' /\ CallInv'
  BY <1>1, <1>5, PhaseFacts, EndOK DEF ChatInv, RequestInv
<1>7. WaitInv'
  BY <1>1, <1>5, WaitSet DEF ChatInv, RequestInv
<1>8. CASE RenewalGranted(r, outcome)
  <2>1. lease[r] \in DOMAIN authority /\ outcome.expires \in Nat
    BY <1>3, <1>8 DEF RenewalGranted, Extends, Named
  <2>2. PICK x : x = Extended(r, outcome)
    OBVIOUS
  <2>3. x \in Nat
    <3>1. Deadline(r) \in Nat /\ authority[lease[r]].expiry \in Nat
      BY <2>1, AuthorityEntry DEF ChatInv, RequestInv
    <3>2. x \in Int
      BY <1>3, <2>1, <2>2, <3>1, Timing DEF Extended, Lesser
    <3>3. x > call[r].started
      BY <1>8, <2>2 DEF RenewalGranted, Extends
    <3> QED BY <1>3, <3>2, <3>3
  <2>4. AuthorityInv'
    <3>1. PICK id, e : id = lease[r] /\ e = [deadline |-> x, expiry |-> outcome.expires]
      OBVIOUS
    <3>2. e \in Entry /\ authority' = [authority EXCEPT ![id] = e]
      BY <1>8, <2>1, <2>2, <2>3, <3>1 DEF Entry, RenewalGranted
    <3> QED BY <1>4, <3>2, AuthorityMoved DEF ChatInv, RequestInv
  <2>5. TimerInv'
    <3>1. wake' = [wake EXCEPT ![r] = clock + Lesser(LeaseRenew, Greater(0, x - clock))]
      BY <1>8, <2>2 DEF RenewalGranted, Set
    <3>2. clock + Lesser(LeaseRenew, Greater(0, x - clock)) \in Nat
      BY <1>4, <2>3, Timing DEF Lesser, Greater
    <3> QED BY <1>1, <3>1, <3>2 DEF ChatInv, RequestInv, TimerInv
  <2> QED BY <1>1, <1>6, <1>7, <2>4, <2>5, QuietOK, OwnerStays, WorkStays
          DEF ChatInv, RequestInv
<1>9. CASE RenewalFailed(r, outcome)
  <2>1. AuthorityInv'
    BY <1>4, <1>9, AuthorityDropped DEF RenewalFailed, ChatInv, RequestInv
  <2>2. TimerInv'
    BY <1>1, <1>9, TimerStays DEF RenewalFailed, ChatInv, RequestInv
  <2> QED BY <1>1, <1>6, <1>7, <2>1, <2>2, QuietOK, OwnerStays, WorkStays
          DEF ChatInv, RequestInv
<1> QED BY <1>2, <1>8, <1>9

\* Multiples of a share, for the few attempts that there are.
LEMMA Multiples ==
  ASSUME NEW k \in Nat, NEW n \in 0 .. MaxAttempts
  PROVE  /\ k * n \in Nat /\ k * n <= k * MaxAttempts
         /\ n < MaxAttempts => /\ k * (n + 1) = k * n + k
                               /\ k * n + k <= k * MaxAttempts
         /\ n # 0 => /\ n - 1 \in 0 .. MaxAttempts
                     /\ k * n = k * (n - 1) + k /\ k * (n - 1) \in Nat
<1>1. MaxAttempts \in {0, 1, 2}
  <2>1. MaxAttempts \in 0 .. 2 => MaxAttempts \in {0, 1, 2}
    OBVIOUS
  <2> QED BY <2>1, AttemptAssumption
<1>2. CASE MaxAttempts = 0
  BY <1>2
<1>3. CASE MaxAttempts = 1
  <2>1. n \in {0, 1}
    BY <1>3
  <2>2. CASE n = 0
    BY <1>3, <2>2
  <2>3. CASE n = 1
    BY <1>3, <2>3
  <2> QED BY <2>1, <2>2, <2>3
<1>4. CASE MaxAttempts = 2
  <2>1. n \in {0, 1, 2}
    BY <1>4
  <2>2. CASE n = 0
    BY <1>4, <2>2
  <2>3. CASE n = 1
    BY <1>4, <2>3
  <2>4. CASE n = 2
    BY <1>4, <2>4
  <2> QED BY <2>1, <2>2, <2>3, <2>4
<1> QED BY <1>1, <1>2, <1>3, <1>4

\* What was reserved for attempts, and what they may come to be due.
LEMMA AttemptCosts ==
  /\ PerAttempt \in Nat /\ MaxCost \in Nat /\ Reserve \in Nat
  /\ MostPerAttempt \in Nat /\ MostDue \in Nat /\ Reserve <= MostDue
  /\ PerAttempt <= MostPerAttempt /\ MaxCost <= MostPerAttempt
  /\ \A n \in 0 .. MaxAttempts :
       PerAttempt * n \in 0 .. Reserve /\ MostPerAttempt * n \in 0 .. MostDue
<1>1. PerAttempt \in Nat /\ MaxCost \in Nat /\ MaxAttempts \in Nat
  BY AttemptAssumption
<1>2. /\ MostPerAttempt \in Nat
      /\ PerAttempt <= MostPerAttempt /\ MaxCost <= MostPerAttempt
  BY <1>1 DEF MostPerAttempt, Greater
<1>3. PICK m \in Nat : m = MostPerAttempt
  BY <1>2
<1>4. MaxAttempts \in 0 .. MaxAttempts
  BY <1>1
<1>5. Reserve = PerAttempt * MaxAttempts /\ MostDue = m * MaxAttempts
  BY <1>3, AttemptAssumption DEF MostDue
<1>6. ASSUME NEW n \in 0 .. MaxAttempts
      PROVE  PerAttempt * n \in 0 .. Reserve /\ m * n \in 0 .. MostDue
  <2>1. /\ PerAttempt * n \in Nat /\ PerAttempt * n <= PerAttempt * MaxAttempts
        /\ PerAttempt * MaxAttempts \in Nat
    BY <1>1, <1>4, Multiples
  <2>2. m * n \in Nat /\ m * n <= m * MaxAttempts /\ m * MaxAttempts \in Nat
    BY <1>4, Multiples
  <2> QED BY <1>5, <2>1, <2>2
<1>7. Reserve \in Nat /\ MostDue \in Nat
  BY <1>1, <1>4, <1>5, Multiples
<1>8. Reserve <= MostDue
  <2>1. MaxAttempts \in {0, 1, 2}
    <3>1. MaxAttempts \in 0 .. 2 => MaxAttempts \in {0, 1, 2}
      OBVIOUS
    <3> QED BY <3>1, AttemptAssumption
  <2>2. CASE MaxAttempts = 0
    BY <1>1, <1>5, <2>2
  <2>3. CASE MaxAttempts = 1
    BY <1>1, <1>2, <1>3, <1>5, <2>3
  <2>4. CASE MaxAttempts = 2
    BY <1>1, <1>2, <1>3, <1>5, <2>4
  <2> QED BY <2>1, <2>2, <2>3, <2>4
<1> QED BY <1>1, <1>2, <1>3, <1>6, <1>7, <1>8

\* A step of the provider alone.
LEMMA ProviderStep ==
  ASSUME ChatInv, NEW r \in Request, Quiet, NoCall, WorkInv',
         UNCHANGED <<phase, ticket, lease, authority, wake, waitEnd, ticks>>
  PROVE  ChatInv'
<1>1. MessageInv' /\ CallInv'
  BY CallStays DEF NoCall, ChatInv, RequestInv
<1> QED BY <1>1, QuietOK, OwnerStays, WaitStays, AuthorityStays, TimerStays
        DEF ChatInv, RequestInv

LEMMA StartAttemptOK ==
  ASSUME ChatInv, NEW r \in Request, StartAttempt(r)
  PROVE  ChatInv'
<1>1. /\ Quiet /\ NoCall
      /\ UNCHANGED <<phase, ticket, lease, authority, wake, waitEnd, ticks>>
  BY DEF StartAttempt, NoCall, Quiet
<1>2. PICK o, w : /\ o = work[r]
                  /\ w = [o EXCEPT !.attempts = @ + 1, !.state = "active",
                                   !.due = @ + PerAttempt]
  OBVIOUS
<1>3. /\ o \in Work /\ DueOK(o)
      /\ o.attempts < MaxAttempts /\ o.state = "ready"
  BY <1>2 DEF StartAttempt, ChatInv, RequestInv, WorkInv
<1>4. /\ w.attempts = o.attempts + 1 /\ w.due = o.due + PerAttempt
      /\ w.state = "active" /\ w.bound = o.bound /\ w.uncertain = o.uncertain
      /\ w = [bound |-> w.bound, attempts |-> w.attempts, state |-> w.state,
              due |-> w.due, uncertain |-> w.uncertain, lease |-> w.lease,
              windows |-> w.windows]
      /\ w.lease = o.lease /\ w.windows = o.windows
  BY <1>2, <1>3 DEF Work
<1>5. /\ o.attempts \in 0 .. MaxAttempts /\ o.due \in 0 .. MostDue
      /\ o.bound \in BOOLEAN /\ o.uncertain \in BOOLEAN
      /\ o.lease \in 0 .. MaxPairs /\ o.windows \in SUBSET (Period \X Nat)
  BY <1>3 DEF Work
<1>6. PICK m \in Nat : m = MostPerAttempt
  BY AttemptCosts
<1>7. PICK cost \in Nat : /\ cost = m * o.attempts /\ m * (o.attempts + 1) = cost + m
                          /\ cost + m <= MostDue
  BY <1>3, <1>5, <1>6, Multiples DEF MostDue
<1>8. /\ o.due <= cost /\ PerAttempt \in Nat /\ PerAttempt <= m /\ MostDue \in Nat
      /\ MaxAttempts \in Nat
  BY <1>3, <1>6, <1>7, AttemptCosts, AttemptAssumption DEF DueOK
<1>9. /\ w.due \in 0 .. MostDue /\ PerAttempt <= w.due /\ w.due - PerAttempt <= cost
      /\ w.attempts \in 0 .. MaxAttempts /\ w.attempts # 0
      /\ w.attempts - 1 = o.attempts
  BY <1>3, <1>4, <1>5, <1>7, <1>8
<1>10. w \in Work /\ DueOK(w)
  BY <1>4, <1>5, <1>6, <1>7, <1>9 DEF Work, DueOK
<1>11. work' = [work EXCEPT ![r] = w]
  BY <1>2 DEF StartAttempt, Set
<1>12. WorkInv'
  BY <1>10, <1>11, WorkSet DEF ChatInv, RequestInv
<1> QED BY <1>1, <1>12, ProviderStep

LEMMA FinishAttemptOK ==
  ASSUME ChatInv, NEW r \in Request, FinishAttempt(r)
  PROVE  ChatInv'
<1>1. /\ Quiet /\ NoCall
      /\ UNCHANGED <<phase, ticket, lease, authority, wake, waitEnd, ticks>>
  BY DEF FinishAttempt, NoCall, Quiet
<1>2. PICK o : o = work[r]
  OBVIOUS
<1>3. /\ o \in Work /\ DueOK(o) /\ o.state = "active"
  BY <1>2 DEF FinishAttempt, ChatInv, RequestInv, WorkInv
<1>4. /\ o.attempts \in 0 .. MaxAttempts /\ o.due \in 0 .. MostDue
      /\ o.bound \in BOOLEAN /\ o.uncertain \in BOOLEAN
      /\ o.lease \in 0 .. MaxPairs /\ o.windows \in SUBSET (Period \X Nat)
  BY <1>3 DEF Work
<1>5. PICK next \in {"ready", "over"} : \E w :
        /\ work' = [work EXCEPT ![r] = w]
        /\ \/ \E cost \in 0 .. MaxCost :
                w = [o EXCEPT !.state = next, !.due = o.due - PerAttempt + cost]
           \/ w = [o EXCEPT !.state = next, !.uncertain = TRUE]
  BY <1>2 DEF FinishAttempt, Set
<1>6. PICK w :
        /\ work' = [work EXCEPT ![r] = w]
        /\ \/ \E cost \in 0 .. MaxCost :
                w = [o EXCEPT !.state = next, !.due = o.due - PerAttempt + cost]
           \/ w = [o EXCEPT !.state = next, !.uncertain = TRUE]
  BY <1>5
<1>7. /\ w.attempts = o.attempts /\ w.state = next /\ w.bound = o.bound
      /\ w = [bound |-> w.bound, attempts |-> w.attempts, state |-> w.state,
              due |-> w.due, uncertain |-> w.uncertain, lease |-> w.lease,
              windows |-> w.windows]
      /\ w.lease = o.lease /\ w.windows = o.windows
  BY <1>3, <1>6 DEF Work
<1>8. PICK m \in Nat : m = MostPerAttempt /\ PerAttempt <= m /\ MaxCost <= m
  BY AttemptCosts
<1>9. PICK full \in Nat, before \in Nat :
        /\ full = m * o.attempts /\ before = m * (o.attempts - 1)
        /\ full = before + m /\ full <= MostDue
  BY <1>3, <1>4, <1>8, Multiples DEF DueOK, MostDue
<1>10. PICK done \in Nat : done = o.due - PerAttempt /\ done <= before
  BY <1>3, <1>4, <1>8, <1>9, AttemptCosts DEF DueOK
<1>11. w.due \in 0 .. full /\ w.uncertain \in BOOLEAN
  <2>1. CASE w = [o EXCEPT !.state = next, !.uncertain = TRUE]
    <3>1. w.due = o.due /\ w.uncertain = TRUE
      BY <1>3, <2>1 DEF Work
    <3>2. w.uncertain \in BOOLEAN
      BY <3>1, Zenon
    <3>3. w.due \in 0 .. full
      <4>1. PerAttempt \in Nat /\ o.due \in Nat
        BY <1>4, AttemptCosts
      <4>2. w.due = done + PerAttempt /\ PerAttempt <= m
        BY <1>8, <1>10, <3>1, <4>1
      <4> QED BY <1>9, <1>10, <4>1, <4>2
    <3> QED BY <3>2, <3>3
  <2>2. ASSUME NEW cost \in 0 .. MaxCost,
               w = [o EXCEPT !.state = next, !.due = o.due - PerAttempt + cost]
        PROVE  w.due \in 0 .. full /\ w.uncertain \in BOOLEAN
    <3>1. w.due = o.due - PerAttempt + cost /\ w.uncertain = o.uncertain
      BY <1>3, <2>2 DEF Work
    <3>2. w.due = done + cost
      BY <1>10, <3>1
    <3>3. cost \in Nat /\ cost <= m
      BY <1>8, <2>2, AttemptCosts
    <3>4. w.due \in 0 .. full
      BY <1>9, <1>10, <3>2, <3>3
    <3> QED BY <1>4, <3>1, <3>4
  <2>3. CASE \E cost \in 0 .. MaxCost :
               w = [o EXCEPT !.state = next, !.due = o.due - PerAttempt + cost]
    BY <2>2, <2>3, Zenon
  <2> QED BY <1>6, <2>1, <2>3, Zenon
<1>12. WorkInv'
  <2>1. w.due \in 0 .. MostDue
    BY <1>9, <1>11, AttemptCosts
  <2>2. w \in Work
    BY <1>4, <1>7, <1>11, <2>1 DEF Work
  <2>3. w.state # "active"
    BY <1>7
  <2>4. w.due <= MostPerAttempt * w.attempts
    BY <1>7, <1>8, <1>9, <1>11
  <2>5. DueOK(w)
    BY <2>3, <2>4 DEF DueOK
  <2>6. work' = [work EXCEPT ![r] = w]
    BY <1>6, Zenon
  <2> QED BY <2>2, <2>5, <2>6, WorkSet DEF ChatInv, RequestInv
<1> QED BY <1>1, <1>12, ProviderStep

-----------------------------------------------------------------------------
(* The steps of a request: its end.                                        *)

LEMMA SettlementCharges ==
  ASSUME WorkInv, NEW r \in Request, NEW settlement \in Settlements(r)
  PROVE  settlement[1] \in Charges /\ settlement[2] \in BOOLEAN
<1>1. /\ work[r] \in Work /\ work[r].due \in 0 .. MostDue
      /\ work[r].attempts \in 0 .. MaxAttempts /\ work[r].uncertain \in BOOLEAN
  BY DEF WorkInv, Work
<1>2. Reserve \in Nat /\ PerAttempt * work[r].attempts \in 0 .. Reserve
  BY <1>1, AttemptCosts
<1>3. 0 .. Reserve \subseteq 0 .. MostDue /\ 0 .. MostDue \subseteq Charges
  <2>1. 0 .. MostDue \subseteq Charges
    BY AttemptAssumption, Zenon
  <2> QED BY <2>1, AttemptCosts
<1>4. PICK cost : cost = PerAttempt * work[r].attempts
  OBVIOUS
<1>5. {cost, work[r].due, Reserve, 0} \subseteq Charges
  BY <1>1, <1>2, <1>3, <1>4
<1>6. \/ settlement = <<cost, work[r].attempts > 0>>
      \/ settlement = <<work[r].due, work[r].uncertain \/ work[r].state = "active">>
      \/ settlement = <<Reserve, TRUE>>
      \/ settlement = <<0, FALSE>>
  BY <1>4 DEF Settlements, Reconciliation
<1>7. \E charge \in {cost, work[r].due, Reserve, 0}, uncertain \in BOOLEAN :
        settlement = <<charge, uncertain>>
  <2>1. CASE settlement = <<cost, work[r].attempts > 0>>
    <3>1. work[r].attempts \in Nat
      BY <1>1, AttemptAssumption
    <3>2. CASE work[r].attempts > 0
      <4>1. settlement = <<cost, TRUE>>
        <5>1. (work[r].attempts > 0) = TRUE
          BY <3>2
        <5> QED BY <2>1, <5>1, Zenon
      <4> QED BY <4>1
    <3>3. CASE ~(work[r].attempts > 0)
      <4>1. settlement = <<cost, FALSE>>
        <5>1. (work[r].attempts > 0) = FALSE
          BY <3>3
        <5> QED BY <2>1, <5>1, Zenon
      <4> QED BY <4>1
    <3> QED BY <3>2, <3>3
  <2>2. CASE settlement = <<work[r].due, work[r].uncertain \/ work[r].state = "active">>
    BY <2>2
  <2>3. CASE settlement = <<Reserve, TRUE>>
    BY <2>3
  <2>4. CASE settlement = <<0, FALSE>>
    BY <2>4
  <2> QED BY <1>6, <2>1, <2>2, <2>3, <2>4
<1>8. PICK charge \in {cost, work[r].due, Reserve, 0}, uncertain \in BOOLEAN :
        settlement = <<charge, uncertain>>
  BY <1>7
<1>9. settlement[1] = charge /\ settlement[2] = uncertain
  BY <1>8
<1> QED BY <1>5, <1>9

LEMMA SettlingOK ==
  ASSUME ChatInv, NEW r \in Request, Settling(r)
  PROVE  ChatInv'
<1>1. Quiet /\ UNCHANGED <<wake, waitEnd, ticks, work>>
  BY DEF Settling, Quiet
<1>2. tokenSequence' = tokenSequence /\ tokenSequence \in Nat
  BY <1>1, QuietOK
<1>3. "settling" \in Phase /\ 0 \in 0 .. tokenSequence /\ TypeOK
  BY <1>2 DEF Phase, ChatInv, StoreInv, WindowInv
<1>4. CASE /\ ticket[r] # 0
           /\ Ask(r, "cancel_ticket", Held(ticket[r]), Endless)
           /\ Set(ticket, r, 0) /\ Set(phase, r, "settling")
           /\ UNCHANGED <<lease, authority>>
  <2>1. PICK h : h = Held(ticket[r])
    OBVIOUS
  <2>2. Ask(r, "cancel_ticket", h, Endless)
    BY <1>4, <2>1 DEF Ask, Send, Message, Set, NewOperation
  <2>3. ticket[r] \in 1 .. tokenSequence
    BY <1>2, <1>4 DEF ChatInv, RequestInv, OwnerInv
  <2>4. Servable("cancel_ticket", h)
    BY <1>3, <2>1, <2>3, OwnedHandle DEF Servable
  <2>5. /\ phase' = [phase EXCEPT ![r] = "settling"]
        /\ ticket' = [ticket EXCEPT ![r] = 0]
    BY <1>4 DEF Set
  <2>6. MessageInv' /\ CallInv'
    BY <1>1, <1>3, <2>2, <2>4, <2>5, AskOK, EndlessNat DEF ChatInv, RequestInv
  <2>7. WaitInv'
    <3>1. \A s \in Request \ {r} : ticket'[s] = ticket[s]
      BY <2>5 DEF ChatInv, RequestInv, OwnerInv
    <3> QED BY <2>5, <3>1, WaitSet DEF ChatInv, RequestInv
  <2>8. OwnerInv' /\ AuthorityInv'
    BY <1>2, <1>3, <1>4, <2>5, OwnerSet, AuthorityStays DEF ChatInv, RequestInv
  <2> QED BY <1>1, <2>6, <2>7, <2>8, QuietOK, TimerStays, WorkStays
          DEF ChatInv, RequestInv
<1>5. CASE /\ lease[r] # 0
           /\ Drop(lease[r])
           /\ \E settlement \in Settlements(r) :
                Ask(r, "finalize", <<Held(lease[r]), settlement[1], settlement[2]>>,
                    Endless)
           /\ Set(lease, r, 0) /\ Set(phase, r, "settling")
           /\ UNCHANGED ticket
  <2>1. PICK settlement \in Settlements(r) :
          Ask(r, "finalize", <<Held(lease[r]), settlement[1], settlement[2]>>, Endless)
    BY <1>5
  <2>2. PICK args : args = <<Held(lease[r]), settlement[1], settlement[2]>>
    OBVIOUS
  <2>3. Ask(r, "finalize", args, Endless)
    BY <2>1, <2>2 DEF Ask, Send, Message, Set, NewOperation
  <2>4. lease[r] \in 1 .. tokenSequence
    BY <1>2, <1>5 DEF ChatInv, RequestInv, OwnerInv
  <2>5. Held(lease[r]) \in IssuedHandle
    BY <1>3, <2>4, OwnedHandle
  <2>6. settlement[1] \in Charges /\ settlement[2] \in BOOLEAN
    BY SettlementCharges DEF ChatInv, RequestInv
  <2>7. Servable("finalize", args)
    BY <2>2, <2>5, <2>6 DEF Servable
  <2>8. /\ phase' = [phase EXCEPT ![r] = "settling"]
        /\ lease' = [lease EXCEPT ![r] = 0]
    BY <1>5 DEF Set
  <2>9. MessageInv' /\ CallInv'
    BY <1>1, <1>3, <2>3, <2>7, <2>8, AskOK, EndlessNat DEF ChatInv, RequestInv
  <2>10. WaitInv'
    BY <1>5, <2>8, WaitSet DEF ChatInv, RequestInv
  <2>11. OwnerInv'
    BY <1>2, <1>3, <1>5, <2>8, OwnerSet DEF ChatInv, RequestInv
  <2>12. AuthorityInv'
    BY <1>2, <1>5, AuthorityDropped DEF ChatInv, RequestInv
  <2> QED BY <1>1, <2>9, <2>10, <2>11, <2>12, QuietOK, TimerStays, WorkStays
          DEF ChatInv, RequestInv
<1>6. CASE /\ Set(phase, r, "done")
           /\ UNCHANGED <<call, messages, ticket, lease, authority>>
  <2>1. NoCall
    BY <1>1, <1>6 DEF NoCall, Quiet
  <2>2. phase' = [phase EXCEPT ![r] = "done"]
    BY <1>6 DEF Set
  <2>3. MessageInv' /\ CallInv'
    BY <1>1, <2>1, <2>2, PhaseFacts, EndOK DEF ChatInv, RequestInv
  <2>4. WaitInv'
    BY <1>6, <2>2, WaitSet DEF ChatInv, RequestInv
  <2> QED BY <1>1, <1>6, <2>3, <2>4, QuietOK, OwnerStays, AuthorityStays, TimerStays,
             WorkStays DEF ChatInv, RequestInv
<1> QED BY <1>4, <1>5, <1>6 DEF Settling

\* The owner's last call is over, or the task is cancelled in its await.
LEMMA OverOK ==
  ASSUME ChatInv, NEW r \in Request, Settled(r) \/ Cancelled(r)
  PROVE  ChatInv'
<1>1. Quiet /\ EndCall(r) /\ UNCHANGED <<ticket, lease, wake, waitEnd, ticks, work>>
  BY DEF Settled, Cancelled, EndCall, Quiet
<1>2. tokenSequence' = tokenSequence /\ tokenSequence \in Nat
  BY <1>1, QuietOK
<1>3. PICK p \in {"closing", "done"} : phase' = [phase EXCEPT ![r] = p]
  BY DEF Settled, Cancelled, Set
<1>4. MessageInv' /\ CallInv'
  BY <1>1, <1>3, PhaseFacts, EndOK DEF ChatInv, RequestInv
<1>5. WaitInv'
  BY <1>1, <1>3, WaitSet DEF ChatInv, RequestInv
<1>6. authority' = authority \/ Drop(lease[r])
  BY DEF Settled, Cancelled
<1>7. AuthorityInv'
  BY <1>2, <1>6, AuthorityStays, AuthorityDropped DEF ChatInv, RequestInv
<1> QED BY <1>1, <1>4, <1>5, <1>7, QuietOK, OwnerStays, TimerStays, WorkStays
        DEF ChatInv, RequestInv

-----------------------------------------------------------------------------
(* All steps.                                                              *)

LEMMA ChatInvInit == ChatInit => ChatInv
<1> SUFFICES ASSUME ChatInit PROVE ChatInv
  OBVIOUS
<1>1. Init /\ clock = 0 /\ messages = {} /\ authority = <<>>
  BY DEF ChatInit
<1>2. StoreInv
  <2>1. WindowInv
    BY <1>1, WindowInvInit
  <2>2. DOMAIN receipts = {}
    BY <1>1 DEF Init
  <2> QED BY <2>1, <2>2 DEF StoreInv, ReceiptsNamed
<1>3. tokenSequence = 0 /\ lastNow = 0
  BY <1>1 DEF Init
<1>4. ClockInv
  BY <1>1, <1>3, Timing DEF ClockInv, Instant
<1>5. MessageInv
  BY <1>1 DEF MessageInv
<1>6. CallInv
  <2>1. 0 \in 0 .. MaxCalls
    BY OperationAssumption
  <2> QED BY <2>1, NamedFailure
          DEF ChatInit, CallInv, CallOK, CallField, Phase, Waiting
<1>7. OwnerInv /\ WaitInv /\ TimerInv
  <2>1. 0 \in 0 .. tokenSequence /\ 0 \in 0 .. RenewalTicks
    BY <1>3, Timing
  <2> QED BY <2>1 DEF ChatInit, OwnerInv, WaitInv, TimerInv
<1>8. AuthorityInv
  <2>1. DOMAIN authority = {}
    BY <1>1
  <2>2. Cardinality(DOMAIN authority) = 0
    BY <2>1, FS_EmptySet
  <2> QED BY <2>1, <2>2, Timing DEF AuthorityInv, Functional
<1>9. WorkInv
  <2>1. 0 \in 0 .. MaxAttempts
    BY AttemptAssumption
  <2>2. MostPerAttempt * 0 = 0 /\ 0 \in 0 .. MostDue
    BY <2>1, AttemptCosts
  <2> DEFINE w == [bound |-> FALSE, attempts |-> 0, state |-> "ready", due |-> 0,
                   uncertain |-> FALSE, lease |-> 0, windows |-> {}]
  <2>3. w \in Work
    <3>1. 0 \in 0 .. MaxPairs
      BY ConfigAssumption
    <3> QED BY <2>1, <2>2, <3>1 DEF Work
  <2>4. DueOK(w)
    BY <2>2 DEF DueOK
  <2>5. work = [r \in Request |-> w]
    BY DEF ChatInit
  <2> HIDE DEF w
  <2> QED BY <2>3, <2>4, <2>5 DEF WorkInv
<1> QED BY <1>2, <1>4, <1>5, <1>6, <1>7, <1>8, <1>9 DEF ChatInv, RequestInv

\* Only a message that lands, or a probe, touches the store.
LEMMA RequestStep ==
  ASSUME ChatInv, NEW r \in Request,
         \/ Arrive(r) \/ Advance(r) \/ Produce(r) \/ Resume(r)
         \/ StartAttempt(r) \/ FinishAttempt(r) \/ Cancelled(r)
  PROVE  ChatInv' /\ UNCHANGED vars
<1>1. ChatInv'
  BY ArriveOK, ReplayKeeps, AdmissionOK, BeginWaitOK, PollOK, WaitEndsOK, PollAnswerOK,
     BeginStreamOK, ProduceOK, AskRenewalOK, RenewalAnswerOK, StartAttemptOK,
     FinishAttemptOK, SettlingOK, OverOK DEF Advance
<1>2. UNCHANGED vars
  <2>1. ASSUME Advance(r) PROVE UNCHANGED vars
    BY <2>1 DEF Advance, Replay, AdmissionAnswered, BeginWait, Poll, WaitEnds, PollAnswer,
       BeginStream, AskRenewal, LeaseEnds, RenewalAnswer, Settling, Settled,
       EndCall, NoCall
  <2> QED BY <2>1 DEF Arrive, Produce, Resume, StartAttempt, FinishAttempt, Cancelled,
          EndCall, NoCall
<1> QED BY <1>1, <1>2

LEMMA ChatStep == ChatInv /\ [ChatNext]_chatVars => ChatInv' /\ [Next]_vars
<1> SUFFICES ASSUME ChatInv, [ChatNext]_chatVars PROVE ChatInv' /\ [Next]_vars
  OBVIOUS
<1>1. CASE \E r \in Request :
             \/ Arrive(r) \/ Advance(r) \/ Produce(r) \/ Resume(r)
             \/ StartAttempt(r) \/ FinishAttempt(r) \/ Cancelled(r)
  BY <1>1, RequestStep
<1>2. CASE \E m \in messages : Land(m)
  BY <1>2, LandOK
<1>3. CASE Tick
  BY <1>3, TickOK DEF Tick
<1>4. CASE Probe
  BY <1>4, ProbeOK
<1>5. CASE UNCHANGED chatVars
  <2>1. Quiet /\ UNCHANGED <<messages, call, phase, ticket, lease, authority, wake,
                             waitEnd, ticks, work>>
    BY <1>5 DEF chatVars, requests, Quiet
  <2>2. MessageInv' /\ CallInv'
    BY <2>1, CallStays DEF ChatInv, RequestInv
  <2> QED BY <2>1, <2>2, QuietOK, OwnerStays, WaitStays, AuthorityStays, TimerStays,
             WorkStays DEF ChatInv, RequestInv, Quiet
<1> QED BY <1>1, <1>2, <1>3, <1>4, <1>5 DEF ChatNext

LEMMA ChatInvTypes == ChatInv => ChatTypeOK
<1> SUFFICES ASSUME ChatInv PROVE ChatTypeOK
  OBVIOUS
<1>1. clock \in Instant /\ lastNow <= clock
  BY DEF ChatInv, ClockInv
<1>2. phase \in [Request -> Phase]
      /\ \A r \in Request : call[r].op \in Request \X (0 .. MaxCalls)
  BY DEF ChatInv, RequestInv, CallInv, CallOK
<1>3. \A m \in messages : m.op \in OperationId /\ m.sent <= clock
  BY DEF ChatInv, RequestInv, MessageInv
<1>4. ticket \in [Request -> 0 .. tokenSequence] /\ lease \in [Request -> 0 .. tokenSequence]
  BY DEF ChatInv, RequestInv, OwnerInv
<1>5. /\ Functional(authority, 1 .. tokenSequence, [deadline : Nat, expiry : Nat])
      /\ Cardinality(DOMAIN authority) <= MaxActive
  BY DEF ChatInv, RequestInv, AuthorityInv, Entry
<1>6. /\ wake \in [Request -> Nat] /\ waitEnd \in [Request -> Nat]
      /\ ticks \in [Request -> 0 .. RenewalTicks]
  BY DEF ChatInv, RequestInv, TimerInv
<1>7. work \in [Request -> Work]
  BY DEF ChatInv, RequestInv, WorkInv
<1> QED BY <1>1, <1>2, <1>3, <1>4, <1>5, <1>6, <1>7 DEF ChatTypeOK

-----------------------------------------------------------------------------
(* The theorems.                                                           *)

\* Whatever is delayed, replayed, lost or cancelled, requests hold only ids the
\* store has issued, at most MaxActive deadlines are remembered, no request asks
\* for more renewals or starts more provider attempts than the policy has, and
\* what those cost stays within MaxCost each, not within what was reserved.
THEOREM ChatTypeCorrect == ChatSpec => []ChatTypeOK
<1> QED BY ChatInvInit, ChatStep, ChatInvTypes, PTL DEF ChatSpec

\* Controlled chat is an environment of the store: each of its steps is one
\* call the store's specification has, or leaves the store as it is.  Calls come
\* late, twice or after their request is over, and settlements may be above the
\* reservation, up to the most that MaxAttempts attempts can cost.
THEOREM UsesTheStore == ChatSpec => Spec
<1>1. ChatInit => Init
  BY DEF ChatInit
<1> QED BY <1>1, ChatInvInit, ChatStep, PTL DEF ChatSpec, Spec

\* What is proved of the store on its own therefore holds under the endpoint:
\* no reservation is lost, no renewal or settlement of a live lease is refused
\* for want of capacity, every table stays within its share, no budget is
\* exceeded unless a settlement above its reservation has been reported, and
\* every grant is on record under one operation id.
THEOREM StoreHoldsUnderChat ==
  ChatSpec => [](/\ ReservationsBacked /\ LifecycleNeverRefused /\ TablesBounded
                 /\ WithinBudget /\ GrantsOnRecord)
<1> QED BY UsesTheStore, ReservationsAreBacked, CapacityReserved, TablesStayBounded,
           BudgetKept, GrantsStayOnRecord, PTL

-----------------------------------------------------------------------------
(* Leases under the requests that hold them: the invariant.                *)

\* What the caller of a store call is told, or would be by a replay.
Hears(r, o) ==
  /\ phase[r] \in Waiting
  /\ \/ o = call[r].reply
     \/ call[r].op \in DOMAIN receipts /\ o = receipts[call[r].op].outcome
\* The ids a request owns, or was granted and may yet take.
Claims(r, i) ==
  \/ i # 0 /\ (i = lease[r] \/ i = ticket[r])
  \/ \E o : Hears(r, o) /\ o.type \in Grant /\ o.id = i
ClaimsApart ==
  \A r, s \in Request : r # s => \A i : ~(Claims(r, i) /\ Claims(s, i))

\* An operation id belongs to its request, which drew it before any use.
DrawnInv ==
  /\ \A r \in Request : call[r].op[1] = r /\ call[r].started <= clock
  /\ \A m \in messages : m.op[2] <= call[m.op[1]].op[2]
  /\ \A op \in DOMAIN receipts : op[2] <= call[op[1]].op[2]
  /\ \A m \in messages, r \in Request :
       phase[r] \in Waiting /\ m.op = call[r].op =>
         m.kind = call[r].kind /\ m.args = call[r].args

\* A lease whose settlement is asked for is nobody's any more.
Released(i) ==
  /\ i \in 1 .. tokenSequence /\ i \notin DOMAIN authority
  /\ \A r \in Request : ~Claims(r, i)
ReleasedInv ==
  /\ \A m \in messages : m.kind = "finalize" => Released(m.args[1].id)
  /\ \A r \in Request :
       phase[r] \in Waiting /\ call[r].kind = "finalize" => Released(call[r].args[1].id)

\* The store keeps lease i at least until e, or e has passed.
Standing(i, e) == e > clock => i \in DOMAIN leases /\ leases[i].expires >= e
BackedInv == \A i \in DOMAIN authority : Standing(i, authority[i].deadline)
\* What an answer says of a lease is still so, and counts from the call's start.
AnswerStands(r, o) ==
  /\ o.type = "Admitted" =>
       Standing(o.id, o.expires) /\ o.expires >= call[r].started + LeaseTTL
  /\ o.type = "Renewed" /\ phase[r] = "renewing" =>
       Standing(lease[r], o.expires) /\ o.expires >= call[r].started + LeaseTTL
AnswersStand == \A r \in Request : \A o : Hears(r, o) => AnswerStands(r, o)
ExpiryInv == \A i \in DOMAIN leases : leases[i].expires <= lastNow + LeaseTTL

\* What a request holds in each phase.
HoldOK(r) ==
  /\ call[r].kind = "admit_or_enqueue" => phase[r] = "admitting"
  /\ phase[r] \in {"idle", "admitting"} => lease[r] = 0 /\ ticket[r] = 0
  /\ lease[r] = 0 \/ ticket[r] = 0
  /\ phase[r] \in {"streaming", "renewing", "sending"} => lease[r] # 0
\* A stream's timers never outlast its authority.
StreamOK(r) ==
  /\ phase[r] \in {"streaming", "sending"} /\ clock < wake[r] =>
       lease[r] \in DOMAIN authority /\ wake[r] <= Deadline(r)
  /\ phase[r] = "renewing" =>
       /\ call[r].kind = "renew" /\ call[r].args = Held(lease[r])
       /\ call[r].deadline <= call[r].overall
       /\ call[r].overall <= call[r].started + LeaseTTL
       /\ clock < call[r].overall =>
            lease[r] \in DOMAIN authority /\ call[r].overall <= Deadline(r)
HoldInv == \A r \in Request : HoldOK(r) /\ StreamOK(r)

TenureInv ==
  /\ ClaimsApart /\ DrawnInv /\ ReleasedInv /\ BackedInv /\ AnswersStand
  /\ ExpiryInv /\ HoldInv

-----------------------------------------------------------------------------
(* A step of one request: it takes only what it claims.                    *)

\* The controller keeps what the others rely on, and remembers of r only what
\* the store keeps.
AuthorityStep(r) ==
  /\ \A s \in Request \ {r} :
       lease[s] \in DOMAIN authority /\ Deadline(s) > clock =>
         lease[s] \in DOMAIN authority' /\ authority'[lease[s]] = authority[lease[s]]
  /\ \A i \in DOMAIN authority' :
       \/ i \in DOMAIN authority /\ authority'[i] = authority[i]
       \/ Claims(r, i) /\ Standing(i, authority'[i].deadline)
OthersStay(r) ==
  \A s \in Request \ {r} :
    /\ phase'[s] = phase[s] /\ call'[s] = call[s]
    /\ lease'[s] = lease[s] /\ ticket'[s] = ticket[s] /\ wake'[s] = wake[s]
Moves(r) ==
  /\ Quiet /\ OthersStay(r) /\ AuthorityStep(r)
  /\ \A i : Claims(r, i)' => Claims(r, i)

LEMMA Settled2 ==
  ASSUME ChatInv
  PROVE  /\ clock \in Nat /\ LeaseTTL \in Nat /\ tokenSequence \in Nat
         /\ \A i \in DOMAIN authority :
              i \in 1 .. tokenSequence /\ authority[i].deadline \in Nat
         /\ \A r \in Request :
              /\ call[r].started \in Nat /\ call[r].deadline \in Nat
              /\ call[r].overall \in Nat /\ wake[r] \in Nat
              /\ lease[r] \in 0 .. tokenSequence /\ ticket[r] \in 0 .. tokenSequence
<1>1. clock \in Nat
  BY ConfigAssumption DEF ChatInv, ClockInv, Instant
<1>2. tokenSequence \in Nat
  BY TokenBounds DEF ChatInv, StoreInv, WindowInv
<1>3. \A i \in DOMAIN authority :
        i \in 1 .. tokenSequence /\ authority[i].deadline \in Nat
  BY DEF ChatInv, RequestInv, AuthorityInv, Functional, Entry
<1>4. ASSUME NEW r \in Request
      PROVE  /\ call[r].started \in Nat /\ call[r].deadline \in Nat
             /\ call[r].overall \in Nat /\ wake[r] \in Nat
             /\ lease[r] \in 0 .. tokenSequence /\ ticket[r] \in 0 .. tokenSequence
  BY DEF ChatInv, RequestInv, CallInv, CallOK, TimerInv, OwnerInv
<1> QED BY <1>1, <1>2, <1>3, <1>4, Timing

LEMMA OthersClaim ==
  ASSUME NEW r \in Request, Moves(r), NEW s \in Request, NEW i, Claims(s, i)'
  PROVE  Claims(s, i)
<1>1. CASE s = r
  BY <1>1 DEF Moves, OthersStay, AuthorityStep
<1>2. CASE s # r
  <2>1. /\ phase'[s] = phase[s] /\ call'[s] = call[s] /\ lease'[s] = lease[s]
        /\ ticket'[s] = ticket[s] /\ receipts' = receipts
    BY <1>2 DEF Moves, OthersStay, AuthorityStep, Quiet, vars
  <2>2. \A o : Hears(s, o)' => Hears(s, o)
    BY <2>1 DEF Hears
  <2> QED BY <2>1, <2>2 DEF Claims
<1> QED BY <1>1, <1>2

LEMMA MovesApart ==
  ASSUME TenureInv, NEW r \in Request, Moves(r)
  PROVE  ClaimsApart' /\ \A i : Released(i) => Released(i)'
<1>1. ClaimsApart'
  BY OthersClaim DEF TenureInv, ClaimsApart
<1>2. ASSUME NEW i, Released(i) PROVE Released(i)'
  <2>1. tokenSequence' = tokenSequence
    BY DEF Moves, OthersStay, AuthorityStep, Quiet, vars
  <2>2. i \notin DOMAIN authority'
    BY <1>2 DEF Moves, OthersStay, AuthorityStep, Released
  <2>3. \A s \in Request : ~Claims(s, i)'
    BY <1>2, OthersClaim DEF Released
  <2> QED BY <1>2, <2>1, <2>2, <2>3 DEF Released
<1> QED BY <1>1, <1>2

LEMMA MovesBacked ==
  ASSUME TenureInv, NEW r \in Request, Moves(r)
  PROVE  BackedInv' /\ ExpiryInv'
<1>1. UNCHANGED <<clock, leases, lastNow>>
  BY DEF Moves, OthersStay, AuthorityStep, Quiet, vars
<1>2. \A i, e : Standing(i, e) => Standing(i, e)'
  BY <1>1 DEF Standing
<1>3. ASSUME NEW i \in DOMAIN authority' PROVE Standing(i, authority[i].deadline)'
  <2>1. PICK e : e = authority'[i].deadline
    OBVIOUS
  <2>2. Standing(i, e)
    BY <1>3, <2>1 DEF Moves, OthersStay, AuthorityStep, TenureInv, BackedInv
  <2>3. Standing(i, e)'
    BY <1>2, <2>2
  <2> QED BY <2>1, <2>3 DEF Standing
<1> QED BY <1>1, <1>3 DEF BackedInv, TenureInv, ExpiryInv

\* A request that does not move keeps its timers and its answers.
LEMMA MovesOthers ==
  ASSUME ChatInv, TenureInv, NEW r \in Request, Moves(r), NEW s \in Request, s # r
  PROVE  /\ HoldOK(s)' /\ StreamOK(s)'
         /\ \A o : Hears(s, o)' => AnswerStands(s, o)'
<1>1. /\ phase'[s] = phase[s] /\ call'[s] = call[s] /\ lease'[s] = lease[s]
      /\ ticket'[s] = ticket[s] /\ wake'[s] = wake[s]
      /\ lease[s] \in DOMAIN authority /\ Deadline(s) > clock =>
           lease[s] \in DOMAIN authority' /\ authority'[lease[s]] = authority[lease[s]]
      /\ UNCHANGED <<clock, leases, receipts>>
  BY DEF Moves, OthersStay, AuthorityStep, Quiet, vars
<1>2. HoldOK(s) /\ StreamOK(s) /\ \A o : Hears(s, o) => AnswerStands(s, o)
  BY DEF TenureInv, HoldInv, AnswersStand
<1>3. HoldOK(s)'
  BY <1>1, <1>2 DEF HoldOK
<1>4. StreamOK(s)'
  <2>1. /\ clock \in Nat /\ wake[s] \in Nat /\ call[s].overall \in Nat
        /\ lease[s] \in DOMAIN authority => Deadline(s) \in Nat
    BY Settled2 DEF Deadline
  <2>2. ASSUME phase[s] \in {"streaming", "sending"}, clock < wake[s]
        PROVE  lease'[s] \in DOMAIN authority' /\ wake'[s] <= Deadline(s)'
    <3>1. lease[s] \in DOMAIN authority /\ wake[s] <= Deadline(s)
      BY <1>2, <2>2 DEF StreamOK
    <3>2. Deadline(s) > clock
      BY <2>1, <2>2, <3>1
    <3> QED BY <1>1, <3>1, <3>2 DEF Deadline
  <2>3. ASSUME phase[s] = "renewing", clock < call[s].overall
        PROVE  lease'[s] \in DOMAIN authority' /\ call'[s].overall <= Deadline(s)'
    <3>1. lease[s] \in DOMAIN authority /\ call[s].overall <= Deadline(s)
      BY <1>2, <2>3 DEF StreamOK
    <3>2. Deadline(s) > clock
      BY <2>1, <2>3, <3>1
    <3> QED BY <1>1, <3>1, <3>2 DEF Deadline
  <2> QED BY <1>1, <1>2, <2>2, <2>3 DEF StreamOK
<1>5. ASSUME NEW o, Hears(s, o)' PROVE AnswerStands(s, o)'
  <2>1. Hears(s, o)
    BY <1>1, <1>5 DEF Hears
  <2>2. AnswerStands(s, o)
    BY <1>2, <2>1
  <2> QED BY <1>1, <2>2 DEF AnswerStands, Standing
<1> QED BY <1>3, <1>4, <1>5

\* Every id of a request's own is claimed by what it holds or hears.
LEMMA RestMoves ==
  ASSUME NEW r \in Request, phase'[r] \notin Waiting,
         lease'[r] = 0 \/ Claims(r, lease'[r]),
         ticket'[r] = 0 \/ Claims(r, ticket'[r])
  PROVE  \A i : Claims(r, i)' => Claims(r, i)
<1>1. \A o : ~Hears(r, o)'
  BY DEF Hears
<1> QED BY <1>1 DEF Claims

\* After a step that waits for no call.
LEMMA RestKeeps ==
  ASSUME ChatInv, TenureInv, NEW r \in Request, Moves(r), messages' = messages,
         phase'[r] \notin Waiting, call'[r] = call[r] \/ call'[r] = Idle(r),
         HoldOK(r)', StreamOK(r)'
  PROVE  TenureInv'
<1>1. ClaimsApart' /\ BackedInv' /\ ExpiryInv'
  BY MovesApart, MovesBacked
<1>2. HoldInv'
  BY MovesOthers DEF HoldInv
<1>3. AnswersStand'
  <2>1. \A o : ~Hears(r, o)'
    BY DEF Hears
  <2> QED BY <2>1, MovesOthers DEF AnswersStand
<1>4. /\ clock' = clock /\ receipts' = receipts
      /\ \A s \in Request \ {r} : phase'[s] = phase[s] /\ call'[s] = call[s]
  BY DEF Moves, OthersStay, AuthorityStep, Quiet, vars
<1>5. /\ call'[r].op = call[r].op
      /\ call'[r].started = call[r].started \/ call'[r].started = 0
  BY DEF Idle
<1>6. /\ \A m \in messages : m.op[1] \in Request
      /\ \A op \in DOMAIN receipts : op[1] \in Request
  BY OperationAssumption
     DEF ChatInv, RequestInv, MessageInv, StoreInv, WindowInv, TypeOK
<1>7. DrawnInv'
  <2>1. \A s \in Request : call'[s].op = call[s].op
    BY <1>4, <1>5
  <2>2. \A s \in Request : call'[s].op[1] = s /\ call'[s].started <= clock'
    BY <1>4, <1>5, <2>1, Settled2 DEF TenureInv, DrawnInv
  <2>3. \A m \in messages' : m.op[2] <= call'[m.op[1]].op[2]
    BY <1>6, <2>1 DEF TenureInv, DrawnInv
  <2>4. \A op \in DOMAIN receipts' : op[2] <= call'[op[1]].op[2]
    BY <1>4, <1>6, <2>1 DEF TenureInv, DrawnInv
  <2>5. \A m \in messages', s \in Request :
          phase'[s] \in Waiting /\ m.op = call'[s].op =>
            m.kind = call'[s].kind /\ m.args = call'[s].args
    BY <1>4 DEF TenureInv, DrawnInv
  <2> QED BY <2>2, <2>3, <2>4, <2>5 DEF DrawnInv
<1>8. ReleasedInv'
  <2>1. ASSUME NEW m \in messages', m.kind = "finalize" PROVE Released(m.args[1].id)'
    BY <2>1, MovesApart DEF TenureInv, ReleasedInv
  <2>2. ASSUME NEW s \in Request, phase'[s] \in Waiting, call'[s].kind = "finalize"
        PROVE  Released(call[s].args[1].id)'
    <3>1. call'[s] = call[s] /\ phase'[s] = phase[s]
      BY <1>4, <2>2
    <3>2. PICK i : i = call[s].args[1].id
      OBVIOUS
    <3>3. Released(i)'
      BY <2>2, <3>1, <3>2, MovesApart DEF TenureInv, ReleasedInv
    <3>4. i = call'[s].args[1].id
      BY <3>1, <3>2
    <3> QED BY <3>3, <3>4 DEF Released
  <2> QED BY <2>1, <2>2 DEF ReleasedInv
<1> QED BY <1>1, <1>2, <1>3, <1>7, <1>8 DEF TenureInv

\* The next operation id of a request is in no receipt and no message.
LEMMA FreshOperation ==
  ASSUME ChatInv, TenureInv, NEW r \in Request, NEW op, op = NewOperation(r)
  PROVE  /\ op[1] = r /\ op[2] = call[r].op[2] + 1 /\ call[r].op[2] \in Nat
         /\ op \notin DOMAIN receipts /\ \A m \in messages : m.op # op
<1>1. op[1] = r /\ op[2] = call[r].op[2] + 1
  BY DEF NewOperation
<1>2. call[r].op[2] \in Nat
  BY OperationAssumption DEF ChatInv, RequestInv, CallInv, CallOK
<1> QED BY <1>1, <1>2 DEF TenureInv, DrawnInv

\* After a step that sends a new call, or the same one again.
Sends(r, c) ==
  /\ Send(r, c) /\ c.reply = NoReply /\ c.started \in Nat /\ c.started <= clock
  /\ phase'[r] \in Waiting /\ c.op[1] = r
  /\ \/ c.op = NewOperation(r)
     \/ /\ c.op = call[r].op /\ c.kind = call[r].kind /\ c.args = call[r].args
        /\ c.started = call[r].started /\ lease'[r] = lease[r]
        /\ phase'[r] = phase[r]

LEMMA NoReplyIsNone == NoReply.type \notin Grant \cup {"Renewed"}
BY DEF NoReply, Grant

\* A new call hears nothing yet.
LEMMA SendHears ==
  ASSUME ChatInv, TenureInv, Quiet, NEW r \in Request, NEW c, Sends(r, c),
         NEW o, Hears(r, o)'
  PROVE  o = NoReply \/ (Hears(r, o) /\ c.op = call[r].op)
<1>1. call'[r] = c /\ receipts' = receipts
  BY DEF Sends, Send, Set, Quiet, vars, ChatInv, RequestInv, CallInv
<1>2. o = c.reply \/ (c.op \in DOMAIN receipts /\ o = receipts[c.op].outcome)
  BY <1>1 DEF Hears
<1>3. CASE c.op = NewOperation(r)
  <2>1. c.op \notin DOMAIN receipts
    <3>1. PICK op : op = c.op
      OBVIOUS
    <3> QED BY <1>3, <3>1, FreshOperation
  <2> QED BY <1>2, <2>1 DEF Sends
<1>4. CASE c.op = call[r].op /\ phase'[r] = phase[r]
  BY <1>1, <1>2, <1>4 DEF Sends, Hears
<1> QED BY <1>3, <1>4 DEF Sends

LEMMA SendMoves ==
  ASSUME ChatInv, TenureInv, Quiet, NEW r \in Request, NEW c, Sends(r, c),
         lease'[r] = 0 \/ lease'[r] = lease[r], ticket'[r] = 0 \/ ticket'[r] = ticket[r]
  PROVE  \A i : Claims(r, i)' => Claims(r, i)
<1> SUFFICES ASSUME NEW i, Claims(r, i)' PROVE Claims(r, i)
  OBVIOUS
<1>1. CASE i # 0 /\ (i = lease'[r] \/ i = ticket'[r])
  BY <1>1 DEF Claims
<1>2. CASE \E o : Hears(r, o)' /\ o.type \in Grant /\ o.id = i
  BY <1>2, SendHears, NoReplyIsNone DEF Claims
<1> QED BY <1>1, <1>2 DEF Claims

LEMMA SendKeeps ==
  ASSUME ChatInv, TenureInv, NEW r \in Request, Moves(r), NEW c, Sends(r, c),
         c.kind = "finalize" => Released(c.args[1].id)',
         HoldOK(r)', StreamOK(r)'
  PROVE  TenureInv'
<1>1. ClaimsApart' /\ BackedInv' /\ ExpiryInv' /\ Quiet
  BY MovesApart, MovesBacked DEF Moves, OthersStay, AuthorityStep
<1>2. HoldInv'
  BY MovesOthers DEF HoldInv
<1>3. /\ clock' = clock /\ receipts' = receipts /\ leases' = leases
      /\ \A s \in Request \ {r} : phase'[s] = phase[s] /\ call'[s] = call[s]
      /\ call'[r] = c /\ messages' = messages \cup {Message(r, c)}
  BY DEF Moves, OthersStay, AuthorityStep, Quiet, vars, Sends, Send, Set, ChatInv, RequestInv, CallInv
<1>4. AnswersStand'
  <2>1. ASSUME NEW o, Hears(r, o)' PROVE AnswerStands(r, o)'
    <3>1. CASE o = NoReply
      BY <3>1, NoReplyIsNone DEF AnswerStands, Grant
    <3>2. CASE Hears(r, o) /\ c.op = call[r].op
      <4>1. c.op # NewOperation(r)
        <5>1. PICK op : op = NewOperation(r)
          OBVIOUS
        <5> QED BY <3>2, <5>1, FreshOperation
      <4>2. /\ c.started = call[r].started /\ lease'[r] = lease[r]
            /\ phase'[r] = phase[r]
        BY <4>1 DEF Sends
      <4>3. AnswerStands(r, o)
        BY <3>2 DEF TenureInv, AnswersStand
      <4> QED BY <1>3, <4>2, <4>3 DEF AnswerStands, Standing
    <3> QED BY <1>1, <2>1, <3>1, <3>2, SendHears
  <2> QED BY <2>1, MovesOthers DEF AnswersStand
<1>5. /\ \A m \in messages : m.op \in Request \X (1 .. MaxCalls)
      /\ \A op \in DOMAIN receipts : op \in Request \X (1 .. MaxCalls)
      /\ \A s \in Request : call[s].op \in Request \X (0 .. MaxCalls)
  BY OperationAssumption
     DEF ChatInv, RequestInv, MessageInv, CallInv, CallOK, StoreInv, WindowInv, TypeOK
<1>6. \/ c.op[2] = call[r].op[2] + 1 /\ \A m \in messages : m.op # c.op
      \/ c.op = call[r].op /\ c.kind = call[r].kind /\ c.args = call[r].args
         /\ phase[r] \in Waiting
  <2>1. PICK op : op = c.op
    OBVIOUS
  <2> QED BY <2>1, FreshOperation DEF Sends
<1>7. MaxCalls \in Nat
  BY OperationAssumption
<1>8. \A s \in Request : call[s].op[2] <= call'[s].op[2] /\ call'[s].op[1] = s
  BY <1>3, <1>5, <1>6, <1>7 DEF Sends, TenureInv, DrawnInv
<1>9. c.op[2] \in Int
  BY <1>5, <1>6, <1>7
<1>10. /\ Message(r, c).op = c.op /\ Message(r, c).kind = c.kind
       /\ Message(r, c).args = c.args
  BY DEF Message
<1>11. DrawnInv'
  <2>1. \A s \in Request : call'[s].op[1] = s /\ call'[s].started <= clock'
    BY <1>3, <1>8 DEF Sends, TenureInv, DrawnInv
  <2>2. ASSUME NEW m \in messages' PROVE m.op[2] <= call'[m.op[1]].op[2]
    <3>1. CASE m \in messages
      <4>1. m.op[1] \in Request /\ m.op[2] \in Int /\ m.op[2] <= call[m.op[1]].op[2]
        BY <1>5, <1>7, <3>1 DEF TenureInv, DrawnInv
      <4>2. call[m.op[1]].op[2] \in Int /\ call'[m.op[1]].op[2] \in Int
        BY <1>3, <1>5, <1>7, <1>9, <4>1
      <4> QED BY <1>8, <4>1, <4>2
    <3>2. CASE m = Message(r, c)
      BY <1>3, <1>9, <1>10, <3>2 DEF Sends
    <3> QED BY <1>3, <3>1, <3>2
  <2>3. ASSUME NEW op \in DOMAIN receipts' PROVE op[2] <= call'[op[1]].op[2]
    <3>1. op[1] \in Request /\ op[2] \in Int /\ op[2] <= call[op[1]].op[2]
      BY <1>3, <1>5, <1>7 DEF TenureInv, DrawnInv
    <3>2. call[op[1]].op[2] \in Int /\ call'[op[1]].op[2] \in Int
      BY <1>3, <1>5, <1>7, <1>9, <3>1
    <3> QED BY <1>8, <3>1, <3>2
  <2>4. ASSUME NEW m \in messages', NEW s \in Request,
               phase'[s] \in Waiting, m.op = call'[s].op
        PROVE  m.kind = call'[s].kind /\ m.args = call'[s].args
    <3>1. CASE m \in messages /\ s # r
      BY <1>3, <2>4, <3>1 DEF TenureInv, DrawnInv
    <3>2. CASE m \in messages /\ s = r
      BY <1>3, <1>6, <2>4, <3>2 DEF TenureInv, DrawnInv
    <3>3. CASE m = Message(r, c)
      <4>1. s = r
        BY <1>8, <1>10, <2>4, <3>3 DEF Sends
      <4> QED BY <1>3, <1>10, <3>3, <4>1
    <3> QED BY <1>3, <3>1, <3>2, <3>3
  <2> QED BY <2>1, <2>2, <2>3, <2>4 DEF DrawnInv
<1>12. ReleasedInv'
  <2>1. ASSUME NEW m \in messages', m.kind = "finalize" PROVE Released(m.args[1].id)'
    <3>1. CASE m \in messages
      BY <2>1, <3>1, MovesApart DEF TenureInv, ReleasedInv
    <3>2. CASE m = Message(r, c)
      BY <1>10, <2>1, <3>2
    <3> QED BY <1>3, <3>1, <3>2
  <2>2. ASSUME NEW s \in Request, phase'[s] \in Waiting, call'[s].kind = "finalize"
        PROVE  Released(call[s].args[1].id)'
    <3>1. CASE s = r
      BY <1>3, <2>2, <3>1 DEF Released
    <3>2. CASE s # r
      <4>1. call'[s] = call[s] /\ phase'[s] = phase[s]
        BY <1>3, <3>2
      <4>2. PICK i : i = call[s].args[1].id
        OBVIOUS
      <4>3. Released(i)'
        BY <2>2, <4>1, <4>2, MovesApart DEF TenureInv, ReleasedInv
      <4>4. i = call'[s].args[1].id
        BY <4>1, <4>2
      <4> QED BY <4>3, <4>4 DEF Released
    <3> QED BY <3>1, <3>2
  <2> QED BY <2>1, <2>2 DEF ReleasedInv
<1> QED BY <1>1, <1>2, <1>4, <1>11, <1>12 DEF TenureInv

-----------------------------------------------------------------------------
(* What the steps do to the authority.                                     *)

LEMMA OwnLease ==
  ASSUME NEW r \in Request, lease[r] # 0
  PROVE  Claims(r, lease[r])
BY DEF Claims

LEMMA KeptAuthority ==
  ASSUME ChatInv, TenureInv, NEW r \in Request,
         authority' = authority \/ Drop(lease[r])
  PROVE  AuthorityStep(r)
<1>1. CASE authority' = authority
  BY <1>1 DEF AuthorityStep
<1>2. CASE Drop(lease[r])
  <2>1. /\ DOMAIN authority' = DOMAIN authority \ {lease[r]}
        /\ \A i \in DOMAIN authority' : authority'[i] = authority[i]
    BY <1>2 DEF Drop, Without, Restrict
  <2>2. ASSUME NEW s \in Request \ {r}, lease[s] \in DOMAIN authority
        PROVE  lease[s] # lease[r]
    <3>1. lease[s] # 0
      BY <2>2, Settled2
    <3> QED BY <3>1, OwnLease DEF TenureInv, ClaimsApart
  <2> QED BY <2>1, <2>2 DEF AuthorityStep
<1> QED BY <1>1, <1>2

LEMMA RecordedAuthority ==
  ASSUME ChatInv, TenureInv, NEW r \in Request, NEW outcome, Hears(r, outcome),
         outcome.type = "Admitted", Named(outcome),
         RecordAuthority(outcome, call[r].started)
  PROVE  AuthorityStep(r) /\ Claims(r, outcome.id)
<1> DEFINE started == call[r].started
           kept == Restrict(authority, Current(started))
           e == [deadline |-> started + LeaseTTL, expiry |-> outcome.expires]
<1>1. Claims(r, outcome.id)
  BY DEF Claims, Grant
<1>2. Standing(outcome.id, outcome.expires) /\ outcome.expires >= started + LeaseTTL
  BY DEF TenureInv, AnswersStand, AnswerStands
<1>3. /\ started \in Nat /\ started <= clock /\ clock \in Nat /\ LeaseTTL \in Nat
      /\ outcome.expires \in Nat
  BY Settled2 DEF TenureInv, DrawnInv, Named
<1>4. Standing(outcome.id, started + LeaseTTL)
  <2>1. ASSUME started + LeaseTTL > clock
        PROVE  /\ outcome.id \in DOMAIN leases
               /\ leases[outcome.id].expires >= started + LeaseTTL
    <3>1. outcome.id \in DOMAIN leases /\ leases[outcome.id].expires >= outcome.expires
      BY <1>2, <1>3, <2>1 DEF Standing
    <3>2. leases[outcome.id].expires \in Nat
      BY <3>1 DEF ChatInv, StoreInv, WindowInv, TypeOK, Functional, LeaseRecord
    <3> QED BY <1>2, <1>3, <3>1, <3>2
  <2> QED BY <2>1 DEF Standing
<1>5. DOMAIN kept = Current(started) /\ \A i \in Current(started) : kept[i] = authority[i]
  BY DEF Restrict
<1>6. authority' = Put(kept, outcome.id, e) \/ authority' = kept
  BY DEF RecordAuthority
<1>7. e.deadline = started + LeaseTTL
  OBVIOUS
<1>8. Current(started) \subseteq DOMAIN authority
  BY DEF Current
<1> HIDE DEF kept, e
<1>9. /\ Current(started) \subseteq DOMAIN authority'
      /\ DOMAIN authority' \subseteq Current(started) \cup {outcome.id}
      /\ \A i \in DOMAIN authority' :
           \/ i \in Current(started) /\ authority'[i] = authority[i]
           \/ i = outcome.id /\ authority'[i] = e
      /\ \A i \in Current(started) : i # outcome.id => authority'[i] = authority[i]
  BY <1>5, <1>6 DEF Put
<1>10. ASSUME NEW s \in Request \ {r}, lease[s] \in DOMAIN authority, Deadline(s) > clock
       PROVE  lease[s] \in DOMAIN authority' /\ authority'[lease[s]] = authority[lease[s]]
  <2>1. lease[s] # outcome.id
    <3>1. lease[s] # 0
      BY <1>10, Settled2
    <3> QED BY <1>1, <3>1, OwnLease DEF TenureInv, ClaimsApart
  <2>2. lease[s] \in Current(started)
    <3>1. authority[lease[s]].deadline \in Nat
      BY <1>10, Settled2
    <3> QED BY <1>3, <1>10, <3>1 DEF Current, Deadline
  <2> QED BY <1>9, <2>1, <2>2
<1>11. ASSUME NEW i \in DOMAIN authority'
       PROVE  \/ i \in DOMAIN authority /\ authority'[i] = authority[i]
              \/ Claims(r, i) /\ Standing(i, authority'[i].deadline)
  BY <1>1, <1>4, <1>7, <1>8, <1>9
<1> QED BY <1>1, <1>10, <1>11 DEF AuthorityStep

\* A renewal that is granted in time extends the lease that is renewed.
LEMMA ExtendedAuthority ==
  ASSUME ChatInv, TenureInv, NEW r \in Request, phase[r] = "renewing",
         NEW outcome, Hears(r, outcome), Named(outcome), clock < call[r].deadline,
         RenewalGranted(r, outcome), NEW x, x = Extended(r, outcome)
  PROVE  /\ AuthorityStep(r) /\ x \in Nat /\ clock < x
         /\ lease[r] \in DOMAIN authority' /\ authority'[lease[r]].deadline = x
         /\ lease[r] \in DOMAIN leases /\ leases[lease[r]].expires >= x
<1>1. /\ outcome.type = "Renewed" /\ lease[r] \in DOMAIN authority
      /\ outcome.expires > authority[lease[r]].expiry /\ x > call[r].started
      /\ authority' = [authority EXCEPT ![lease[r]] =
                         [deadline |-> x, expiry |-> outcome.expires]]
  BY DEF RenewalGranted, Extends
<1>2. StreamOK(r) /\ lease[r] # 0
  BY DEF TenureInv, HoldInv, HoldOK
<1>3. /\ clock \in Nat /\ LeaseTTL \in Nat /\ call[r].started \in Nat
      /\ call[r].deadline \in Nat /\ call[r].overall \in Nat
      /\ Deadline(r) \in Nat /\ authority[lease[r]].expiry \in Nat
      /\ outcome.expires \in Nat
  BY <1>1, Settled2, AuthorityEntry DEF Named, ChatInv, RequestInv
<1>4. /\ call[r].deadline <= call[r].overall
      /\ call[r].overall <= call[r].started + LeaseTTL
      /\ call[r].overall <= Deadline(r)
  BY <1>2, <1>3 DEF StreamOK
<1>5. x = Lesser(Deadline(r) + outcome.expires - authority[lease[r]].expiry,
                 call[r].started + LeaseTTL)
  BY DEF Extended
<1>6. x \in Nat /\ clock < x /\ x <= call[r].started + LeaseTTL
  BY <1>1, <1>3, <1>4, <1>5 DEF Lesser
<1>7. Standing(lease[r], outcome.expires) /\ outcome.expires >= call[r].started + LeaseTTL
  BY <1>1 DEF TenureInv, AnswersStand, AnswerStands
<1>8. lease[r] \in DOMAIN leases /\ leases[lease[r]].expires >= x
  <2>1. lease[r] \in DOMAIN leases /\ leases[lease[r]].expires >= outcome.expires
    BY <1>3, <1>6, <1>7 DEF Standing
  <2>2. leases[lease[r]].expires \in Nat
    BY <2>1 DEF ChatInv, StoreInv, WindowInv, TypeOK, Functional, LeaseRecord
  <2> QED BY <1>3, <1>6, <1>7, <2>1, <2>2
<1>9. /\ DOMAIN authority' = DOMAIN authority
      /\ authority'[lease[r]].deadline = x
      /\ \A i \in DOMAIN authority : i # lease[r] => authority'[i] = authority[i]
  BY <1>1
<1>10. ASSUME NEW s \in Request \ {r}, lease[s] \in DOMAIN authority
       PROVE  lease[s] # lease[r]
  <2>1. lease[s] # 0
    BY <1>10, Settled2
  <2> QED BY <1>2, <2>1, OwnLease DEF TenureInv, ClaimsApart
<1>11. Claims(r, lease[r]) /\ Standing(lease[r], x)
  BY <1>2, <1>8, OwnLease DEF Standing
<1>12. AuthorityStep(r)
  BY <1>9, <1>10, <1>11 DEF AuthorityStep
<1> QED BY <1>1, <1>6, <1>8, <1>9, <1>12

\* A deadline that has not passed is less than a full lease away.
LEMMA DeadlineNear ==
  ASSUME ChatInv, TenureInv, NEW r \in Request, HasAuthority(r)
  PROVE  Deadline(r) \in Nat /\ Deadline(r) <= clock + LeaseTTL
         /\ lease[r] \in DOMAIN leases /\ leases[lease[r]].expires >= Deadline(r)
<1>1. /\ lease[r] \in DOMAIN authority /\ Deadline(r) > clock
      /\ Deadline(r) \in Nat /\ clock \in Nat /\ LeaseTTL \in Nat
  BY AuthorityEntry, Settled2 DEF HasAuthority, ChatInv, RequestInv
<1>2. lease[r] \in DOMAIN leases /\ leases[lease[r]].expires >= Deadline(r)
  BY <1>1 DEF TenureInv, BackedInv, Standing, Deadline
<1>3. leases[lease[r]].expires \in Nat /\ leases[lease[r]].expires <= lastNow + LeaseTTL
  BY <1>2 DEF ChatInv, StoreInv, WindowInv, TypeOK, Functional, LeaseRecord,
              TenureInv, ExpiryInv
<1>4. lastNow <= clock /\ lastNow \in Nat
  BY ConfigAssumption DEF ChatInv, ClockInv, StoreInv, WindowInv, TypeOK, Instant
<1> QED BY <1>1, <1>2, <1>3, <1>4

-----------------------------------------------------------------------------
(* The steps of a request.                                                 *)

\* A step after which the request waits for no call.
LEMMA RestStep ==
  ASSUME ChatInv, TenureInv, NEW r \in Request,
         EndCall(r) \/ (NoCall /\ phase[r] # "admitting"),
         NEW p \in Phase \ Waiting, p # "idle", phase' = [phase EXCEPT ![r] = p],
         AuthorityStep(r),
         \A s \in Request \ {r} :
           lease'[s] = lease[s] /\ ticket'[s] = ticket[s] /\ wake'[s] = wake[s],
         lease'[r] \in {0, lease[r]} \/ Claims(r, lease'[r]),
         ticket'[r] \in {0, ticket[r]} \/ Claims(r, ticket'[r]),
         lease'[r] = 0 \/ ticket'[r] = 0,
         p \in {"streaming", "sending"} =>
           /\ lease'[r] # 0
           /\ clock < wake'[r] =>
                /\ lease'[r] \in DOMAIN authority'
                /\ wake'[r] <= authority'[lease'[r]].deadline
  PROVE  TenureInv'
<1>1. Quiet /\ messages' = messages
  BY DEF EndCall, NoCall, Quiet
<1>2. phase'[r] = p /\ \A s \in Request \ {r} : phase'[s] = phase[s]
  BY DEF ChatInv, RequestInv, CallInv
<1>3. /\ \A s \in Request \ {r} : call'[s] = call[s]
      /\ \/ call'[r] = Idle(r)
         \/ call'[r] = call[r] /\ phase[r] # "admitting"
  BY DEF EndCall, NoCall, Set, ChatInv, RequestInv, CallInv
<1>4. /\ lease'[r] = 0 \/ Claims(r, lease'[r])
      /\ ticket'[r] = 0 \/ Claims(r, ticket'[r])
  BY DEF Claims
<1>5. Moves(r)
  BY <1>1, <1>2, <1>3, <1>4, RestMoves DEF Moves, OthersStay
<1>6. call'[r].kind # "admit_or_enqueue"
  BY <1>3 DEF Idle, TenureInv, HoldInv, HoldOK
<1>7. p \notin {"idle", "admitting", "renewing"}
  BY DEF Waiting
<1>8. HoldOK(r)'
  BY <1>2, <1>6, <1>7 DEF HoldOK
<1>9. StreamOK(r)'
  BY <1>1, <1>2, <1>7 DEF StreamOK, Deadline, Quiet
<1> QED BY <1>1, <1>2, <1>3, <1>5, <1>8, <1>9, RestKeeps

\* What an owner gives up at its settlement nobody claims.
LEMMA SettleReleases ==
  ASSUME ChatInv, TenureInv, NEW r \in Request, Moves(r), NEW c, Sends(r, c),
         phase[r] \notin Waiting, NEW i, i = lease[r], i # 0,
         lease'[r] = 0, ticket'[r] = 0, i \notin DOMAIN authority'
  PROVE  Released(i)'
<1>1. i \in 1 .. tokenSequence /\ tokenSequence' = tokenSequence /\ Quiet
  BY Settled2 DEF Moves, Quiet, vars
<1>2. Claims(r, i)
  BY OwnLease
<1>3. ASSUME NEW s \in Request, s # r PROVE ~Claims(s, i)'
  BY <1>2, <1>3, OthersClaim DEF TenureInv, ClaimsApart
<1>4. ~Claims(r, i)'
  <2>1. ASSUME NEW o, Hears(r, o)' PROVE o.type \notin Grant
    <3>1. ~Hears(r, o)
      BY DEF Hears
    <3> QED BY <1>1, <2>1, <3>1, SendHears, NoReplyIsNone
  <2> QED BY <2>1 DEF Claims
<1> QED BY <1>1, <1>3, <1>4 DEF Released

\* A step that asks the store for something.
LEMMA AskStep ==
  ASSUME ChatInv, TenureInv, NEW r \in Request, Quiet,
         NEW kind, NEW args, NEW overall \in Nat, Ask(r, kind, args, overall),
         NEW p \in Waiting, phase' = [phase EXCEPT ![r] = p],
         AuthorityStep(r),
         \A s \in Request \ {r} :
           lease'[s] = lease[s] /\ ticket'[s] = ticket[s] /\ wake'[s] = wake[s],
         lease'[r] \in {0, lease[r]}, ticket'[r] \in {0, ticket[r]},
         kind = "admit_or_enqueue" => p = "admitting",
         p = "admitting" => lease'[r] = 0 /\ ticket'[r] = 0,
         lease'[r] = 0 \/ ticket'[r] = 0,
         kind = "finalize" =>
           /\ phase[r] \notin Waiting /\ lease[r] # 0 /\ args[1].id = lease[r]
           /\ lease'[r] = 0 /\ ticket'[r] = 0 /\ lease[r] \notin DOMAIN authority',
         p = "renewing" =>
           /\ lease'[r] # 0 /\ kind = "renew" /\ args = Held(lease'[r])
           /\ overall <= clock + LeaseTTL
           /\ clock < overall => /\ lease'[r] \in DOMAIN authority'
                                 /\ overall <= authority'[lease'[r]].deadline
  PROVE  TenureInv'
<1> DEFINE d == [op |-> NewOperation(r), kind |-> kind, args |-> args, attempt |-> 1,
                 started |-> clock, deadline |-> Lesser(clock + CallTimeout, overall),
                 overall |-> overall, reply |-> NoReply]
<1>1. PICK c : c = d
  OBVIOUS
<1>2. Send(r, c)
  BY <1>1 DEF Ask, Send, Message, Set
<1>3. /\ c.op = NewOperation(r) /\ c.kind = kind /\ c.args = args
      /\ c.started = clock /\ c.overall = overall /\ c.reply = NoReply
      /\ c.deadline = Lesser(clock + CallTimeout, overall)
  BY <1>1
<1> HIDE DEF d
<1>4. clock \in Nat /\ clock + CallTimeout \in Nat
  BY Settled2, Timing
<1>5. phase'[r] = p /\ \A s \in Request \ {r} : phase'[s] = phase[s]
  BY DEF ChatInv, RequestInv, CallInv, Phase, Waiting
<1>6. Sends(r, c)
  <2>1. c.op[1] = r
    BY <1>3 DEF NewOperation
  <2> QED BY <1>2, <1>3, <1>4, <1>5, <2>1 DEF Sends
<1>7. call'[r] = c /\ \A s \in Request \ {r} : call'[s] = call[s]
  BY <1>2 DEF Send, Set, ChatInv, RequestInv, CallInv
<1>8. Moves(r)
  <2>1. \A i : Claims(r, i)' => Claims(r, i)
    BY <1>6, SendMoves
  <2> QED BY <1>5, <1>7, <2>1 DEF Moves, OthersStay
<1>9. ASSUME c.kind = "finalize" PROVE Released(c.args[1].id)'
  <2>1. PICK i : i = lease[r]
    OBVIOUS
  <2>2. Released(i)'
    BY <1>3, <1>6, <1>8, <1>9, <2>1, SettleReleases
  <2> QED BY <1>3, <1>9, <2>1, <2>2
<1>10. HoldOK(r)'
  BY <1>3, <1>5, <1>7 DEF HoldOK, Waiting
<1>11. StreamOK(r)'
  <2>1. c.deadline <= c.overall
    BY <1>3, <1>4 DEF Lesser
  <2>2. clock' = clock /\ p \notin {"streaming", "sending"}
    BY DEF Quiet, Waiting
  <2> QED BY <1>3, <1>5, <1>7, <2>1, <2>2 DEF StreamOK, Deadline
<1> QED BY <1>6, <1>8, <1>9, <1>10, <1>11, SendKeeps

\* An answer that is not a failure was heard.
LEMMA AnswerHeard ==
  ASSUME ChatInv, NEW r \in Request, phase[r] \in Waiting,
         NEW outcome \in {call[r].reply, Failure}
  PROVE  /\ Named(outcome)
         /\ outcome.type # "Failure" => Hears(r, outcome)
<1>1. Named(outcome)
  BY AnswerNamed DEF ChatInv, RequestInv
<1>2. Failure.type = "Failure"
  BY DEF Failure
<1> QED BY <1>1, <1>2 DEF Hears

LEMMA ArriveTenure ==
  ASSUME ChatInv, TenureInv, NEW r \in Request, Arrive(r)
  PROVE  TenureInv'
<1>1. Quiet /\ UNCHANGED <<ticket, lease, authority, wake>> /\ phase[r] = "idle"
  BY DEF Arrive, Quiet
<1>2. PICK ip \in Ip, session \in Session :
        Ask(r, "admit_or_enqueue", <<ip, session>>, Endless)
  BY DEF Arrive
<1>3. PICK p \in Waiting : p = "admitting" /\ phase' = [phase EXCEPT ![r] = p]
  BY DEF Arrive, Set, Waiting
<1>4. lease[r] = 0 /\ ticket[r] = 0
  BY <1>1 DEF TenureInv, HoldInv, HoldOK
<1>5. PICK args, e, k : args = <<ip, session>> /\ e = Endless /\ k = "admit_or_enqueue"
  OBVIOUS
<1>6. e \in Nat /\ Ask(r, k, args, e) /\ AuthorityStep(r)
  BY <1>1, <1>2, <1>5, KeptAuthority, EndlessNat
<1>7. /\ lease'[r] = 0 /\ ticket'[r] = 0 /\ k # "finalize" /\ p # "renewing"
      /\ \A s \in Request \ {r} :
           lease'[s] = lease[s] /\ ticket'[s] = ticket[s] /\ wake'[s] = wake[s]
  BY <1>1, <1>3, <1>4, <1>5
<1>8. lease'[r] \in {0, lease[r]} /\ ticket'[r] \in {0, ticket[r]} /\ Quiet
  BY <1>1, <1>7
<1> QED BY <1>3, <1>6, <1>7, <1>8, AskStep

LEMMA ReplayTenure ==
  ASSUME ChatInv, TenureInv, NEW r \in Request, Replay(r)
  PROVE  TenureInv'
<1> DEFINE t == Lesser(clock + CallTimeout, call[r].overall)
           d == [call[r] EXCEPT !.attempt = 2, !.reply = NoReply, !.deadline = t]
<1>1. /\ Quiet /\ Send(r, d) /\ phase[r] \in Waiting /\ clock < call[r].overall
      /\ UNCHANGED <<phase, ticket, lease, authority, wake>>
  BY DEF Replay, Quiet
<1>2. DOMAIN call[r] = CallField
  BY DEF ChatInv, RequestInv, CallInv, CallOK
<1>3. PICK c : c = d
  OBVIOUS
<1>4. /\ c.op = call[r].op /\ c.kind = call[r].kind /\ c.args = call[r].args
      /\ c.started = call[r].started /\ c.overall = call[r].overall
      /\ c.deadline = t /\ c.reply = NoReply
  BY <1>2, <1>3 DEF CallField
<1>5. Send(r, c)
  BY <1>1, <1>3 DEF Send, Message, Set
<1> HIDE DEF d
<1>6. clock \in Nat /\ clock + CallTimeout \in Nat /\ call[r].overall \in Nat
  BY Settled2, Timing
<1>7. t <= call[r].overall
  BY <1>6 DEF Lesser
<1> HIDE DEF t
<1>8. Sends(r, c)
  BY <1>1, <1>4, <1>5, Settled2 DEF Sends, TenureInv, DrawnInv
<1>9. call'[r] = c /\ \A s \in Request \ {r} : call'[s] = call[s]
  BY <1>5 DEF Send, Set, ChatInv, RequestInv, CallInv
<1>10. Moves(r)
  BY <1>1, <1>8, <1>9, SendMoves, KeptAuthority DEF Moves, OthersStay
<1>11. ASSUME c.kind = "finalize" PROVE Released(c.args[1].id)'
  <2>1. PICK i : i = c.args[1].id
    OBVIOUS
  <2>2. Released(i)
    BY <1>1, <1>4, <1>11, <2>1 DEF TenureInv, ReleasedInv
  <2>3. Released(i)'
    BY <1>10, <2>2, MovesApart
  <2> QED BY <2>1, <2>3
<1>12. HoldOK(r)' /\ StreamOK(r)'
  BY <1>1, <1>4, <1>7, <1>9
     DEF TenureInv, HoldInv, HoldOK, StreamOK, Deadline, Quiet
<1> QED BY <1>8, <1>10, <1>11, <1>12, SendKeeps

LEMMA AdmissionTenure ==
  ASSUME ChatInv, TenureInv, NEW r \in Request, AdmissionAnswered(r)
  PROVE  TenureInv'
<1>1. EndCall(r) /\ UNCHANGED wake
  BY DEF AdmissionAnswered
<1>2. PICK outcome \in {call[r].reply, Failure} :
    /\ call[r].kind = "admit_or_enqueue"
    /\ \/ /\ outcome.type = "Admitted"
          /\ RecordAuthority(outcome, call[r].started)
          /\ IF Recordable(outcome.id, call[r].started)
             THEN Set(lease, r, outcome.id) /\ Set(phase, r, "responding")
             ELSE Set(phase, r, "done") /\ UNCHANGED lease
          /\ UNCHANGED ticket
       \/ /\ outcome.type = "Queued"
          /\ Set(ticket, r, outcome.id) /\ Set(phase, r, "responding")
          /\ UNCHANGED <<lease, authority>>
       \/ /\ outcome.type \in {"Denied", "Failure"}
          /\ Set(phase, r, "done")
          /\ UNCHANGED <<ticket, lease, authority>>
  BY DEF AdmissionAnswered, Answered
<1>3. phase[r] = "admitting" /\ lease[r] = 0 /\ ticket[r] = 0
  BY <1>2 DEF TenureInv, HoldInv, HoldOK
<1>4. phase[r] \in Waiting
  BY <1>3 DEF Waiting
<1>5. Named(outcome) /\ (outcome.type # "Failure" => Hears(r, outcome))
  BY <1>4, AnswerHeard
<1>6. PICK p \in {"responding", "done"} : phase' = [phase EXCEPT ![r] = p]
  BY <1>2 DEF Set
<1>7. p \in Phase \ Waiting
  BY PhaseFacts
<1>8. AuthorityStep(r) /\ (outcome.type = "Admitted" => Claims(r, outcome.id))
  BY <1>2, <1>5, RecordedAuthority, KeptAuthority
<1>9. outcome.type = "Queued" => Claims(r, outcome.id)
  BY <1>5 DEF Claims, Grant
<1>10. /\ lease' = lease \/ (outcome.type = "Admitted"
                             /\ lease' = [lease EXCEPT ![r] = outcome.id])
       /\ ticket' = ticket \/ (outcome.type = "Queued"
                               /\ ticket' = [ticket EXCEPT ![r] = outcome.id])
  BY <1>2 DEF Set
<1>11. \A s \in Request \ {r} :
         lease'[s] = lease[s] /\ ticket'[s] = ticket[s] /\ wake'[s] = wake[s]
  BY <1>1, <1>10 DEF ChatInv, RequestInv, OwnerInv
<1>12. /\ lease'[r] \in {0, lease[r]} \/ Claims(r, lease'[r])
       /\ ticket'[r] \in {0, ticket[r]} \/ Claims(r, ticket'[r])
       /\ lease'[r] = 0 \/ ticket'[r] = 0
  BY <1>3, <1>8, <1>9, <1>10 DEF ChatInv, RequestInv, OwnerInv
<1> QED BY <1>1, <1>6, <1>7, <1>8, <1>11, <1>12, RestStep

LEMMA WaitTenure ==
  ASSUME ChatInv, TenureInv, NEW r \in Request,
         BeginWait(r) \/ WaitEnds(r) \/ Settled(r) \/ Cancelled(r)
  PROVE  TenureInv'
<1>1. /\ EndCall(r) \/ (NoCall /\ phase[r] # "admitting")
      /\ UNCHANGED <<ticket, lease>>
      /\ \A s \in Request \ {r} : wake'[s] = wake[s]
      /\ authority' = authority \/ Drop(lease[r])
  BY DEF BeginWait, WaitEnds, Settled, Cancelled, Set, ChatInv, RequestInv, TimerInv
<1>2. PICK p \in {"queued", "closing", "done"} : phase' = [phase EXCEPT ![r] = p]
  BY DEF BeginWait, WaitEnds, Settled, Cancelled, Set
<1>3. p \in Phase \ Waiting
  BY PhaseFacts
<1>4. lease[r] = 0 \/ ticket[r] = 0
  BY DEF TenureInv, HoldInv, HoldOK
<1> QED BY <1>1, <1>2, <1>3, <1>4, KeptAuthority, RestStep

LEMMA PollTenure ==
  ASSUME ChatInv, TenureInv, NEW r \in Request, Poll(r)
  PROVE  TenureInv'
<1>1. Quiet /\ UNCHANGED <<ticket, lease, authority, wake>> /\ phase[r] = "queued"
  BY DEF Poll, Quiet
<1>2. PICK h, e, k : h = Held(ticket[r]) /\ e = waitEnd[r] /\ k = "wait_for_admission"
  OBVIOUS
<1>3. Ask(r, k, h, e)
  BY <1>2 DEF Poll, Ask, Send, Message, Set, Lesser, NewOperation
<1>4. e \in Nat
  BY <1>2 DEF ChatInv, RequestInv, TimerInv
<1>5. PICK p \in Waiting : p = "polling" /\ phase' = [phase EXCEPT ![r] = p]
  BY DEF Poll, Set, Waiting
<1>6. lease[r] = 0 \/ ticket[r] = 0
  BY DEF TenureInv, HoldInv, HoldOK
<1>7. AuthorityStep(r)
  BY <1>1, KeptAuthority
<1>8. /\ lease'[r] \in {0, lease[r]} /\ ticket'[r] \in {0, ticket[r]} /\ Quiet
      /\ lease'[r] = 0 \/ ticket'[r] = 0
      /\ k \notin {"finalize", "admit_or_enqueue"} /\ p \notin {"renewing", "admitting"}
      /\ \A s \in Request \ {r} :
           lease'[s] = lease[s] /\ ticket'[s] = ticket[s] /\ wake'[s] = wake[s]
  BY <1>1, <1>2, <1>5, <1>6
<1> QED BY <1>3, <1>4, <1>5, <1>7, <1>8, AskStep

LEMMA PollAnswerTenure ==
  ASSUME ChatInv, TenureInv, NEW r \in Request, PollAnswer(r)
  PROVE  TenureInv'
<1>1. EndCall(r) /\ phase[r] = "polling"
  BY DEF PollAnswer
<1>2. PICK outcome \in {call[r].reply, Failure} :
        \/ PollPendingAnswered(r, outcome)
        \/ PollAdmittedAnswered(r, outcome)
        \/ PollRefusedAnswered(r, outcome)
  BY DEF PollAnswer
<1>3. lease[r] = 0
  BY <1>1 DEF TenureInv, HoldInv, HoldOK, ChatInv, RequestInv, WaitInv
<1>4. phase[r] \in Waiting
  BY <1>1 DEF Waiting
<1>5. Named(outcome) /\ (outcome.type # "Failure" => Hears(r, outcome))
  BY <1>4, AnswerHeard
<1>6. PICK p \in {"queued", "responding", "closing"} : phase' = [phase EXCEPT ![r] = p]
  BY <1>2 DEF Set, PollPendingAnswered, PollAdmittedAnswered, PollRefusedAnswered
<1>7. p \in Phase \ Waiting
  BY PhaseFacts
<1>8. AuthorityStep(r) /\ (outcome.type = "Admitted" => Claims(r, outcome.id))
  BY <1>2, <1>5, RecordedAuthority, KeptAuthority
     DEF PollPendingAnswered, PollAdmittedAnswered, PollRefusedAnswered
<1>9. \/ lease' = lease /\ (ticket' = ticket \/ ticket' = [ticket EXCEPT ![r] = 0])
      \/ /\ outcome.type = "Admitted" /\ lease' = [lease EXCEPT ![r] = outcome.id]
         /\ ticket' = [ticket EXCEPT ![r] = 0]
  BY <1>2 DEF Set, PollPendingAnswered, PollAdmittedAnswered, PollRefusedAnswered
<1>10. \A s \in Request \ {r} : wake'[s] = wake[s]
  BY <1>2 DEF Set, PollPendingAnswered, PollAdmittedAnswered, PollRefusedAnswered,
              ChatInv, RequestInv, TimerInv
<1>11. \A s \in Request \ {r} : lease'[s] = lease[s] /\ ticket'[s] = ticket[s]
  BY <1>9 DEF ChatInv, RequestInv, OwnerInv
<1>12. /\ lease'[r] \in {0, lease[r]} \/ Claims(r, lease'[r])
       /\ ticket'[r] \in {0, ticket[r]}
       /\ lease'[r] = 0 \/ ticket'[r] = 0
  BY <1>3, <1>8, <1>9 DEF ChatInv, RequestInv, OwnerInv
<1> QED BY <1>1, <1>6, <1>7, <1>8, <1>10, <1>11, <1>12, RestStep

LEMMA BeginStreamTenure ==
  ASSUME ChatInv, TenureInv, NEW r \in Request, BeginStream(r)
  PROVE  TenureInv'
<1>1. /\ NoCall /\ phase[r] = "responding" /\ lease[r] # 0
      /\ UNCHANGED <<ticket, lease>>
  BY DEF BeginStream
<1>2. ticket[r] = 0
  BY <1>1 DEF TenureInv, HoldInv, HoldOK
<1>3. CASE HasAuthority(r) /\ UNCHANGED authority
           /\ Set(wake, r, Renewal(r)) /\ Set(phase, r, "streaming")
  <2>1. PICK t : t = Renewal(r)
    OBVIOUS
  <2>2. wake' = [wake EXCEPT ![r] = t] /\ phase' = [phase EXCEPT ![r] = "streaming"]
    BY <1>3, <2>1 DEF Set
  <2>3. lease[r] \in DOMAIN authority /\ Deadline(r) > clock /\ Deadline(r) \in Nat
        /\ clock \in Nat
    BY <1>3, DeadlineNear, Settled2 DEF HasAuthority
  <2>4. t <= Deadline(r)
    BY <2>1, <2>3, Timing DEF Renewal, Lesser
  <2>5. wake'[r] = t /\ \A s \in Request \ {r} : wake'[s] = wake[s]
    BY <2>2 DEF ChatInv, RequestInv, TimerInv
  <2>6. "streaming" \in Phase \ Waiting
    BY PhaseFacts
  <2> QED BY <1>1, <1>2, <1>3, <2>2, <2>3, <2>4, <2>5, <2>6, KeptAuthority, RestStep
          DEF Deadline
<1>4. CASE Drop(lease[r]) /\ Set(phase, r, "closing") /\ UNCHANGED wake
  <2>1. phase' = [phase EXCEPT ![r] = "closing"] /\ "closing" \in Phase \ Waiting
    BY <1>4, PhaseFacts DEF Set
  <2> QED BY <1>1, <1>2, <1>4, <2>1, KeptAuthority, RestStep
<1> QED BY <1>3, <1>4 DEF BeginStream

LEMMA StreamTenure ==
  ASSUME ChatInv, TenureInv, NEW r \in Request, Produce(r) \/ Resume(r) \/ LeaseEnds(r)
  PROVE  TenureInv'
<1>1. /\ NoCall /\ phase[r] \in {"streaming", "sending"}
      /\ UNCHANGED <<ticket, lease, wake>>
  BY DEF Produce, Resume, LeaseEnds
<1>2. PICK p \in {"streaming", "sending", "closing"} :
        /\ phase' = [phase EXCEPT ![r] = p]
        /\ p # "closing" => authority' = authority
  BY DEF Produce, Resume, LeaseEnds, Set
<1>3. authority' = authority \/ Drop(lease[r])
  BY DEF Produce, Resume, LeaseEnds
<1>4. p \in Phase \ Waiting
  BY PhaseFacts
<1>5. /\ lease[r] # 0 /\ ticket[r] = 0
      /\ clock < wake[r] => lease[r] \in DOMAIN authority /\ wake[r] <= Deadline(r)
  BY <1>1 DEF TenureInv, HoldInv, HoldOK, StreamOK
<1> QED BY <1>1, <1>2, <1>3, <1>4, <1>5, KeptAuthority, RestStep DEF Deadline

LEMMA AskRenewalTenure ==
  ASSUME ChatInv, TenureInv, NEW r \in Request, AskRenewal(r)
  PROVE  TenureInv'
<1>1. /\ Quiet /\ UNCHANGED <<ticket, lease, authority, wake>>
      /\ phase[r] = "streaming" /\ HasAuthority(r)
  BY DEF AskRenewal, MayRenew, Quiet
<1>2. PICK h, e, k : h = Held(lease[r]) /\ e = Deadline(r) /\ k = "renew"
  OBVIOUS
<1>3. Ask(r, k, h, e)
  BY <1>2 DEF AskRenewal, Ask, Send, Message, Set, Lesser, NewOperation
<1>4. e \in Nat /\ e <= clock + LeaseTTL /\ lease[r] \in DOMAIN authority
  BY <1>1, <1>2, DeadlineNear DEF HasAuthority
<1>5. PICK p \in Waiting : p = "renewing" /\ phase' = [phase EXCEPT ![r] = p]
  BY DEF AskRenewal, Set, Waiting
<1>6. lease[r] # 0 /\ ticket[r] = 0
  BY <1>1 DEF TenureInv, HoldInv, HoldOK
<1>7. AuthorityStep(r)
  BY <1>1, KeptAuthority
<1>8. /\ lease'[r] \in DOMAIN authority' /\ e <= authority'[lease'[r]].deadline
      /\ h = Held(lease'[r])
  BY <1>1, <1>2, <1>4 DEF Deadline
<1>9. /\ lease'[r] \in {0, lease[r]} /\ ticket'[r] \in {0, ticket[r]} /\ Quiet
      /\ lease'[r] # 0 /\ ticket'[r] = 0
      /\ k \notin {"finalize", "admit_or_enqueue"} /\ p # "admitting"
      /\ \A s \in Request \ {r} :
           lease'[s] = lease[s] /\ ticket'[s] = ticket[s] /\ wake'[s] = wake[s]
  BY <1>1, <1>2, <1>5, <1>6
<1> QED BY <1>2, <1>3, <1>4, <1>5, <1>7, <1>8, <1>9, AskStep

LEMMA RenewalAnswerTenure ==
  ASSUME ChatInv, TenureInv, NEW r \in Request, RenewalAnswer(r)
  PROVE  TenureInv'
<1>1. EndCall(r) /\ UNCHANGED <<ticket, lease>> /\ phase[r] = "renewing"
  BY DEF RenewalAnswer
<1>2. PICK outcome \in {call[r].reply, Failure} :
        /\ Answered(r, "renew", outcome)
        /\ RenewalGranted(r, outcome) \/ RenewalFailed(r, outcome)
  BY DEF RenewalAnswer
<1>3. phase[r] \in Waiting
  BY <1>1 DEF Waiting
<1>4. lease[r] # 0 /\ ticket[r] = 0
  BY <1>1 DEF TenureInv, HoldInv, HoldOK
<1>5. CASE RenewalGranted(r, outcome)
  <2>1. outcome.type = "Renewed"
    BY <1>5 DEF RenewalGranted, Extends
  <2>2. Named(outcome) /\ Hears(r, outcome)
    BY <1>3, <2>1, AnswerHeard
  <2>3. clock < call[r].deadline
    BY <1>2, <2>1 DEF Answered, Failure
  <2>4. PICK x : x = Extended(r, outcome)
    OBVIOUS
  <2>5. /\ AuthorityStep(r) /\ x \in Nat /\ clock < x
        /\ lease[r] \in DOMAIN authority' /\ authority'[lease[r]].deadline = x
    BY <1>1, <1>5, <2>2, <2>3, <2>4, ExtendedAuthority
  <2>6. PICK t : t = clock + Lesser(LeaseRenew, Greater(0, x - clock))
    OBVIOUS
  <2>7. t <= x
    BY <2>5, <2>6, Settled2, Timing DEF Lesser, Greater
  <2>8. wake' = [wake EXCEPT ![r] = t] /\ phase' = [phase EXCEPT ![r] = "streaming"]
    BY <1>5, <2>4, <2>6 DEF RenewalGranted, Set
  <2>9. wake'[r] = t /\ \A s \in Request \ {r} : wake'[s] = wake[s]
    BY <2>8 DEF ChatInv, RequestInv, TimerInv
  <2>10. "streaming" \in Phase \ Waiting
    BY PhaseFacts
  <2> QED BY <1>1, <1>4, <2>5, <2>7, <2>8, <2>9, <2>10, RestStep
<1>6. CASE RenewalFailed(r, outcome)
  <2>1. /\ phase' = [phase EXCEPT ![r] = "closing"] /\ Drop(lease[r]) /\ UNCHANGED wake
        /\ "closing" \in Phase \ Waiting
    BY <1>6, PhaseFacts DEF RenewalFailed, Set
  <2> QED BY <1>1, <1>4, <2>1, KeptAuthority, RestStep
<1> QED BY <1>2, <1>5, <1>6

LEMMA SettlingTenure ==
  ASSUME ChatInv, TenureInv, NEW r \in Request, Settling(r)
  PROVE  TenureInv'
<1>1. Quiet /\ UNCHANGED wake /\ phase[r] = "closing"
  BY DEF Settling, Quiet
<1>2. "settling" \in Waiting /\ "closing" \notin Waiting /\ "done" \in Phase \ Waiting
  BY PhaseFacts DEF Waiting
<1>3. lease[r] = 0 \/ ticket[r] = 0
  BY DEF TenureInv, HoldInv, HoldOK
<1>4. CASE /\ ticket[r] # 0
           /\ Ask(r, "cancel_ticket", Held(ticket[r]), Endless)
           /\ Set(ticket, r, 0) /\ Set(phase, r, "settling")
           /\ UNCHANGED <<lease, authority>>
  <2>1. PICK h : h = Held(ticket[r])
    OBVIOUS
  <2>2. Ask(r, "cancel_ticket", h, Endless)
    BY <1>4, <2>1 DEF Ask, Send, Message, Set, NewOperation
  <2>3. /\ phase' = [phase EXCEPT ![r] = "settling"]
        /\ ticket'[r] = 0 /\ \A s \in Request \ {r} : ticket'[s] = ticket[s]
    BY <1>4 DEF Set, ChatInv, RequestInv, OwnerInv
  <2> QED BY <1>1, <1>2, <1>4, <2>2, <2>3, KeptAuthority, AskStep, EndlessNat
<1>5. CASE /\ lease[r] # 0
           /\ Drop(lease[r])
           /\ \E settlement \in Settlements(r) :
                Ask(r, "finalize", <<Held(lease[r]), settlement[1], settlement[2]>>,
                    Endless)
           /\ Set(lease, r, 0) /\ Set(phase, r, "settling")
           /\ UNCHANGED ticket
  <2>1. PICK settlement \in Settlements(r) :
          Ask(r, "finalize", <<Held(lease[r]), settlement[1], settlement[2]>>, Endless)
    BY <1>5
  <2>2. PICK args, e, k :
          /\ args = <<Held(lease[r]), settlement[1], settlement[2]>>
          /\ e = Endless /\ k = "finalize"
    OBVIOUS
  <2>3. Ask(r, k, args, e) /\ e \in Nat
    BY <2>1, <2>2, EndlessNat DEF Ask, Send, Message, Set, NewOperation
  <2>4. args[1].id = lease[r]
    BY <2>2 DEF Held
  <2>5. PICK p \in Waiting : p = "settling" /\ phase' = [phase EXCEPT ![r] = p]
    BY <1>2, <1>5 DEF Set
  <2>6. /\ lease'[r] = 0 /\ \A s \in Request \ {r} : lease'[s] = lease[s]
        /\ lease[r] \notin DOMAIN authority'
    BY <1>5 DEF Set, ChatInv, RequestInv, OwnerInv, Drop, Without, Restrict
  <2>7. AuthorityStep(r)
    BY <1>5, KeptAuthority
  <2>8. /\ lease'[r] \in {0, lease[r]} /\ ticket'[r] \in {0, ticket[r]} /\ Quiet
        /\ ticket'[r] = 0 /\ lease[r] # 0 /\ phase[r] \notin Waiting
        /\ k # "admit_or_enqueue" /\ p \notin {"renewing", "admitting"}
        /\ \A s \in Request \ {r} : ticket'[s] = ticket[s] /\ wake'[s] = wake[s]
    BY <1>1, <1>2, <1>3, <1>5, <2>2, <2>5, <2>6
  <2> QED BY <2>3, <2>4, <2>5, <2>6, <2>7, <2>8, AskStep
<1>6. CASE /\ Set(phase, r, "done")
           /\ UNCHANGED <<call, messages, ticket, lease, authority>>
  <2>1. NoCall
    BY <1>1, <1>6 DEF NoCall, Quiet
  <2>2. phase' = [phase EXCEPT ![r] = "done"]
    BY <1>6 DEF Set
  <2> QED BY <1>1, <1>2, <1>3, <1>6, <2>1, <2>2, KeptAuthority, RestStep
<1> QED BY <1>4, <1>5, <1>6 DEF Settling

\* The provider's attempts, and steps of nobody.
LEMMA StillTenure ==
  ASSUME TenureInv, Quiet,
         UNCHANGED <<messages, call, phase, ticket, lease, authority, wake>>
  PROVE  TenureInv'
<1>1. UNCHANGED <<clock, lastNow, leases, receipts, tokenSequence>>
  BY DEF Quiet, vars
<1>2. \A r, o : Hears(r, o)' <=> Hears(r, o)
  BY <1>1 DEF Hears
<1>3. \A r, i : Claims(r, i)' <=> Claims(r, i)
  BY <1>2 DEF Claims
<1>4. \A i : Released(i)' <=> Released(i)
  BY <1>1, <1>3 DEF Released
<1>5. ClaimsApart' /\ DrawnInv' /\ ExpiryInv'
  BY <1>1, <1>3 DEF TenureInv, ClaimsApart, DrawnInv, ExpiryInv
<1>6. ReleasedInv'
  BY <1>1, <1>3 DEF TenureInv, ReleasedInv, Released
<1>7. BackedInv' /\ AnswersStand'
  BY <1>1, <1>2 DEF TenureInv, BackedInv, AnswersStand, AnswerStands, Standing
<1>8. HoldInv'
  BY <1>1 DEF TenureInv, HoldInv, HoldOK, StreamOK, Deadline
<1> QED BY <1>5, <1>6, <1>7, <1>8 DEF TenureInv
-----------------------------------------------------------------------------
(* The steps of the store.                                                 *)

\* Whatever the store does, it keeps a live lease at least as long as it said,
\* unless the lease is closed.
Lasts(closed) ==
  \A i \in LiveLeases(clock) \ closed :
    i \in DOMAIN leases' /\ leases'[i].expires \in Nat
    /\ leases'[i].expires >= leases[i].expires
\* What the store may answer to m: a lease it has just granted or renewed.
Outcome(m, o) ==
  /\ o.type \in Grant => o.id = NextId
  /\ o.type = "Admitted" =>
       /\ o.expires = clock + LeaseTTL
       /\ NextId \in DOMAIN leases' /\ leases'[NextId].expires = o.expires
  /\ o.type = "Renewed" =>
       /\ o.expires = clock + LeaseTTL /\ m.kind = "renew"
       /\ m.args.id \in DOMAIN leases' /\ leases'[m.args.id].expires = o.expires
Outcomes(m) ==
  \A op \in DOMAIN receipts' :
    \/ op \in DOMAIN receipts /\ receipts'[op] = receipts[op]
    \/ op = m.op /\ Outcome(m, receipts'[op].outcome)
Closed(m) == IF m.kind = "finalize" THEN {m.args[1].id} ELSE {}
StoreEffect(m) == Lasts(Closed(m)) /\ ExpiryInv' /\ Outcomes(m)

LEMMA LeaseNumbers ==
  ASSUME ChatInv
  PROVE  /\ clock \in Nat /\ lastNow \in Nat /\ lastNow <= clock
         /\ clock + LeaseTTL \in Nat /\ LeaseTTL \in Nat
         /\ tokenSequence \in Nat /\ NextId \notin DOMAIN leases
         /\ DOMAIN LeasesAt(clock) = LiveLeases(clock)
         /\ \A i \in LiveLeases(clock) :
              /\ i \in DOMAIN leases /\ LeasesAt(clock)[i] = leases[i]
              /\ leases[i].expires \in Nat /\ leases[i] \in LeaseRecord
<1>1. TypeOK /\ clock \in Instant /\ lastNow <= clock
  BY DEF ChatInv, StoreInv, WindowInv, ClockInv
<1>2. clock \in Nat /\ lastNow \in Nat
  BY <1>1, ConfigAssumption DEF TypeOK, Instant
<1>3. clock + LeaseTTL \in Nat /\ LeaseTTL \in Nat
  BY <1>2, ConfigAssumption
<1>4. NextId \notin DOMAIN leases /\ tokenSequence \in Nat
  BY <1>1, TokenBounds DEF TypeOK, Functional, NextId
<1>5. /\ DOMAIN LeasesAt(clock) = LiveLeases(clock)
      /\ \A i \in LiveLeases(clock) : i \in DOMAIN leases /\ LeasesAt(clock)[i] = leases[i]
  BY DEF LeasesAt, Restrict, LiveLeases
<1>6. \A i \in DOMAIN leases : leases[i] \in LeaseRecord
  BY <1>1 DEF TypeOK, Functional
<1> QED BY <1>1, <1>2, <1>3, <1>4, <1>5, <1>6 DEF LeaseRecord

LEMMA PruneLasts ==
  ASSUME ChatInv, ExpiryInv, lastNow' = clock, NEW x,
         leases' = LeasesAt(clock) \/ leases' = Without(LeasesAt(clock), x)
  PROVE  Lasts({x}) /\ ExpiryInv' /\ (leases' = LeasesAt(clock) => Lasts({}))
<1>1. /\ \A i \in DOMAIN leases' : i \in LiveLeases(clock) /\ leases'[i] = leases[i]
      /\ LiveLeases(clock) \ {x} \subseteq DOMAIN leases'
      /\ leases' = LeasesAt(clock) => DOMAIN leases' = LiveLeases(clock)
  BY LeaseNumbers DEF Without, Restrict
<1>2. ExpiryInv'
  BY <1>1, LeaseNumbers DEF ExpiryInv
<1> QED BY <1>1, <1>2, LeaseNumbers DEF Lasts

LEMMA GrantLasts ==
  ASSUME ChatInv, ExpiryInv, lastNow' = clock, GrantLease(clock)
  PROVE  /\ Lasts({}) /\ ExpiryInv' /\ NextId \in DOMAIN leases'
         /\ leases'[NextId].expires = clock + LeaseTTL
<1> DEFINE new == [expires |-> clock + LeaseTTL, windows |-> WindowsOf(clock),
                   renewals |-> RenewalTicks]
<1>1. leases' = Put(LeasesAt(clock), NextId, new) /\ new.expires = clock + LeaseTTL
  BY DEF GrantLease
<1> HIDE DEF new
<1>2. /\ DOMAIN leases' = LiveLeases(clock) \cup {NextId} /\ leases'[NextId] = new
      /\ \A i \in LiveLeases(clock) : leases'[i] = leases[i]
  BY <1>1, LeaseNumbers DEF Put
<1>3. ExpiryInv'
  BY <1>1, <1>2, LeaseNumbers DEF ExpiryInv
<1> QED BY <1>1, <1>2, <1>3, LeaseNumbers DEF Lasts

LEMMA RenewLasts ==
  ASSUME ChatInv, ExpiryInv, lastNow' = clock, NEW h, Renewable(h, clock),
         leases' = [LeasesAt(clock) EXCEPT ![h.id].expires = clock + LeaseTTL,
                                           ![h.id].renewals = @ - 1]
  PROVE  /\ Lasts({}) /\ ExpiryInv' /\ h.id \in DOMAIN leases'
         /\ leases'[h.id].expires = clock + LeaseTTL
<1>1. h.id \in LiveLeases(clock)
  BY DEF Renewable
<1>2. DOMAIN leases' = LiveLeases(clock)
  BY LeaseNumbers
<1>3. leases'[h.id].expires = clock + LeaseTTL
  BY <1>1, LeaseNumbers DEF LeaseRecord
<1>4. \A i \in LiveLeases(clock) : i # h.id => leases'[i] = leases[i]
  BY LeaseNumbers
<1>5. \A i \in LiveLeases(clock) : leases[i].expires <= lastNow + LeaseTTL
  BY LeaseNumbers DEF ExpiryInv
<1>6. ASSUME NEW i \in LiveLeases(clock)
      PROVE  /\ leases'[i].expires \in Nat /\ leases'[i].expires >= leases[i].expires
             /\ leases'[i].expires <= clock + LeaseTTL
  <2>1. CASE i = h.id
    BY <1>3, <1>5, <2>1, LeaseNumbers
  <2>2. CASE i # h.id
    BY <1>4, <1>5, <2>2, LeaseNumbers
  <2> QED BY <2>1, <2>2
<1>7. ExpiryInv'
  BY <1>2, <1>6 DEF ExpiryInv
<1> QED BY <1>1, <1>2, <1>3, <1>6, <1>7 DEF Lasts

LEMMA PruneOutcomes ==
  ASSUME NEW m, receipts' = ReceiptsAt(clock)
  PROVE  Outcomes(m)
BY DEF Outcomes, ReceiptsAt, Restrict

LEMMA RecordOutcomes ==
  ASSUME NEW m, NEW kind, NEW args, NEW o, Record(m.op, kind, args, o, clock),
         Outcome(m, o)
  PROVE  Outcomes(m)
<1> DEFINE record == [kind |-> kind, args |-> args, outcome |-> o,
                      expires |-> clock + ReceiptTTL]
<1>1. receipts' = Put(ReceiptsAt(clock), m.op, record) /\ record.outcome = o
  BY DEF Record
<1> HIDE DEF record
<1>2. /\ receipts'[m.op].outcome = o
      /\ \A op \in DOMAIN receipts' : op # m.op =>
           op \in DOMAIN receipts /\ receipts'[op] = receipts[op]
  BY <1>1 DEF Put, ReceiptsAt, Restrict
<1> QED BY <1>2 DEF Outcomes

\* An outcome without a lease or a ticket says nothing to keep.
LEMMA PlainOutcome ==
  ASSUME NEW m, NEW o, o.type \notin {"Admitted", "Queued", "Renewed"}
  PROVE  Outcome(m, o)
BY DEF Outcome, Grant

LEMMA AdmittedOutcome ==
  ASSUME NEW m, NEW o, o = Admitted(NextId, clock + LeaseTTL),
         NextId \in DOMAIN leases', leases'[NextId].expires = clock + LeaseTTL
  PROVE  Outcome(m, o)
<1>1. o.type = "Admitted" /\ o.id = NextId /\ o.expires = clock + LeaseTTL
  BY DEF Admitted
<1> QED BY <1>1 DEF Outcome

LEMMA AdmitStore ==
  ASSUME ChatInv, ExpiryInv, NEW m, m.kind = "admit_or_enqueue", NEW ip, NEW session,
         AdmitOrEnqueue(m.op, ip, session, clock)
  PROVE  StoreEffect(m)
<1> DEFINE args == <<ip, session>>
<1>0. /\ lastNow' = clock
      /\ \/ AdmitReplayed(m.op, clock) \/ AdmitThrottled(m.op, args, clock)
         \/ AdmitRefused(m.op, args, clock) \/ AdmitDenied(m.op, args, clock)
         \/ AdmitGranted(m.op, args, clock) \/ AdmitQueued(m.op, args, clock)
  BY DEF AdmitOrEnqueue, Enters
<1> HIDE DEF args
<1>1. Closed(m) = {}
  BY DEF Closed
<1>2. leases' = LeasesAt(clock) => Lasts({}) /\ ExpiryInv'
  BY <1>0, PruneLasts
<1>3. CASE AdmitReplayed(m.op, clock) \/ AdmitRefused(m.op, args, clock)
  BY <1>1, <1>2, <1>3, PruneOutcomes
     DEF AdmitReplayed, AdmitRefused, OnlyPrune, StoreEffect
<1>4. CASE AdmitThrottled(m.op, args, clock) \/ AdmitDenied(m.op, args, clock)
  <2>1. PICK o : Record(m.op, "admit_or_enqueue", args, o, clock) /\ o.type = "Denied"
    <3>1. CASE AdmitThrottled(m.op, args, clock)
      BY <3>1 DEF AdmitThrottled, Denied
    <3>2. CASE AdmitDenied(m.op, args, clock)
      <4>1. AdmitBranch(clock) \in {"budget", "busy"}
        BY <3>2 DEF AdmitDenied, Unthrottled
      <4>2. AdmitDenial(clock).type = "Denied"
        BY <4>1 DEF AdmitDenial, Denied
      <4> QED BY <3>2, <4>2 DEF AdmitDenied
    <3> QED BY <1>4, <3>1, <3>2
  <2>2. Outcomes(m)
    BY <2>1, PlainOutcome, RecordOutcomes
  <2> QED BY <1>1, <1>2, <1>4, <2>2 DEF AdmitThrottled, AdmitDenied, StoreEffect
<1>5. CASE AdmitGranted(m.op, args, clock)
  <2>1. GrantLease(clock)
    BY <1>5 DEF AdmitGranted
  <2>2. PICK o : o = Admitted(NextId, clock + LeaseTTL)
    OBVIOUS
  <2>3. Record(m.op, "admit_or_enqueue", args, o, clock)
    BY <1>5, <2>2 DEF AdmitGranted
  <2>4. Outcome(m, o)
    BY <1>0, <2>1, <2>2, GrantLasts, AdmittedOutcome
  <2>5. Outcomes(m)
    BY <2>3, <2>4, RecordOutcomes
  <2> QED BY <1>0, <1>1, <2>1, <2>5, GrantLasts DEF StoreEffect
<1>6. CASE AdmitQueued(m.op, args, clock)
  <2>1. PICK o : o = Queued(NextId)
    OBVIOUS
  <2>2. o.type = "Queued" /\ o.id = NextId
    BY <2>1 DEF Queued
  <2>3. Outcome(m, o)
    BY <2>2 DEF Outcome
  <2>4. Outcomes(m)
    BY <1>6, <2>1, <2>3, RecordOutcomes DEF AdmitQueued
  <2> QED BY <1>1, <1>2, <1>6, <2>4 DEF AdmitQueued, StoreEffect
<1> QED BY <1>0, <1>3, <1>4, <1>5, <1>6

LEMMA PollStore ==
  ASSUME ChatInv, ExpiryInv, NEW m, m.kind = "wait_for_admission",
         WaitForAdmission(m.op, m.args, clock)
  PROVE  StoreEffect(m)
<1>0. lastNow' = clock
  BY DEF WaitForAdmission, Enters
<1>1. Closed(m) = {}
  BY DEF Closed
<1>2. leases' = LeasesAt(clock) => Lasts({}) /\ ExpiryInv'
  BY <1>0, PruneLasts
<1>3. CASE Replayed(m.op, clock) \/ PollRefused(m.op, m.args, clock)
  BY <1>1, <1>2, <1>3, PruneOutcomes
     DEF Replayed, PollRefused, Refused, OnlyPrune, StoreEffect
<1>4. CASE \/ PollGone(m.op, m.args, clock) \/ PollPending(m.op, m.args, clock)
           \/ PollDenied(m.op, m.args, clock)
  <2>1. PICK o : /\ Record(m.op, "wait_for_admission", m.args, o, clock)
                 /\ o.type \notin {"Admitted", "Queued", "Renewed"}
    BY <1>4, PlainOutcomes DEF PollGone, PollPending, PollDenied, PollAnswered
  <2>2. Outcomes(m)
    BY <2>1, PlainOutcome, RecordOutcomes
  <2> QED BY <1>1, <1>2, <1>4, <2>2 DEF PollGone, PollPending, PollDenied, StoreEffect
<1>5. CASE PollAdmitted(m.op, m.args, clock)
  <2>1. GrantLease(clock)
    BY <1>5 DEF PollAdmitted
  <2>2. PICK o : o = Admitted(NextId, clock + LeaseTTL)
    OBVIOUS
  <2>3. Record(m.op, "wait_for_admission", m.args, o, clock)
    BY <1>5, <2>2 DEF PollAdmitted, PollAnswered
  <2>4. Outcome(m, o)
    BY <1>0, <2>1, <2>2, GrantLasts, AdmittedOutcome
  <2>5. Outcomes(m)
    BY <2>3, <2>4, RecordOutcomes
  <2> QED BY <1>0, <1>1, <2>1, <2>5, GrantLasts DEF StoreEffect
<1> QED BY <1>3, <1>4, <1>5 DEF WaitForAdmission

LEMMA RenewStore ==
  ASSUME ChatInv, ExpiryInv, NEW m, m.kind = "renew", Renew(m.op, m.args, clock)
  PROVE  StoreEffect(m)
<1>0. lastNow' = clock
  BY DEF Renew, Enters
<1>1. Closed(m) = {}
  BY DEF Closed
<1>2. leases' = LeasesAt(clock) => Lasts({}) /\ ExpiryInv'
  BY <1>0, PruneLasts
<1>3. CASE Replayed(m.op, clock) \/ RenewRefused(m.op, m.args, clock)
  BY <1>1, <1>2, <1>3, PruneOutcomes
     DEF Replayed, RenewRefused, Refused, OnlyPrune, StoreEffect
<1>4. CASE RenewLost(m.op, m.args, clock)
  <2>1. PICK o : /\ Record(m.op, "renew", m.args, o, clock)
                 /\ o.type \notin {"Admitted", "Queued", "Renewed"}
    BY <1>4, PlainOutcomes DEF RenewLost, RenewAnswered
  <2>2. Outcomes(m)
    BY <2>1, PlainOutcome, RecordOutcomes
  <2> QED BY <1>1, <1>2, <1>4, <2>2 DEF RenewLost, StoreEffect
<1>5. CASE RenewGranted(m.op, m.args, clock)
  <2>1. /\ Lasts({}) /\ ExpiryInv' /\ m.args.id \in DOMAIN leases'
        /\ leases'[m.args.id].expires = clock + LeaseTTL
    BY <1>0, <1>5, RenewLasts DEF RenewGranted
  <2>2. PICK o : o = Renewed(clock + LeaseTTL)
    OBVIOUS
  <2>3. Record(m.op, "renew", m.args, o, clock)
    BY <1>5, <2>2 DEF RenewGranted, RenewAnswered
  <2>4. o.type = "Renewed" /\ o.expires = clock + LeaseTTL
    BY <2>2 DEF Renewed
  <2>5. Outcome(m, o)
    BY <2>1, <2>4 DEF Outcome, Grant
  <2>6. Outcomes(m)
    BY <2>3, <2>5, RecordOutcomes
  <2> QED BY <1>1, <2>1, <2>6 DEF StoreEffect
<1> QED BY <1>3, <1>4, <1>5 DEF Renew

LEMMA CloseStore ==
  ASSUME ChatInv, ExpiryInv, NEW m,
         \/ m.kind = "cancel_ticket" /\ CancelTicket(m.op, m.args, clock)
         \/ m.kind = "finalize"
            /\ Finalize(m.op, m.args[1], m.args[2], m.args[3], clock)
  PROVE  StoreEffect(m)
<1>0. lastNow' = clock
  BY DEF CancelTicket, Finalize, Enters
<1>1. ASSUME leases' = LeasesAt(clock) PROVE Lasts(Closed(m)) /\ ExpiryInv'
  <2>1. Lasts({}) /\ ExpiryInv'
    BY <1>0, <1>1, PruneLasts
  <2> QED BY <2>1 DEF Lasts
<1>2. CASE \/ Replayed(m.op, clock) \/ CancelRefused(m.op, m.args, clock)
           \/ FinalizeRefused(m.op, m.args[1], clock)
  BY <1>1, <1>2, PruneOutcomes
     DEF Replayed, CancelRefused, FinalizeRefused, Refused, OnlyPrune, StoreEffect
<1>3. CASE CancelDone(m.op, m.args, clock)
  <2>1. PICK o : /\ Record(m.op, "cancel_ticket", m.args, o, clock)
                 /\ o.type \notin {"Admitted", "Queued", "Renewed"}
    BY <1>3, PlainOutcomes DEF CancelDone
  <2>2. Outcomes(m)
    BY <2>1, PlainOutcome, RecordOutcomes
  <2> QED BY <1>1, <1>3, <2>2 DEF CancelDone, StoreEffect
<1>4. CASE /\ m.kind = "finalize"
           /\ FinalizeSettled(m.op, m.args[1], m.args[2], m.args[3], clock)
  <2>1. PICK a, o : /\ Record(m.op, "finalize", a, o, clock)
                    /\ o.type \notin {"Admitted", "Queued", "Renewed"}
    BY <1>4, PlainOutcomes DEF FinalizeSettled
  <2>2. Outcomes(m)
    BY <2>1, PlainOutcome, RecordOutcomes
  <2>3. leases' = Without(LeasesAt(clock), m.args[1].id)
    BY <1>4 DEF FinalizeSettled
  <2>4. Lasts({m.args[1].id}) /\ ExpiryInv'
    BY <1>0, <2>3, PruneLasts
  <2> QED BY <1>4, <2>2, <2>4 DEF StoreEffect, Closed
<1> QED BY <1>2, <1>3, <1>4 DEF CancelTicket, Finalize

LEMMA ExecuteStore ==
  ASSUME ChatInv, ExpiryInv, NEW m, Execute(m)
  PROVE  StoreEffect(m)
BY AdmitStore, PollStore, RenewStore, CloseStore DEF Execute
-----------------------------------------------------------------------------
(* The world moves: the store, the clock, the messages.                    *)

LEMMA ClaimsIssued ==
  ASSUME ChatInv, NEW r \in Request, NEW i, Claims(r, i)
  PROVE  i \in 1 .. tokenSequence
<1>1. CASE i # 0 /\ (i = lease[r] \/ i = ticket[r])
  BY <1>1, Settled2
<1>2. CASE \E o : Hears(r, o) /\ o.type \in Grant /\ o.id = i
  <2>1. PICK o : Hears(r, o) /\ o.type \in Grant /\ o.id = i
    BY <1>2
  <2>2. Named(o)
    BY <2>1 DEF Hears, ChatInv, RequestInv, CallInv, CallOK, StoreInv, ReceiptsNamed
  <2> QED BY <2>1, <2>2 DEF Named, Grant
<1> QED BY <1>1, <1>2 DEF Claims

\* An answer that comes in: a grant is of a new id, and to one request.
News(r, o, grantee) ==
  /\ AnswerStands(r, o)'
  /\ o.type \in Grant => r = grantee /\ o.id = NextId

LEMMA WorldKeeps ==
  ASSUME ChatInv, TenureInv, UNCHANGED <<phase, ticket, lease, authority, wake>>,
         clock' \in Nat, clock <= clock', messages' \subseteq messages,
         tokenSequence' \in Nat, tokenSequence <= tokenSequence',
         \A r \in Request :
           /\ call'[r].op = call[r].op /\ call'[r].kind = call[r].kind
           /\ call'[r].args = call[r].args /\ call'[r].started = call[r].started
           /\ call'[r].deadline = call[r].deadline
           /\ call'[r].overall = call[r].overall,
         \A op \in DOMAIN receipts' : op[2] <= call[op[1]].op[2] /\ op[1] \in Request,
         NEW closed, \A i \in closed : Released(i), Lasts(closed), ExpiryInv',
         NEW grantee,
         \A r \in Request : \A o : Hears(r, o)' => Hears(r, o) \/ News(r, o, grantee)
  PROVE  TenureInv'
<1>1. ASSUME NEW r \in Request, NEW i, Claims(r, i)'
      PROVE  Claims(r, i) \/ (r = grantee /\ i = NextId)
  <2>1. CASE i # 0 /\ (i = lease'[r] \/ i = ticket'[r])
    BY <2>1 DEF Claims
  <2>2. CASE \E o : Hears(r, o)' /\ o.type \in Grant /\ o.id = i
    <3>1. PICK o : Hears(r, o)' /\ o.type \in Grant /\ o.id = i
      BY <2>2
    <3> QED BY <3>1 DEF Claims, News
  <2> QED BY <1>1, <2>1, <2>2 DEF Claims
<1>2. \A r \in Request : ~Claims(r, NextId)
  BY ClaimsIssued, Settled2 DEF NextId
<1>3. ClaimsApart'
  BY <1>1, <1>2 DEF TenureInv, ClaimsApart
<1>4. ASSUME NEW i, Released(i) PROVE Released(i)'
  <2>1. i # NextId /\ i \in 1 .. tokenSequence'
    BY <1>4, Settled2 DEF Released, NextId
  <2>2. \A r \in Request : ~Claims(r, i)'
    BY <1>1, <1>4, <2>1 DEF Released
  <2> QED BY <1>4, <2>1, <2>2 DEF Released
<1>5. ASSUME NEW i, NEW e \in Nat, i \notin closed, Standing(i, e) PROVE Standing(i, e)'
  <2>1. ASSUME e > clock'
        PROVE  i \in DOMAIN leases' /\ leases'[i].expires >= e
    <3>1. i \in DOMAIN leases /\ leases[i].expires >= e
      BY <1>5, <2>1, Settled2 DEF Standing
    <3>2. leases[i].expires \in Nat
      BY <3>1 DEF ChatInv, StoreInv, WindowInv, TypeOK, Functional, LeaseRecord
    <3>3. i \in LiveLeases(clock) \ closed
      BY <1>5, <2>1, <3>1, <3>2, Settled2 DEF LiveLeases
    <3>4. /\ i \in DOMAIN leases' /\ leases'[i].expires \in Nat
          /\ leases'[i].expires >= leases[i].expires
      BY <3>3 DEF Lasts
    <3> QED BY <3>1, <3>2, <3>4
  <2> QED BY <2>1 DEF Standing
<1>6. BackedInv'
  <2>1. ASSUME NEW i \in DOMAIN authority PROVE Standing(i, authority[i].deadline)'
    <3>1. PICK e : e = authority[i].deadline
      OBVIOUS
    <3>2. e \in Nat /\ i \notin closed /\ Standing(i, e)
      BY <2>1, <3>1, Settled2 DEF Released, TenureInv, BackedInv
    <3>3. Standing(i, e)'
      BY <1>5, <3>2
    <3> QED BY <3>1, <3>3 DEF Standing
  <2> QED BY <2>1 DEF BackedInv, Standing
<1>7. ASSUME NEW r \in Request, NEW o, Hears(r, o)' PROVE AnswerStands(r, o)'
  <2>1. CASE Hears(r, o)
    <3>1. AnswerStands(r, o) /\ Named(o)
      BY <2>1 DEF TenureInv, AnswersStand, Hears, ChatInv, RequestInv, CallInv, CallOK,
                  StoreInv, ReceiptsNamed
    <3>2. CASE o.type = "Admitted"
      <4>1. Claims(r, o.id)
        BY <2>1, <3>2 DEF Claims, Grant
      <4>2. PICK i, e : i = o.id /\ e = o.expires
        OBVIOUS
      <4>3. e \in Nat /\ i \notin closed /\ Standing(i, e)
        BY <3>1, <3>2, <4>1, <4>2 DEF Named, AnswerStands, Released
      <4>4. Standing(i, e)'
        BY <1>5, <4>3
      <4> QED BY <3>1, <3>2, <4>2, <4>4 DEF AnswerStands, Standing
    <3>3. CASE o.type = "Renewed" /\ phase[r] = "renewing"
      <4>1. lease[r] # 0
        BY <3>3 DEF TenureInv, HoldInv, HoldOK
      <4>2. PICK i, e : i = lease[r] /\ e = o.expires
        OBVIOUS
      <4>3. e \in Nat /\ i \notin closed /\ Standing(i, e)
        BY <3>1, <3>3, <4>1, <4>2, OwnLease DEF Named, AnswerStands, Released
      <4>4. Standing(i, e)'
        BY <1>5, <4>3
      <4> QED BY <3>1, <3>3, <4>2, <4>4 DEF AnswerStands, Standing
    <3> QED BY <3>2, <3>3 DEF AnswerStands
  <2>2. CASE News(r, o, grantee)
    BY <2>2 DEF News
  <2> QED BY <1>7, <2>1, <2>2
<1>8. DrawnInv'
  <2>1. ASSUME NEW r \in Request PROVE call'[r].op[1] = r /\ call'[r].started <= clock'
    <3>1. /\ call[r].op[1] = r /\ call[r].started <= clock
          /\ call[r].started \in Nat /\ clock \in Nat
      BY Settled2 DEF TenureInv, DrawnInv
    <3> QED BY <3>1
  <2>2. \A m \in messages : m.op[1] \in Request
    BY OperationAssumption DEF ChatInv, RequestInv, MessageInv
  <2> QED BY <2>1, <2>2 DEF TenureInv, DrawnInv
<1>9. ReleasedInv'
  <2>1. ASSUME NEW m \in messages', m.kind = "finalize" PROVE Released(m.args[1].id)'
    BY <1>4, <2>1 DEF TenureInv, ReleasedInv
  <2>2. ASSUME NEW r \in Request, phase[r] \in Waiting, call[r].kind = "finalize"
        PROVE  Released(call[r].args[1].id)'
    <3>1. PICK i : i = call[r].args[1].id
      OBVIOUS
    <3>2. Released(i)'
      BY <1>4, <2>2, <3>1 DEF TenureInv, ReleasedInv
    <3>3. i = call'[r].args[1].id
      BY <3>1
    <3> QED BY <3>2, <3>3 DEF Released
  <2> QED BY <2>1, <2>2 DEF ReleasedInv
<1>10. HoldInv'
  <2>1. ASSUME NEW r \in Request PROVE HoldOK(r)' /\ StreamOK(r)'
    <3>1. HoldOK(r) /\ StreamOK(r)
      BY DEF TenureInv, HoldInv
    <3>2. HoldOK(r)'
      BY <3>1 DEF HoldOK
    <3>3. \A t \in Nat : clock' < t => clock < t
      BY Settled2
    <3>4. wake[r] \in Nat /\ call[r].overall \in Nat
      BY Settled2
    <3>5. StreamOK(r)'
      BY <3>1, <3>3, <3>4 DEF StreamOK, Deadline
    <3> QED BY <3>2, <3>5
  <2> QED BY <2>1 DEF HoldInv
<1> QED BY <1>3, <1>6, <1>7, <1>8, <1>9, <1>10 DEF TenureInv, AnswersStand

LEMMA TickTenure ==
  ASSUME ChatInv, TenureInv, Tick
  PROVE  TenureInv'
<1>1. /\ UNCHANGED <<phase, ticket, lease, authority, wake, call>>
      /\ UNCHANGED <<leases, receipts, lastNow, tokenSequence>>
      /\ clock' = clock + 1 /\ messages' \subseteq messages
  BY DEF Tick, vars, requests
<1>2. /\ clock \in Nat /\ clock' \in Nat /\ clock <= clock'
      /\ tokenSequence' \in Nat /\ tokenSequence <= tokenSequence'
  BY <1>1, Settled2
<1>3. \A op \in DOMAIN receipts' : op[2] <= call[op[1]].op[2] /\ op[1] \in Request
  BY <1>1, OperationAssumption
     DEF TenureInv, DrawnInv, ChatInv, StoreInv, WindowInv, TypeOK
<1>4. PICK closed : closed = {}
  OBVIOUS
<1>5. Lasts(closed) /\ \A i \in closed : Released(i)
  BY <1>1, <1>4, LeaseNumbers DEF Lasts
<1>6. ExpiryInv'
  BY <1>1 DEF TenureInv, ExpiryInv
<1>7. \A r \in Request : \A o : Hears(r, o)' => Hears(r, o)
  BY <1>1 DEF Hears
<1>8. PICK grantee : grantee = 0
  OBVIOUS
<1> QED BY <1>1, <1>2, <1>3, <1>5, <1>6, <1>7, WorldKeeps

LEMMA ProbeTenure ==
  ASSUME ChatInv, TenureInv, Probe
  PROVE  TenureInv'
<1>1. /\ UNCHANGED <<phase, ticket, lease, authority, wake, call, messages, clock>>
      /\ leases' = LeasesAt(clock) /\ receipts' = ReceiptsAt(clock)
      /\ lastNow' = clock /\ tokenSequence' = tokenSequence
  BY DEF Probe, CheckBudgetReadiness, OnlyPrune, requests
<1>2. /\ clock' \in Nat /\ clock <= clock'
      /\ tokenSequence' \in Nat /\ tokenSequence <= tokenSequence'
  BY <1>1, Settled2
<1>3. \A op \in DOMAIN receipts' : op \in DOMAIN receipts /\ receipts'[op] = receipts[op]
  BY <1>1 DEF ReceiptsAt, Restrict
<1>4. \A op \in DOMAIN receipts' : op[2] <= call[op[1]].op[2] /\ op[1] \in Request
  BY <1>3, OperationAssumption
     DEF TenureInv, DrawnInv, ChatInv, StoreInv, WindowInv, TypeOK
<1>5. PICK closed : closed = {}
  OBVIOUS
<1>6. Lasts(closed) /\ ExpiryInv' /\ \A i \in closed : Released(i)
  BY <1>1, <1>5, PruneLasts DEF TenureInv
<1>7. \A r \in Request : \A o : Hears(r, o)' => Hears(r, o)
  BY <1>1, <1>3 DEF Hears
<1> QED BY <1>1, <1>2, <1>4, <1>6, <1>7, WorldKeeps

\* An answer to m is news to the request that drew its operation id.
LEMMA LandNews ==
  ASSUME ChatInv, TenureInv, NEW m \in messages, Land(m), Outcomes(m),
         NEW r \in Request, NEW o, Hears(r, o)'
  PROVE  Hears(r, o) \/ News(r, o, m.op[1])
<1>1. UNCHANGED <<clock, phase, lease>> /\ phase[r] \in Waiting
  BY DEF Land, Hears
<1>2. /\ call'[r].op = call[r].op /\ call'[r].started = call[r].started
      /\ call'[r].reply = call[r].reply
         \/ (call[r].op = m.op /\ call'[r].reply = AnswerTo(m))
  BY DEF Land, Expects, ChatInv, RequestInv, CallInv, CallOK, CallField
<1>3. \/ Hears(r, o)
      \/ call[r].op = m.op /\ (Outcome(m, o) \/ o = Failure)
  <2>1. ASSUME NEW op \in DOMAIN receipts', op = call[r].op, o = receipts'[op].outcome
        PROVE  Hears(r, o) \/ (call[r].op = m.op /\ Outcome(m, o))
    BY <1>1, <2>1 DEF Outcomes, Hears
  <2>2. o = call'[r].reply \/ (call[r].op \in DOMAIN receipts'
                               /\ o = receipts'[call[r].op].outcome)
    BY <1>2 DEF Hears
  <2>3. CASE o = call[r].reply
    BY <1>1, <2>3 DEF Hears
  <2>4. CASE call[r].op = m.op /\ o = AnswerTo(m)
    BY <2>1, <2>4 DEF AnswerTo
  <2> QED BY <1>2, <2>1, <2>2, <2>3, <2>4
<1>4. CASE o = Failure /\ call[r].op = m.op
  BY <1>4 DEF Failure, News, AnswerStands, Grant
<1>5. CASE Outcome(m, o) /\ call[r].op = m.op
  <2>1. r = m.op[1] /\ call[r].started <= clock /\ call[r].started \in Nat
        /\ m.kind = call[r].kind /\ m.args = call[r].args
    BY <1>1, <1>5, Settled2 DEF TenureInv, DrawnInv
  <2>2. clock + LeaseTTL >= call[r].started + LeaseTTL /\ clock + LeaseTTL \in Nat
    BY <2>1, Settled2
  <2>3. CASE o.type = "Admitted"
    <3>1. /\ o.id = NextId /\ o.expires = clock + LeaseTTL
          /\ NextId \in DOMAIN leases' /\ leases'[NextId].expires = o.expires
      BY <1>5, <2>3 DEF Outcome, Grant
    <3>2. Standing(o.id, o.expires)'
      BY <2>2, <3>1 DEF Standing
    <3> QED BY <1>2, <2>1, <2>2, <2>3, <3>1, <3>2 DEF News, AnswerStands
  <2>4. CASE o.type = "Renewed"
    <3>1. /\ o.expires = clock + LeaseTTL /\ m.kind = "renew"
          /\ m.args.id \in DOMAIN leases' /\ leases'[m.args.id].expires = o.expires
      BY <1>5, <2>4 DEF Outcome
    <3>2. phase[r] = "renewing" => m.args.id = lease[r]
      <4>1. StreamOK(r)
        BY DEF TenureInv, HoldInv
      <4>2. phase[r] = "renewing" => call[r].args = Held(lease[r])
        BY <4>1 DEF StreamOK
      <4>3. Held(lease[r]).id = lease[r]
        BY DEF Held
      <4> QED BY <2>1, <4>2, <4>3
    <3>3. phase'[r] = "renewing" => Standing(lease[r], o.expires)'
      BY <1>1, <2>2, <3>1, <3>2 DEF Standing
    <3> QED BY <1>2, <2>2, <2>4, <3>1, <3>3 DEF News, AnswerStands, Grant
  <2>5. CASE o.type \notin {"Admitted", "Renewed"}
    BY <1>5, <2>1, <2>5 DEF News, AnswerStands, Outcome
  <2> QED BY <2>3, <2>4, <2>5
<1> QED BY <1>3, <1>4, <1>5

LEMMA LandTenure ==
  ASSUME ChatInv, TenureInv, NEW m \in messages, Land(m)
  PROVE  TenureInv'
<1>1. /\ UNCHANGED <<phase, ticket, lease, authority, wake, clock>>
      /\ messages' \subseteq messages /\ Execute(m)
  BY DEF Land
<1>2. StoreEffect(m)
  BY <1>1, ExecuteStore DEF TenureInv
<1>3. /\ clock' \in Nat /\ clock <= clock'
      /\ tokenSequence' \in Nat /\ tokenSequence <= tokenSequence'
  BY <1>1, LandOK, IdsGrow, Settled2 DEF ChatInv, StoreInv
<1>4. \A r \in Request :
        /\ call'[r].op = call[r].op /\ call'[r].kind = call[r].kind
        /\ call'[r].args = call[r].args /\ call'[r].started = call[r].started
        /\ call'[r].deadline = call[r].deadline
        /\ call'[r].overall = call[r].overall
  BY DEF Land, ChatInv, RequestInv, CallInv, CallOK, CallField
<1>5. m.op[1] \in Request /\ m.op[2] <= call[m.op[1]].op[2]
  BY OperationAssumption DEF ChatInv, RequestInv, MessageInv, TenureInv, DrawnInv
<1>6. \A op \in DOMAIN receipts : op[2] <= call[op[1]].op[2] /\ op[1] \in Request
  BY OperationAssumption
     DEF TenureInv, DrawnInv, ChatInv, StoreInv, WindowInv, TypeOK
<1>7. \A op \in DOMAIN receipts' : op[2] <= call[op[1]].op[2] /\ op[1] \in Request
  BY <1>2, <1>5, <1>6 DEF StoreEffect, Outcomes
<1>8. PICK closed : closed = Closed(m)
  OBVIOUS
<1>9. Lasts(closed) /\ ExpiryInv' /\ \A i \in closed : Released(i)
  BY <1>2, <1>8 DEF StoreEffect, Closed, TenureInv, ReleasedInv
<1>10. PICK grantee : grantee = m.op[1]
  OBVIOUS
<1>11. \A r \in Request : \A o : Hears(r, o)' => Hears(r, o) \/ News(r, o, grantee)
  BY <1>2, <1>10, LandNews DEF StoreEffect
<1> QED BY <1>1, <1>3, <1>4, <1>7, <1>9, <1>11, WorldKeeps
-----------------------------------------------------------------------------
(* Every step keeps the leases under their requests.                       *)

LEMMA TenureInit == ChatInit => TenureInv
<1> SUFFICES ASSUME ChatInit PROVE TenureInv
  OBVIOUS
<1>1. /\ clock = 0 /\ messages = {} /\ DOMAIN authority = {} /\ DOMAIN receipts = {}
      /\ DOMAIN leases = {}
      /\ \A r \in Request :
           /\ phase[r] = "idle" /\ lease[r] = 0 /\ ticket[r] = 0
           /\ call[r].op = <<r, 0>> /\ call[r].started = 0 /\ call[r].kind = "none"
  BY DEF ChatInit, Init
<1>2. "idle" \notin Waiting
  BY DEF Waiting
<1>3. \A r \in Request : \A o : ~Hears(r, o)
  BY <1>1, <1>2 DEF Hears
<1>4. \A r \in Request : \A i : ~Claims(r, i)
  BY <1>1, <1>3 DEF Claims
<1>5. ClaimsApart /\ DrawnInv /\ ReleasedInv /\ BackedInv /\ AnswersStand /\ ExpiryInv
  BY <1>1, <1>2, <1>3, <1>4
     DEF ClaimsApart, DrawnInv, ReleasedInv, BackedInv, AnswersStand, ExpiryInv
<1>6. HoldInv
  BY <1>1 DEF HoldInv, HoldOK, StreamOK
<1> QED BY <1>5, <1>6 DEF TenureInv

LEMMA TenureRequest ==
  ASSUME ChatInv, TenureInv, NEW r \in Request,
         \/ Arrive(r) \/ Advance(r) \/ Produce(r) \/ Resume(r)
         \/ StartAttempt(r) \/ FinishAttempt(r) \/ Cancelled(r)
  PROVE  TenureInv'
<1>1. CASE StartAttempt(r) \/ FinishAttempt(r)
  BY <1>1, StillTenure DEF StartAttempt, FinishAttempt, NoCall, Quiet
<1>2. CASE Arrive(r) \/ Advance(r) \/ Produce(r) \/ Resume(r) \/ Cancelled(r)
  BY <1>2, ArriveTenure, ReplayTenure, AdmissionTenure, WaitTenure, PollTenure,
     PollAnswerTenure, BeginStreamTenure, StreamTenure, AskRenewalTenure,
     RenewalAnswerTenure, SettlingTenure DEF Advance
<1> QED BY <1>1, <1>2

LEMMA TenureStep == ChatInv /\ TenureInv /\ [ChatNext]_chatVars => TenureInv'
<1> SUFFICES ASSUME ChatInv, TenureInv, [ChatNext]_chatVars PROVE TenureInv'
  OBVIOUS
<1>1. CASE ChatNext
  BY <1>1, TenureRequest, LandTenure, TickTenure, ProbeTenure DEF ChatNext
<1>2. CASE UNCHANGED chatVars
  BY <1>2, StillTenure DEF chatVars, requests, Quiet
<1> QED BY <1>1, <1>2

LEMMA TenureHolds == ChatSpec => [](ChatInv /\ TenureInv)
<1>1. ChatInv /\ TenureInv /\ [ChatNext]_chatVars => (ChatInv /\ TenureInv)'
  BY ChatStep, TenureStep
<1>2. ChatInit => ChatInv /\ TenureInv
  BY ChatInvInit, TenureInit
<1> QED BY <1>1, <1>2, PTL DEF ChatSpec

\* The controller never believes in a lease longer than the store keeps it,
\* for any number of requests and any timing of their calls
\* (_record_authority, renew, and the replies that come late or twice).
THEOREM AuthorityStaysBacked == ChatSpec => []AuthorityBacked
<1>1. ChatInv /\ TenureInv => AuthorityBacked
  BY DEF TenureInv, BackedInv, Standing, AuthorityBacked
<1> QED BY <1>1, TenureHolds, PTL

\* No two requests ever own the same lease or ticket, whatever calls were
\* replayed, abandoned or answered late (_ControlledResponseOwner).
THEOREM OwnersStayApart == ChatSpec => []OneOwner
<1>1. TenureInv => OneOwner
  BY DEF TenureInv, ClaimsApart, Claims, OneOwner
<1> QED BY <1>1, TenureHolds, PTL

\* A running stream's timers lie within its lease.
LEMMA RunningHeld ==
  ASSUME ChatInv, TenureInv, NEW r \in Running
  PROVE  lease[r] \in DOMAIN authority /\ lease[r] # 0
<1>1. r \in Request /\ HoldOK(r) /\ StreamOK(r)
  BY DEF Running, TenureInv, HoldInv
<1>2. CASE phase[r] = "streaming" /\ clock < wake[r]
  BY <1>1, <1>2 DEF HoldOK, StreamOK
<1>3. CASE phase[r] = "renewing" /\ clock < call[r].deadline
  <2>1. clock < call[r].overall
    BY <1>1, <1>3, Settled2 DEF StreamOK
  <2> QED BY <1>1, <1>3, <2>1 DEF HoldOK, StreamOK
<1> QED BY <1>2, <1>3 DEF Running

\* The deployment-wide bound on concurrent work: never more streams run than
\* the configuration allows (_admitted_controlled_stream).
THEOREM StreamsStayBounded == ChatSpec => []StreamsBounded
<1>1. ASSUME ChatInv, TenureInv PROVE StreamsBounded
  <2> DEFINE f == [r \in Running |-> lease[r]]
  <2>1. f \in Injection(Running, DOMAIN authority)
    <3>1. f \in [Running -> DOMAIN authority]
      BY <1>1, RunningHeld
    <3>2. ASSUME NEW r \in Running, NEW s \in Running, lease[r] = lease[s]
          PROVE  r = s
      <4>1. r \in Request /\ s \in Request /\ lease[r] # 0
        BY <1>1, RunningHeld DEF Running
      <4> QED BY <1>1, <3>2, <4>1 DEF TenureInv, ClaimsApart, Claims
    <3> QED BY <3>1, <3>2 DEF Injection, IsInjective
  <2>2. IsFiniteSet(DOMAIN authority) /\ Cardinality(DOMAIN authority) <= MaxActive
    <3>1. AuthorityInv /\ tokenSequence \in Nat
      BY <1>1, Settled2 DEF ChatInv, RequestInv
    <3> QED BY <3>1, AuthorityFinite DEF AuthorityInv
  <2> HIDE DEF f
  <2>3. IsFiniteSet(Running) /\ Cardinality(Running) <= Cardinality(DOMAIN authority)
    BY <2>1, <2>2, FS_Injection
  <2>4. /\ Cardinality(Running) \in Nat /\ Cardinality(DOMAIN authority) \in Nat
        /\ MaxActive \in Nat
    BY <2>2, <2>3, FS_CardinalityType, ConfigAssumption
  <2> QED BY <2>2, <2>3, <2>4 DEF StreamsBounded
<1> QED BY <1>1, TenureHolds, PTL

\* No event is fetched for a stream whose lease the store no longer holds
\* (_admitted_controlled_stream after a send and after a renewal).
THEOREM FetchesHoldLeases == ChatSpec => FetchesUnderLease
<1> DEFINE Fetches == \A r \in Request :
      phase[r] # "streaming" /\ phase'[r] = "streaming" => lease[r] \in LiveLeases(clock)
<1>1. ASSUME ChatInv, TenureInv, ChatNext, NEW r \in Request,
             phase[r] # "streaming", phase'[r] = "streaming"
      PROVE  lease[r] \in LiveLeases(clock)
  <2>1. ASSUME HasAuthority(r) PROVE lease[r] \in LiveLeases(clock)
    <3>1. /\ lease[r] \in DOMAIN leases /\ leases[lease[r]].expires >= Deadline(r)
          /\ Deadline(r) > clock /\ Deadline(r) \in Nat /\ clock \in Nat
      BY <1>1, <2>1, DeadlineNear, Settled2 DEF HasAuthority
    <3>2. leases[lease[r]].expires \in Nat
      BY <1>1, <3>1 DEF ChatInv, StoreInv, WindowInv, TypeOK, Functional, LeaseRecord
    <3> QED BY <3>1, <3>2 DEF LiveLeases
  <2>2. ASSUME RenewalAnswer(r) PROVE lease[r] \in LiveLeases(clock)
    <3>1. PICK outcome \in {call[r].reply, Failure} :
            /\ Answered(r, "renew", outcome)
            /\ RenewalGranted(r, outcome) \/ RenewalFailed(r, outcome)
      BY <2>2 DEF RenewalAnswer
    <3>2. phase[r] = "renewing" /\ phase[r] \in Waiting /\ phase \in [Request -> Phase]
      BY <1>1, <2>2 DEF RenewalAnswer, Waiting, ChatInv, RequestInv, CallInv
    <3>3. RenewalGranted(r, outcome)
      BY <1>1, <3>1, <3>2 DEF RenewalFailed, Set
    <3>4. outcome.type = "Renewed" /\ clock < call[r].deadline
      BY <3>1, <3>3 DEF RenewalGranted, Extends, Answered, Failure
    <3>5. Named(outcome) /\ Hears(r, outcome)
      BY <1>1, <3>2, <3>4, AnswerHeard
    <3>6. PICK x : x = Extended(r, outcome)
      OBVIOUS
    <3>7. /\ x \in Nat /\ clock < x
          /\ lease[r] \in DOMAIN leases /\ leases[lease[r]].expires >= x
      BY <1>1, <3>2, <3>3, <3>4, <3>5, <3>6, ExtendedAuthority
    <3>8. leases[lease[r]].expires \in Nat /\ clock \in Nat
      BY <1>1, <3>7, Settled2
         DEF ChatInv, StoreInv, WindowInv, TypeOK, Functional, LeaseRecord
    <3> QED BY <3>7, <3>8 DEF LiveLeases
  <2>3. phase' # phase /\ phase \in [Request -> Phase]
    BY <1>1 DEF ChatInv, RequestInv, CallInv
  <2>4. PICK s \in Request :
          \/ Arrive(s) \/ Advance(s) \/ Produce(s) \/ Resume(s) \/ Cancelled(s)
    BY <1>1, <2>3
       DEF ChatNext, Land, Tick, Probe, StartAttempt, FinishAttempt, requests
  <2>5. BeginStream(s) \/ Resume(s) \/ RenewalAnswer(s)
    <3>1. CASE Arrive(s) \/ Produce(s) \/ Cancelled(s)
      BY <1>1, <2>3, <3>1 DEF Arrive, Produce, Cancelled, Set
    <3>2. CASE Advance(s)
      BY <1>1, <2>3, <3>2
         DEF Advance, Replay, AdmissionAnswered, BeginWait, Poll, WaitEnds, PollAnswer,
             PollPendingAnswered, PollAdmittedAnswered, PollRefusedAnswered,
             AskRenewal, LeaseEnds, Settling, Settled, Set
    <3> QED BY <2>4, <3>1, <3>2
  <2>6. s = r
    BY <1>1, <2>3, <2>5
       DEF BeginStream, Resume, RenewalAnswer, RenewalGranted, RenewalFailed, Set
  <2>7. HasAuthority(r) \/ RenewalAnswer(r)
    BY <1>1, <2>3, <2>5, <2>6 DEF BeginStream, Resume, Set
  <2> QED BY <2>1, <2>2, <2>7
<1>2. ChatInv /\ TenureInv /\ [ChatNext]_chatVars => [Fetches]_chatVars
  BY <1>1
<1> QED BY <1>2, TenureHolds, PTL DEF ChatSpec, FetchesUnderLease

-----------------------------------------------------------------------------
(* What the store allows a ticket or lease, and what calls take from it.   *)

\* No one else was granted i.
Owns(r, i) ==
  \A op \in DOMAIN receipts :
    receipts[op].outcome.type \in Grant /\ receipts[op].outcome.id = i => op[1] = r
OwnersInv ==
  /\ \A r \in Request, i \in 1 .. tokenSequence : Claims(r, i) => Owns(r, i)
  /\ \A m \in messages :
       m.kind \in {"wait_for_admission", "renew"} => Owns(m.op[1], m.args.id)
  /\ \A op \in DOMAIN receipts :
       receipts[op].outcome.type = "Pending" =>
         receipts[op].outcome.id = receipts[op].args.id

\* The call was charged to ticket i, or to the lease it renewed.
Polled(op, i) ==
  op \in DOMAIN receipts /\ receipts[op].outcome.type = "Pending"
    /\ receipts[op].outcome.id = i
Spent(op) == op \in DOMAIN receipts /\ receipts[op].outcome.type = "Renewed"

\* Messages are not older than Latency, a call is over at its deadline, and the
\* receipt of a renewal outlives its messages.
PunctualInv ==
  /\ \A op \in DOMAIN receipts : receipts[op].expires \in Nat
  /\ \A m \in messages :
       /\ clock <= m.sent + Latency
       /\ Spent(m.op) => receipts[m.op].expires > m.sent + Latency
  /\ \A r \in Request : phase[r] \in Waiting =>
       /\ clock <= call[r].deadline
       /\ call[r].attempt = 1 => call[r].deadline <= call[r].started + CallTimeout
       /\ call[r].op \in DOMAIN receipts =>
            receipts[call[r].op].expires >= call[r].started + ReceiptTTL
       /\ call[r].kind = "wait_for_admission" => phase[r] = "polling"
       /\ call[r].kind = "renew" => phase[r] = "renewing"

\* The calls about ticket or lease i that may still be charged to it.
Unpolled(i) ==
  {m \in messages : m.kind = "wait_for_admission" /\ m.args.id = i /\ ~Polled(m.op, i)}
Unspent(i) == {m \in messages : m.kind = "renew" /\ m.args.id = i /\ ~Spent(m.op)}
TicketsAfford ==
  \A i \in DOMAIN tickets : \A m, n \in Unpolled(i) :
    m.op = n.op /\ tickets[i].polls > 0
LeasesAfford ==
  /\ \A op \in DOMAIN receipts :
       LET i == receipts[op].outcome.id
       IN  receipts[op].outcome.type = "Admitted" /\ i \in DOMAIN leases =>
             leases[i].renewals + ticks[op[1]] >= RenewalTicks
  /\ \A i \in DOMAIN leases : \A m, n \in Unspent(i) :
       m.op = n.op /\ leases[i].renewals + ticks[m.op[1]] > RenewalTicks

\* The polls ticket i has left last as long as the wait of r, from its next poll.
Paced(r, polls) ==
  waitEnd[r] + PollAttempts * PollInterval <= wake[r] + polls * PollInterval + QueueWait
Early(r) == phase[r] \in {"idle", "admitting"} \/ (phase[r] = "responding" /\ ticket[r] # 0)
Asks(r, kind) == \E m \in messages : m.op[1] = r /\ m.kind = kind
PollerOK(r) ==
  /\ Early(r) =>
       /\ ~Asks(r, "wait_for_admission")
       /\ \A op \in DOMAIN receipts :
            op[1] = r /\ receipts[op].outcome.type = "Queued"
              /\ receipts[op].outcome.id \in DOMAIN tickets =>
                tickets[receipts[op].outcome.id].polls = PollAttempts
  /\ phase[r] = "queued" /\ ticket[r] \in DOMAIN tickets =>
       Unpolled(ticket[r]) = {} /\ Paced(r, tickets[ticket[r]].polls)
  /\ phase[r] = "polling" =>
       /\ call[r].kind = "wait_for_admission" /\ call[r].args = Held(ticket[r])
       /\ ticket[r] \in DOMAIN tickets =>
            /\ \A m \in Unpolled(ticket[r]) : m.op = call[r].op
            /\ IF Polled(call[r].op, ticket[r])
               THEN Paced(r, tickets[ticket[r]].polls + 1)
               ELSE Paced(r, tickets[ticket[r]].polls) /\ tickets[ticket[r]].polls > 0
            /\ call[r].reply.type = "Pending" => Polled(call[r].op, ticket[r])
RenewerOK(r) ==
  /\ phase[r] \in {"idle", "admitting", "responding", "queued", "polling"} =>
       ~Asks(r, "renew")
  /\ phase[r] \in {"streaming", "sending"} /\ lease[r] \in DOMAIN leases =>
       Unspent(lease[r]) = {}
  /\ phase[r] = "renewing" /\ lease[r] \in DOMAIN leases =>
       /\ \A m \in Unspent(lease[r]) : m.op = call[r].op
       /\ call[r].attempt = 1 /\ ~Spent(call[r].op) =>
            leases[lease[r]].renewals + ticks[r] > RenewalTicks
       /\ call[r].reply.type = "Renewed" =>
            \A m \in messages : m.op = call[r].op => Spent(m.op)
AskersInv == \A r \in Request : PollerOK(r) /\ RenewerOK(r)

AllowanceInv == OwnersInv /\ PunctualInv /\ TicketsAfford /\ LeasesAfford /\ AskersInv

-----------------------------------------------------------------------------
(* What a call does to the receipts and to the allowances.                 *)

\* The receipts the call finds stay; the only other one is its own.
Tells(m, receipt) ==
  /\ receipt.expires = clock + ReceiptTTL
  /\ receipt.outcome.type \in Grant => receipt.outcome.id = NextId
  /\ receipt.outcome.type = "Pending" =>
       receipt.args = m.args /\ receipt.outcome.id = m.args.id
  /\ receipt.outcome.type = "Renewed" => m.kind = "renew"
ReceiptStep(m) ==
  /\ \A op \in DOMAIN receipts : ~Fresh(op, clock) =>
       op \in DOMAIN receipts' /\ receipts'[op] = receipts[op]
  /\ \A op \in DOMAIN receipts' :
       \/ op \in DOMAIN receipts /\ receipts'[op] = receipts[op]
       \/ op = m.op /\ Fresh(op, clock) /\ Tells(m, receipts'[op])
TicketStep(m) ==
  \A i \in DOMAIN tickets' :
    \/ i = NextId /\ tickets'[i].polls = PollAttempts
    \/ i \in LiveTickets(clock) /\ tickets'[i].polls = tickets[i].polls
    \/ /\ i \in LiveTickets(clock) /\ m.kind = "wait_for_admission" /\ m.args.id = i
       /\ Fresh(m.op, clock) /\ tickets'[i].polls = tickets[i].polls - 1
       /\ Polled(m.op, i)'
LeaseStep(m) ==
  \A i \in DOMAIN leases' :
    \/ i = NextId /\ leases'[i].renewals = RenewalTicks
    \/ i \in LiveLeases(clock) /\ leases'[i].renewals = leases[i].renewals
    \/ /\ i \in LiveLeases(clock) /\ m.kind = "renew" /\ m.args.id = i
       /\ Fresh(m.op, clock) /\ leases'[i].renewals = leases[i].renewals - 1
       /\ Spent(m.op)'
AllowanceStep(m) == ReceiptStep(m) /\ TicketStep(m) /\ LeaseStep(m)

\* Receipts stay while they have time left or name what is live.
LEMMA Stays ==
  ASSUME NEW op \in DOMAIN receipts
  PROVE  /\ Fresh(op, clock) <=>
              ~(receipts[op].expires > clock \/ Mentions(receipts[op].outcome, clock))
         /\ \A o : o \in DOMAIN ReceiptsAt(clock) <=> o \in DOMAIN receipts /\ ~Fresh(o, clock)
         /\ \A o \in DOMAIN ReceiptsAt(clock) : ReceiptsAt(clock)[o] = receipts[o]
BY DEF Fresh, ReceiptsAt, Restrict

LEMMA FoundReceipts ==
  /\ \A o : o \in DOMAIN ReceiptsAt(clock) <=> o \in DOMAIN receipts /\ ~Fresh(o, clock)
  /\ \A o \in DOMAIN ReceiptsAt(clock) : ReceiptsAt(clock)[o] = receipts[o]
BY DEF Fresh, ReceiptsAt, Restrict

LEMMA PruneReceipts ==
  ASSUME NEW m, receipts' = ReceiptsAt(clock)
  PROVE  ReceiptStep(m)
BY FoundReceipts DEF ReceiptStep

LEMMA RecordReceipts ==
  ASSUME NEW m, NEW kind, NEW args, NEW o, Fresh(m.op, clock),
         Record(m.op, kind, args, o, clock),
         o.type \in Grant => o.id = NextId,
         o.type = "Pending" => args = m.args /\ o.id = m.args.id,
         o.type = "Renewed" => m.kind = "renew"
  PROVE  /\ ReceiptStep(m) /\ m.op \in DOMAIN receipts'
         /\ receipts'[m.op].outcome = o
<1> DEFINE record == [kind |-> kind, args |-> args, outcome |-> o,
                      expires |-> clock + ReceiptTTL]
<1>1. /\ receipts' = Put(ReceiptsAt(clock), m.op, record) /\ record.outcome = o
      /\ record.expires = clock + ReceiptTTL /\ record.args = args
  BY DEF Record
<1> HIDE DEF record
<1>2. /\ m.op \in DOMAIN receipts' /\ receipts'[m.op] = record
      /\ \A op : op # m.op =>
           /\ op \in DOMAIN receipts' <=> op \in DOMAIN ReceiptsAt(clock)
           /\ op \in DOMAIN receipts' => receipts'[op] = ReceiptsAt(clock)[op]
  BY <1>1 DEF Put
<1>3. Tells(m, record) BY <1>1 DEF Tells
<1> QED BY <1>1, <1>2, <1>3, FoundReceipts DEF ReceiptStep

LEMMA PruneTickets ==
  ASSUME NEW m, NEW x,
         tickets' = TicketsAt(clock) \/ tickets' = Without(TicketsAt(clock), x)
  PROVE  TicketStep(m)
BY DEF TicketStep, TicketsAt, Without, Restrict

LEMMA PruneLeases ==
  ASSUME NEW m, NEW x,
         leases' = LeasesAt(clock) \/ leases' = Without(LeasesAt(clock), x)
  PROVE  LeaseStep(m)
BY DEF LeaseStep, LeasesAt, Without, Restrict

LEMMA GrantLeaseStep ==
  ASSUME ChatInv, NEW m, GrantLease(clock)
  PROVE  LeaseStep(m)
<1> DEFINE new == [expires |-> clock + LeaseTTL, windows |-> WindowsOf(clock),
                   renewals |-> RenewalTicks]
<1>1. leases' = Put(LeasesAt(clock), NextId, new) /\ new.renewals = RenewalTicks
  BY DEF GrantLease
<1> HIDE DEF new
<1>2. /\ DOMAIN leases' = LiveLeases(clock) \cup {NextId} /\ leases'[NextId] = new
      /\ \A i \in LiveLeases(clock) : i # NextId => leases'[i] = leases[i]
  BY <1>1, LeaseNumbers DEF Put
<1> QED BY <1>1, <1>2 DEF LeaseStep

LEMMA AdmitAllowance ==
  ASSUME ChatInv, NEW m, NEW ip, NEW session,
         AdmitOrEnqueue(m.op, ip, session, clock)
  PROVE  AllowanceStep(m)
<1> DEFINE args == <<ip, session>>
<1>0. \/ AdmitReplayed(m.op, clock) \/ AdmitThrottled(m.op, args, clock)
      \/ AdmitRefused(m.op, args, clock) \/ AdmitDenied(m.op, args, clock)
      \/ AdmitGranted(m.op, args, clock) \/ AdmitQueued(m.op, args, clock)
  BY DEF AdmitOrEnqueue
<1> HIDE DEF args
<1>1. leases' = LeasesAt(clock) => LeaseStep(m)
  BY PruneLeases
<1>2. tickets' = TicketsAt(clock) => TicketStep(m)
  BY PruneTickets
<1>3. CASE AdmitReplayed(m.op, clock) \/ AdmitRefused(m.op, args, clock)
  BY <1>1, <1>2, <1>3, PruneReceipts
     DEF AdmitReplayed, AdmitRefused, OnlyPrune, AllowanceStep
<1>4. CASE AdmitThrottled(m.op, args, clock) \/ AdmitDenied(m.op, args, clock)
  <2>1. PICK o : Record(m.op, "admit_or_enqueue", args, o, clock) /\ o.type = "Denied"
    <3>1. CASE AdmitThrottled(m.op, args, clock)
      BY <3>1 DEF AdmitThrottled, Denied
    <3>2. CASE AdmitDenied(m.op, args, clock)
      <4>1. AdmitBranch(clock) \in {"budget", "busy"}
        BY <3>2 DEF AdmitDenied, Unthrottled
      <4>2. AdmitDenial(clock).type = "Denied"
        BY <4>1 DEF AdmitDenial, Denied
      <4> QED BY <3>2, <4>2 DEF AdmitDenied
    <3> QED BY <1>4, <3>1, <3>2
  <2>2. Fresh(m.op, clock)
    BY <1>4 DEF AdmitThrottled, AdmitDenied, Unthrottled
  <2>3. ReceiptStep(m)
    BY <2>1, <2>2, RecordReceipts DEF Grant
  <2> QED BY <1>1, <1>2, <1>4, <2>3 DEF AdmitThrottled, AdmitDenied, AllowanceStep
<1>5. CASE AdmitGranted(m.op, args, clock)
  <2>1. GrantLease(clock) /\ Fresh(m.op, clock) /\ tickets' = TicketsAt(clock)
    BY <1>5 DEF AdmitGranted, Unthrottled
  <2>2. PICK o : o = Admitted(NextId, clock + LeaseTTL)
    OBVIOUS
  <2>3. Record(m.op, "admit_or_enqueue", args, o, clock)
    BY <1>5, <2>2 DEF AdmitGranted
  <2>4. o.type = "Admitted" /\ o.id = NextId
    BY <2>2 DEF Admitted
  <2>5. ReceiptStep(m)
    BY <2>1, <2>3, <2>4, RecordReceipts
  <2> QED BY <1>2, <2>1, <2>5, GrantLeaseStep DEF AllowanceStep
<1>6. CASE AdmitQueued(m.op, args, clock)
  <2> DEFINE new == [expires |-> clock + TicketTTL, sequence |-> sequence + 1,
                     polls |-> PollAttempts]
  <2>1. PICK o : o = Queued(NextId)
    OBVIOUS
  <2>2. o.type = "Queued" /\ o.id = NextId
    BY <2>1 DEF Queued
  <2>3. /\ Record(m.op, "admit_or_enqueue", args, o, clock) /\ Fresh(m.op, clock)
        /\ tickets' = Put(TicketsAt(clock), NextId, new) /\ new.polls = PollAttempts
        /\ leases' = LeasesAt(clock)
    BY <1>6, <2>1 DEF AdmitQueued, Unthrottled
  <2> HIDE DEF new
  <2>4. TicketStep(m)
    <3>1. \A i \in DOMAIN tickets' :
            \/ i = NextId /\ tickets'[i] = new
            \/ i \in LiveTickets(clock) /\ tickets'[i] = tickets[i]
      BY <2>3 DEF Put, TicketsAt, Restrict
    <3> QED BY <2>3, <3>1 DEF TicketStep
  <2>5. ReceiptStep(m)
    BY <2>2, <2>3, RecordReceipts
  <2> QED BY <1>1, <2>3, <2>4, <2>5 DEF AllowanceStep
<1> QED BY <1>0, <1>3, <1>4, <1>5, <1>6

LEMMA PollAllowance ==
  ASSUME ChatInv, NEW m, m.kind = "wait_for_admission",
         WaitForAdmission(m.op, m.args, clock)
  PROVE  AllowanceStep(m)
<1> DEFINE i == m.args.id
<1>1. leases' = LeasesAt(clock) => LeaseStep(m)
  BY PruneLeases
<1>2. /\ tickets' = TicketsAt(clock) => TicketStep(m)
      /\ tickets' = Without(TicketsAt(clock), i) => TicketStep(m)
  BY PruneTickets
<1>3. CASE Replayed(m.op, clock) \/ PollRefused(m.op, m.args, clock)
  BY <1>1, <1>2, <1>3, PruneReceipts
     DEF Replayed, PollRefused, Refused, OnlyPrune, AllowanceStep
<1>4. CASE PollGone(m.op, m.args, clock) \/ PollDenied(m.op, m.args, clock)
  <2>1. PICK o : /\ Record(m.op, "wait_for_admission", m.args, o, clock)
                 /\ o.type = "Denied"
    BY <1>4 DEF PollGone, PollDenied, PollAnswered, Denied
  <2>2. Fresh(m.op, clock)
    BY <1>4 DEF PollGone, PollDenied, PollAnswered
  <2>3. ReceiptStep(m)
    BY <2>1, <2>2, RecordReceipts DEF Grant
  <2> QED BY <1>1, <1>2, <1>4, <2>3 DEF PollGone, PollDenied, AllowanceStep
<1>5. CASE PollPending(m.op, m.args, clock)
  <2>1. PICK o : o = Pending(i)
    OBVIOUS
  <2>2. o.type = "Pending" /\ o.id = i
    BY <2>1 DEF Pending
  <2>3. /\ Record(m.op, "wait_for_admission", m.args, o, clock) /\ Fresh(m.op, clock)
        /\ tickets' = [TicketsAt(clock) EXCEPT ![i].polls = @ - 1]
        /\ leases' = LeasesAt(clock) /\ PollBranch(m.args, clock) = "pending"
    BY <1>5, <2>1 DEF PollPending, PollAnswered
  <2>4. ReceiptStep(m) /\ m.op \in DOMAIN receipts' /\ receipts'[m.op].outcome = o
    BY <2>2, <2>3, RecordReceipts DEF Grant
  <2>5. Polled(m.op, i)'
    BY <2>2, <2>4 DEF Polled
  <2>6. /\ i \in LiveTickets(clock) /\ DOMAIN TicketsAt(clock) = LiveTickets(clock)
        /\ \A j \in LiveTickets(clock) : TicketsAt(clock)[j] = tickets[j]
        /\ tickets[i] \in TicketRecord
    BY <2>3 DEF PollBranch, TicketsAt, Restrict, LiveTickets, ChatInv, StoreInv, WindowInv,
         TypeOK, Functional
  <2>7. /\ DOMAIN tickets' = LiveTickets(clock)
        /\ \A j \in LiveTickets(clock) : j # i => tickets'[j] = tickets[j]
        /\ tickets'[i].polls = tickets[i].polls - 1
    BY <2>3, <2>6 DEF TicketRecord
  <2>8. TicketStep(m)
    BY <2>3, <2>5, <2>7 DEF TicketStep
  <2> QED BY <1>1, <2>3, <2>4, <2>8 DEF AllowanceStep
<1>6. CASE PollAdmitted(m.op, m.args, clock)
  <2>1. /\ GrantLease(clock) /\ Fresh(m.op, clock)
        /\ tickets' = Without(TicketsAt(clock), i)
    BY <1>6 DEF PollAdmitted, PollAnswered
  <2>2. PICK o : o = Admitted(NextId, clock + LeaseTTL)
    OBVIOUS
  <2>3. Record(m.op, "wait_for_admission", m.args, o, clock)
    BY <1>6, <2>2 DEF PollAdmitted, PollAnswered
  <2>4. o.type = "Admitted" /\ o.id = NextId
    BY <2>2 DEF Admitted
  <2>5. ReceiptStep(m)
    BY <2>1, <2>3, <2>4, RecordReceipts
  <2> QED BY <1>2, <2>1, <2>5, GrantLeaseStep DEF AllowanceStep
<1> QED BY <1>3, <1>4, <1>5, <1>6 DEF WaitForAdmission

LEMMA RenewAllowance ==
  ASSUME ChatInv, NEW m, m.kind = "renew", Renew(m.op, m.args, clock)
  PROVE  AllowanceStep(m)
<1> DEFINE i == m.args.id
<1>1. leases' = LeasesAt(clock) => LeaseStep(m)
  BY PruneLeases
<1>2. tickets' = TicketsAt(clock) => TicketStep(m)
  BY PruneTickets
<1>3. CASE Replayed(m.op, clock) \/ RenewRefused(m.op, m.args, clock)
  BY <1>1, <1>2, <1>3, PruneReceipts
     DEF Replayed, RenewRefused, Refused, OnlyPrune, AllowanceStep
<1>4. CASE RenewLost(m.op, m.args, clock)
  <2>1. PICK o : Record(m.op, "renew", m.args, o, clock) /\ o.type = "Lost"
    BY <1>4 DEF RenewLost, RenewAnswered, Lost
  <2>2. Fresh(m.op, clock)
    BY <1>4 DEF RenewLost, RenewAnswered
  <2>3. ReceiptStep(m)
    BY <2>1, <2>2, RecordReceipts DEF Grant
  <2> QED BY <1>1, <1>2, <1>4, <2>3 DEF RenewLost, RenewAnswered, AllowanceStep
<1>5. CASE RenewGranted(m.op, m.args, clock)
  <2>1. PICK o : o = Renewed(clock + LeaseTTL)
    OBVIOUS
  <2>2. o.type = "Renewed"
    BY <2>1 DEF Renewed
  <2>3. /\ Record(m.op, "renew", m.args, o, clock) /\ Fresh(m.op, clock)
        /\ leases' = [LeasesAt(clock) EXCEPT ![i].expires = clock + LeaseTTL,
                                            ![i].renewals = @ - 1]
        /\ tickets' = TicketsAt(clock) /\ i \in LiveLeases(clock)
    BY <1>5, <2>1 DEF RenewGranted, RenewAnswered, Renewable
  <2>4. ReceiptStep(m) /\ m.op \in DOMAIN receipts' /\ receipts'[m.op].outcome = o
    BY <2>2, <2>3, RecordReceipts DEF Grant
  <2>5. Spent(m.op)'
    BY <2>2, <2>4 DEF Spent
  <2>6. /\ DOMAIN leases' = LiveLeases(clock)
        /\ \A j \in LiveLeases(clock) : j # i => leases'[j] = leases[j]
        /\ leases'[i].renewals = leases[i].renewals - 1
    BY <2>3, LeaseNumbers DEF LeaseRecord
  <2>7. LeaseStep(m)
    BY <2>3, <2>5, <2>6 DEF LeaseStep
  <2> QED BY <1>2, <2>3, <2>4, <2>7 DEF AllowanceStep
<1> QED BY <1>3, <1>4, <1>5 DEF Renew

LEMMA CloseAllowance ==
  ASSUME ChatInv, NEW m,
         \/ CancelTicket(m.op, m.args, clock)
         \/ Finalize(m.op, m.args[1], m.args[2], m.args[3], clock)
  PROVE  AllowanceStep(m)
<1>1. \A x : /\ leases' = LeasesAt(clock) => LeaseStep(m)
             /\ leases' = Without(LeasesAt(clock), x) => LeaseStep(m)
             /\ tickets' = TicketsAt(clock) => TicketStep(m)
             /\ tickets' = Without(TicketsAt(clock), x) => TicketStep(m)
  BY PruneLeases, PruneTickets
<1>2. CASE \/ Replayed(m.op, clock) \/ CancelRefused(m.op, m.args, clock)
           \/ FinalizeRefused(m.op, m.args[1], clock)
  BY <1>1, <1>2, PruneReceipts
     DEF Replayed, CancelRefused, FinalizeRefused, Refused, OnlyPrune, AllowanceStep
<1>3. CASE CancelDone(m.op, m.args, clock)
  <2>1. PICK o : Record(m.op, "cancel_ticket", m.args, o, clock) /\ o.type = "CancelledTicket"
    BY <1>3 DEF CancelDone, CancelledTicket
  <2>2. ReceiptStep(m)
    BY <1>3, <2>1, RecordReceipts DEF Grant, CancelDone
  <2> QED BY <1>1, <1>3, <2>2 DEF CancelDone, AllowanceStep
<1>4. CASE FinalizeSettled(m.op, m.args[1], m.args[2], m.args[3], clock)
  <2>1. PICK a, o : Record(m.op, "finalize", a, o, clock) /\ o.type = "Finalized"
    BY <1>4 DEF FinalizeSettled, Finalized
  <2>2. ReceiptStep(m)
    BY <1>4, <2>1, RecordReceipts DEF Grant, FinalizeSettled
  <2> QED BY <1>1, <1>4, <2>2 DEF FinalizeSettled, AllowanceStep
<1> QED BY <1>2, <1>3, <1>4 DEF CancelTicket, Finalize

LEMMA ExecuteAllowance ==
  ASSUME ChatInv, NEW m, Execute(m)
  PROVE  AllowanceStep(m)
BY AdmitAllowance, PollAllowance, RenewAllowance, CloseAllowance DEF Execute

LEMMA ProbeAllowance ==
  ASSUME NEW m, CheckBudgetReadiness(clock)
  PROVE  AllowanceStep(m)
BY PruneReceipts, PruneTickets, PruneLeases DEF CheckBudgetReadiness, OnlyPrune, AllowanceStep

-----------------------------------------------------------------------------
(* The world moves: a message lands, or a probe prunes.                    *)

\* A late message finds the receipt of the renewal it repeats.
Prompt == CallTimeout + Latency < ReceiptTTL

WorldStep(m) ==
  /\ AllowanceStep(m)
  /\ \/ m \in messages
     \/ /\ m.kind = "none"
        /\ \A op \in DOMAIN receipts' : op \in DOMAIN receipts /\ receipts'[op] = receipts[op]
  /\ m.kind = "wait_for_admission" /\ m.op \in DOMAIN receipts =>
       receipts[m.op].args = m.args
  /\ messages' \subseteq messages
  /\ UNCHANGED <<clock, phase, ticket, lease, wake, waitEnd, ticks>>
  /\ \A r \in Request :
       /\ call'[r].op = call[r].op /\ call'[r].kind = call[r].kind
       /\ call'[r].args = call[r].args /\ call'[r].started = call[r].started
       /\ call'[r].deadline = call[r].deadline /\ call'[r].attempt = call[r].attempt
       /\ \/ call'[r].reply = call[r].reply
          \/ m \in messages /\ call[r].op = m.op /\ call'[r].reply = AnswerTo(m)

LEMMA AllowanceNumbers ==
  /\ Latency \in Nat /\ CallTimeout \in Nat /\ ReceiptTTL \in Nat
  /\ PollAttempts \in Nat /\ RenewalTicks \in Nat
  /\ PollInterval \in Nat /\ QueueWait \in Nat
  /\ PollAttempts * PollInterval \in Nat /\ PollAttempts * PollInterval >= QueueWait
<1>1. /\ Latency \in Nat /\ CallTimeout \in Nat /\ PollInterval \in Nat /\ QueueWait \in Nat
      /\ PollAttempts * PollInterval >= QueueWait
  BY TimingAssumption DEF TimingAssumption
<1>2. ReceiptTTL \in Nat /\ PollAttempts \in Nat /\ RenewalTicks \in Nat
  BY ConfigAssumption DEF EndpointControlConfig
<1> QED BY <1>1, <1>2

LEMMA AllowanceTypes ==
  ASSUME ChatInv, TenureInv
  PROVE  /\ clock \in Nat /\ tokenSequence \in Nat /\ NextId \notin 1 .. tokenSequence
         /\ DOMAIN tickets \subseteq 1 .. tokenSequence
         /\ DOMAIN leases \subseteq 1 .. tokenSequence
         /\ \A i \in DOMAIN tickets : tickets[i].polls \in 0 .. PollAttempts
         /\ \A i \in DOMAIN leases : leases[i].renewals \in 0 .. RenewalTicks
         /\ \A op \in DOMAIN receipts :
              /\ op[1] \in Request
              /\ receipts[op].outcome.type \in Grant =>
                   receipts[op].outcome.id \in 1 .. tokenSequence
         /\ \A m \in messages :
              /\ m.sent \in Nat /\ m.sent <= clock /\ m.op[1] \in Request
              /\ m.kind \in {"wait_for_admission", "renew"} => m.args.id \in 1 .. tokenSequence
         /\ \A r \in Request :
              /\ ticks[r] \in 0 .. RenewalTicks /\ wake[r] \in Nat /\ waitEnd[r] \in Nat
              /\ call[r].started \in Nat /\ call[r].deadline \in Nat
              /\ call[r].started <= clock /\ call[r].op[1] = r
<1>1. TypeOK /\ ReceiptsNamed /\ MessageInv /\ CallInv /\ TimerInv /\ DrawnInv
  BY DEF ChatInv, StoreInv, WindowInv, RequestInv, TenureInv
<1>2. /\ tokenSequence \in Nat /\ NextId \notin 1 .. tokenSequence
      /\ DOMAIN tickets \subseteq 1 .. tokenSequence
      /\ DOMAIN leases \subseteq 1 .. tokenSequence
  BY <1>1, TokenBounds DEF TypeOK, Functional, NextId
<1>3. /\ \A i \in DOMAIN tickets : tickets[i].polls \in 0 .. PollAttempts
      /\ \A i \in DOMAIN leases : leases[i].renewals \in 0 .. RenewalTicks
  BY <1>1 DEF TypeOK, Functional, TicketRecord, LeaseRecord
<1>4. \A op \in DOMAIN receipts :
        /\ op[1] \in Request
        /\ receipts[op].outcome.type \in Grant =>
             receipts[op].outcome.id \in 1 .. tokenSequence
  <2>1. DOMAIN receipts \subseteq OperationId
    BY <1>1 DEF TypeOK
  <2> QED BY <1>1, <2>1, OperationAssumption DEF OperationAssumption, ReceiptsNamed, Named, Grant
<1>5. ASSUME NEW m \in messages
      PROVE  /\ m.sent \in Nat /\ m.sent <= clock /\ m.op[1] \in Request
             /\ m.kind \in {"wait_for_admission", "renew"} => m.args.id \in 1 .. tokenSequence
  <2>1. m.sent \in Nat /\ m.sent <= clock /\ m.op \in OperationId /\ Servable(m.kind, m.args)
    BY <1>1 DEF MessageInv
  <2>2. m.kind \in {"wait_for_admission", "renew"} => m.args \in IssuedHandle
    BY <2>1 DEF Servable
  <2>3. \A h \in IssuedHandle : h.id \in 1 .. tokenSequence
    BY <1>2, TokenBounds DEF IssuedHandle, Handle, TokenId
  <2> QED BY <2>1, <2>2, <2>3, OperationAssumption DEF OperationAssumption
<1>6. \A r \in Request :
        /\ ticks[r] \in 0 .. RenewalTicks /\ wake[r] \in Nat /\ waitEnd[r] \in Nat
        /\ call[r].started <= clock /\ call[r].op[1] = r
  BY <1>1 DEF TimerInv, DrawnInv
<1> QED BY <1>2, <1>3, <1>4, <1>5, <1>6, Settled2

\* A live grant has one owner.
LEMMA SameOwner ==
  ASSUME GrantsInv, NEW i, i \in DOMAIN tickets \/ i \in DOMAIN leases,
         NEW r, NEW s, Owns(r, i), Owns(s, i)
  PROVE  r = s
<1>1. PICK type \in Grant : OnRecord(type, i)
  BY DEF GrantsInv, Grant
<1>2. PICK op \in DOMAIN receipts : GrantsOf(type, i) = {op}
  BY <1>1 DEF OnRecord
<1>3. receipts[op].outcome.type = type /\ receipts[op].outcome.id = i
  BY <1>2 DEF GrantsOf
<1> QED BY <1>3 DEF Owns

LEMMA WorldFacts ==
  ASSUME ChatInv, TenureInv, AllowanceInv, NEW m, WorldStep(m)
  PROVE  /\ \A op, i : Polled(op, i) /\ i \in LiveTickets(clock) =>
              ~Fresh(op, clock) /\ Polled(op, i)'
         /\ \A n \in messages : Spent(n.op) => ~Fresh(n.op, clock) /\ Spent(n.op)'
         /\ \A i \in DOMAIN tickets' : i \in 1 .. tokenSequence =>
              /\ i \in DOMAIN tickets /\ Unpolled(i)' \subseteq Unpolled(i)
              /\ i \in LiveTickets(clock)
              /\ \/ tickets'[i].polls = tickets[i].polls
                 \/ /\ m \in Unpolled(i) /\ Polled(m.op, i)'
                    /\ tickets'[i].polls = tickets[i].polls - 1
         /\ \A i \in DOMAIN leases' : i \in 1 .. tokenSequence =>
              /\ i \in DOMAIN leases /\ Unspent(i)' \subseteq Unspent(i)
              /\ \/ leases'[i].renewals = leases[i].renewals
                 \/ /\ m \in Unspent(i) /\ Spent(m.op)'
                    /\ leases'[i].renewals = leases[i].renewals - 1
<1>0. ReceiptStep(m) /\ TicketStep(m) /\ LeaseStep(m) /\ messages' \subseteq messages
  BY DEF WorldStep, AllowanceStep
<1>1. ASSUME NEW op, NEW i, Polled(op, i), i \in LiveTickets(clock)
      PROVE  ~Fresh(op, clock) /\ Polled(op, i)'
  <2>1. /\ op \in DOMAIN receipts /\ receipts[op].outcome.type = "Pending"
        /\ receipts[op].outcome.id = i
    BY <1>1 DEF Polled
  <2>2. Mentions(receipts[op].outcome, clock)
    BY <1>1, <2>1 DEF Mentions
  <2>3. ~Fresh(op, clock)
    BY <2>1, <2>2, Stays
  <2> QED BY <1>0, <2>1, <2>3 DEF ReceiptStep, Polled
<1>2. ASSUME NEW n \in messages, Spent(n.op)
      PROVE  ~Fresh(n.op, clock) /\ Spent(n.op)'
  <2>1. /\ n.op \in DOMAIN receipts /\ receipts[n.op].outcome.type = "Renewed"
        /\ receipts[n.op].expires > n.sent + Latency /\ clock <= n.sent + Latency
        /\ receipts[n.op].expires \in Nat
    BY <1>2 DEF Spent, AllowanceInv, PunctualInv
  <2>2. receipts[n.op].expires > clock
    BY <2>1, AllowanceTypes, AllowanceNumbers
  <2>3. ~Fresh(n.op, clock)
    BY <2>1, <2>2, Stays
  <2> QED BY <1>0, <2>1, <2>3 DEF ReceiptStep, Spent
<1>3. ASSUME NEW i \in DOMAIN tickets', i \in 1 .. tokenSequence
      PROVE  /\ i \in DOMAIN tickets /\ Unpolled(i)' \subseteq Unpolled(i)
             /\ i \in LiveTickets(clock)
             /\ \/ tickets'[i].polls = tickets[i].polls
                \/ /\ m \in Unpolled(i) /\ Polled(m.op, i)'
                   /\ tickets'[i].polls = tickets[i].polls - 1
  <2>1. i # NextId
    BY <1>3, AllowanceTypes
  <2>2. i \in LiveTickets(clock) /\ i \in DOMAIN tickets
    BY <1>0, <2>1 DEF TicketStep, LiveTickets
  <2>3. Unpolled(i)' \subseteq Unpolled(i)
    BY <1>0, <1>1, <2>2 DEF Unpolled
  <2>4. ASSUME m.kind = "wait_for_admission", m.args.id = i, Fresh(m.op, clock)
        PROVE  m \in Unpolled(i)
    <3>1. m \in messages
      BY <2>4 DEF WorldStep
    <3> QED BY <1>1, <2>2, <2>4, <3>1 DEF Unpolled
  <2> QED BY <1>0, <2>1, <2>2, <2>3, <2>4 DEF TicketStep
<1>4. ASSUME NEW i \in DOMAIN leases', i \in 1 .. tokenSequence
      PROVE  /\ i \in DOMAIN leases /\ Unspent(i)' \subseteq Unspent(i)
             /\ \/ leases'[i].renewals = leases[i].renewals
                \/ /\ m \in Unspent(i) /\ Spent(m.op)'
                   /\ leases'[i].renewals = leases[i].renewals - 1
  <2>1. i # NextId
    BY <1>4, AllowanceTypes
  <2>2. i \in LiveLeases(clock) /\ i \in DOMAIN leases
    BY <1>0, <2>1 DEF LeaseStep, LiveLeases
  <2>3. Unspent(i)' \subseteq Unspent(i)
    BY <1>0, <1>2 DEF Unspent
  <2>4. ASSUME m.kind = "renew", m.args.id = i, Fresh(m.op, clock)
        PROVE  m \in Unspent(i)
    <3>1. m \in messages
      BY <2>4 DEF WorldStep
    <3> QED BY <1>2, <2>4, <3>1 DEF Unspent
  <2> QED BY <1>0, <2>1, <2>2, <2>3, <2>4 DEF LeaseStep
<1> QED BY <1>1, <1>2, <1>3, <1>4

LEMMA WorldOwners ==
  ASSUME ChatInv, TenureInv, AllowanceInv, NEW m, WorldStep(m)
  PROVE  OwnersInv'
<1>0. ReceiptStep(m) /\ messages' \subseteq messages /\ OwnersInv
  BY DEF WorldStep, AllowanceStep, AllowanceInv
<1>1. \A op \in DOMAIN receipts' :
        \/ op \in DOMAIN receipts /\ receipts'[op] = receipts[op]
        \/ op = m.op /\ m \in messages /\ Tells(m, receipts'[op])
  BY <1>0 DEF ReceiptStep, WorldStep
<1>2. ASSUME NEW r, NEW i \in 1 .. tokenSequence, Owns(r, i)
      PROVE  Owns(r, i)'
  <2>1. \A op \in DOMAIN receipts' :
          receipts'[op].outcome.type \in Grant /\ receipts'[op].outcome.id = i =>
            op \in DOMAIN receipts /\ receipts'[op] = receipts[op]
    BY <1>1, AllowanceTypes DEF Tells
  <2> QED BY <1>2, <2>1 DEF Owns
<1>3. ASSUME NEW r \in Request, NEW o, Hears(r, o)', o.type \in Grant
      PROVE  Hears(r, o) \/ (m \in messages /\ r = m.op[1] /\ o.id = NextId)
  <2>1. phase[r] \in Waiting /\ call'[r].op = call[r].op /\ call[r].op[1] = r
    BY <1>3, AllowanceTypes DEF Hears, WorldStep
  <2>2. ASSUME NEW op \in DOMAIN receipts', op = call[r].op, o = receipts'[op].outcome
        PROVE  Hears(r, o) \/ (m \in messages /\ r = m.op[1] /\ o.id = NextId)
    BY <1>1, <1>3, <2>1, <2>2 DEF Hears, Tells
  <2>3. \/ o = call[r].reply
        \/ m \in messages /\ call[r].op = m.op /\ o = AnswerTo(m)
        \/ call[r].op \in DOMAIN receipts' /\ o = receipts'[call[r].op].outcome
    BY <1>3, <2>1 DEF Hears, WorldStep
  <2>4. CASE m \in messages /\ call[r].op = m.op /\ o = AnswerTo(m)
    <3>1. Failure.type \notin Grant
      BY DEF Failure, Grant
    <3> QED BY <1>3, <2>2, <2>4, <3>1 DEF AnswerTo
  <2>5. CASE o = call[r].reply
    BY <2>1, <2>5 DEF Hears
  <2> QED BY <2>2, <2>3, <2>4, <2>5
<1>4. ASSUME NEW r \in Request, NEW i \in 1 .. tokenSequence', Claims(r, i)'
      PROVE  Owns(r, i)'
  <2>1. Claims(r, i) \/ (m \in messages /\ r = m.op[1] /\ i = NextId)
    BY <1>3, <1>4 DEF Claims, WorldStep
  <2>2. CASE Claims(r, i)
    <3>1. i \in 1 .. tokenSequence
      BY <2>2, ClaimsIssued
    <3>2. Owns(r, i)
      BY <1>0, <2>2, <3>1 DEF OwnersInv
    <3> QED BY <1>2, <3>1, <3>2
  <2>3. CASE m \in messages /\ r = m.op[1] /\ i = NextId
    <3>1. \A op \in DOMAIN receipts : receipts[op].outcome.type \in Grant => receipts[op].outcome.id # i
      BY <2>3, AllowanceTypes
    <3> QED BY <1>1, <2>3, <3>1 DEF Owns
  <2> QED BY <2>1, <2>2, <2>3
<1>5. \A n \in messages' :
        n.kind \in {"wait_for_admission", "renew"} => Owns(n.op[1], n.args.id)'
  BY <1>0, <1>2, AllowanceTypes DEF OwnersInv
<1>6. \A op \in DOMAIN receipts' :
        receipts'[op].outcome.type = "Pending" =>
          receipts'[op].outcome.id = receipts'[op].args.id
  BY <1>0, <1>1 DEF OwnersInv, Tells
<1> QED BY <1>4, <1>5, <1>6 DEF OwnersInv

LEMMA WorldPunctual ==
  ASSUME ChatInv, TenureInv, AllowanceInv, Prompt, NEW m, WorldStep(m)
  PROVE  PunctualInv'
<1>0. /\ ReceiptStep(m) /\ messages' \subseteq messages /\ clock' = clock /\ phase' = phase
      /\ PunctualInv
  BY DEF WorldStep, AllowanceStep, AllowanceInv
<1>1. \A op \in DOMAIN receipts' :
        \/ op \in DOMAIN receipts /\ receipts'[op] = receipts[op]
        \/ receipts'[op].expires = clock + ReceiptTTL
  BY <1>0 DEF ReceiptStep, Tells
<1>4. \A op \in DOMAIN receipts' : receipts'[op].expires \in Nat
  <2>1. clock + ReceiptTTL \in Nat BY AllowanceTypes, AllowanceNumbers
  <2> QED BY <1>0, <1>1, <2>1 DEF PunctualInv
<1>2. ASSUME NEW n \in messages'
      PROVE  /\ clock' <= n.sent + Latency
             /\ Spent(n.op)' => receipts'[n.op].expires > n.sent + Latency
  <2>1. n \in messages /\ clock <= n.sent + Latency
    BY <1>0 DEF PunctualInv
  <2>2. ASSUME Spent(n.op)' PROVE receipts'[n.op].expires > n.sent + Latency
    <3>1. CASE n.op \in DOMAIN receipts /\ receipts'[n.op] = receipts[n.op]
      BY <1>0, <2>1, <2>2, <3>1 DEF Spent, PunctualInv
    <3>2. CASE receipts'[n.op].expires = clock + ReceiptTTL
      BY <2>1, <3>2, AllowanceTypes, AllowanceNumbers DEF Prompt
    <3> QED BY <1>1, <2>2, <3>1, <3>2 DEF Spent
  <2> QED BY <1>0, <2>1, <2>2
<1>3. ASSUME NEW r \in Request, phase[r] \in Waiting
      PROVE  /\ clock' <= call'[r].deadline
             /\ call'[r].attempt = 1 => call'[r].deadline <= call'[r].started + CallTimeout
             /\ call'[r].op \in DOMAIN receipts' =>
                  receipts'[call'[r].op].expires >= call'[r].started + ReceiptTTL
             /\ call'[r].kind = "wait_for_admission" => phase'[r] = "polling"
             /\ call'[r].kind = "renew" => phase'[r] = "renewing"
  <2>1. /\ call'[r].kind = call[r].kind
        /\ call'[r].op = call[r].op /\ call'[r].started = call[r].started
        /\ call'[r].deadline = call[r].deadline /\ call'[r].attempt = call[r].attempt
    BY DEF WorldStep
  <2>2. call[r].op \in DOMAIN receipts' => receipts'[call[r].op].expires >= call[r].started + ReceiptTTL
    <3>1. call[r].op \in DOMAIN receipts => receipts[call[r].op].expires >= call[r].started + ReceiptTTL
      BY <1>0, <1>3 DEF PunctualInv
    <3>2. clock + ReceiptTTL >= call[r].started + ReceiptTTL
      BY AllowanceTypes, AllowanceNumbers
    <3> QED BY <1>1, <3>1, <3>2
  <2> QED BY <1>0, <1>3, <2>1, <2>2 DEF PunctualInv
<1> QED BY <1>0, <1>2, <1>3, <1>4 DEF PunctualInv

LEMMA WorldTickets ==
  ASSUME ChatInv, TenureInv, AllowanceInv, NEW m, WorldStep(m)
  PROVE  TicketsAfford'
<1>1. ASSUME NEW i \in DOMAIN tickets', NEW a \in Unpolled(i)', NEW b \in Unpolled(i)'
      PROVE  a.op = b.op /\ tickets'[i].polls > 0
  <2>1. a \in messages /\ a.kind = "wait_for_admission" /\ a.args.id = i /\ ~Polled(a.op, i)'
    BY <1>1 DEF Unpolled, WorldStep
  <2>2. i \in 1 .. tokenSequence
    BY <2>1, AllowanceTypes
  <2>3. /\ i \in DOMAIN tickets /\ a \in Unpolled(i) /\ b \in Unpolled(i)
        /\ \/ tickets'[i].polls = tickets[i].polls
           \/ m \in Unpolled(i) /\ Polled(m.op, i)'
    BY <1>1, <2>2, WorldFacts
  <2>4. a.op = b.op /\ tickets[i].polls > 0 /\ (m \in Unpolled(i) => m.op = a.op)
    BY <2>3 DEF AllowanceInv, TicketsAfford
  <2> QED BY <2>1, <2>3, <2>4
<1> QED BY <1>1 DEF TicketsAfford

LEMMA WorldLeases ==
  ASSUME ChatInv, TenureInv, AllowanceInv, NEW m, WorldStep(m)
  PROVE  LeasesAfford'
<1>0. ReceiptStep(m) /\ LeaseStep(m) /\ ticks' = ticks
  BY DEF WorldStep, AllowanceStep
<1>1. ASSUME NEW op \in DOMAIN receipts', NEW i, i = receipts'[op].outcome.id,
             receipts'[op].outcome.type = "Admitted", i \in DOMAIN leases'
      PROVE  leases'[i].renewals + ticks[op[1]] >= RenewalTicks
  <2>1. CASE i = NextId
    <3>1. i \notin LiveLeases(clock)
      BY <2>1, AllowanceTypes DEF LiveLeases
    <3>2. leases'[i].renewals = RenewalTicks
      BY <1>0, <1>1, <3>1 DEF LeaseStep
    <3>3. op[1] \in Request
      BY <1>0, AllowanceTypes DEF ReceiptStep, WorldStep
    <3> QED BY <3>2, <3>3, AllowanceTypes, AllowanceNumbers
  <2>2. CASE i # NextId
    <3>1. op \in DOMAIN receipts /\ receipts'[op] = receipts[op]
      BY <1>0, <1>1, <2>2 DEF ReceiptStep, Tells, Grant
    <3>2. i \in 1 .. tokenSequence /\ op[1] \in Request
      BY <1>1, <3>1, AllowanceTypes DEF Grant
    <3>3. /\ i \in DOMAIN leases
          /\ \/ leases'[i].renewals = leases[i].renewals
             \/ m \in Unspent(i) /\ leases'[i].renewals = leases[i].renewals - 1
      BY <1>1, <3>2, WorldFacts
    <3>4. leases[i].renewals + ticks[op[1]] >= RenewalTicks
      BY <1>1, <3>1, <3>3 DEF AllowanceInv, LeasesAfford
    <3>5. CASE m \in Unspent(i) /\ leases'[i].renewals = leases[i].renewals - 1
      <4>1. leases[i].renewals + ticks[m.op[1]] > RenewalTicks
        BY <3>3, <3>5 DEF AllowanceInv, LeasesAfford
      <4>2. Owns(m.op[1], i)
        BY <3>5 DEF Unspent, AllowanceInv, OwnersInv
      <4>3. m.op[1] = op[1]
        BY <1>1, <3>1, <4>2 DEF Owns, Grant
      <4> QED BY <3>2, <3>3, <3>5, <4>1, <4>3, AllowanceTypes, AllowanceNumbers
    <3> QED BY <3>3, <3>4, <3>5
  <2> QED BY <2>1, <2>2
<1>2. ASSUME NEW i \in DOMAIN leases', NEW a \in Unspent(i)', NEW b \in Unspent(i)'
      PROVE  a.op = b.op /\ leases'[i].renewals + ticks[a.op[1]] > RenewalTicks
  <2>1. a \in messages /\ a.kind = "renew" /\ a.args.id = i /\ ~Spent(a.op)'
    BY <1>2 DEF Unspent, WorldStep
  <2>2. i \in 1 .. tokenSequence
    BY <2>1, AllowanceTypes
  <2>3. /\ i \in DOMAIN leases /\ a \in Unspent(i) /\ b \in Unspent(i)
        /\ \/ leases'[i].renewals = leases[i].renewals
           \/ m \in Unspent(i) /\ Spent(m.op)'
    BY <1>2, <2>2, WorldFacts
  <2>4. /\ a.op = b.op /\ leases[i].renewals + ticks[a.op[1]] > RenewalTicks
        /\ m \in Unspent(i) => m.op = a.op
    BY <2>3 DEF AllowanceInv, LeasesAfford
  <2> QED BY <2>1, <2>3, <2>4
<1> QED BY <1>0, <1>1, <1>2 DEF LeasesAfford

LEMMA WorldPoller ==
  ASSUME ChatInv, TenureInv, GrantsInv, AllowanceInv, NEW m, WorldStep(m),
         NEW r \in Request
  PROVE  PollerOK(r)'
<1>0. /\ ReceiptStep(m) /\ TicketStep(m) /\ messages' \subseteq messages
      /\ UNCHANGED <<phase, ticket, wake, waitEnd>> /\ PollerOK(r)
  BY DEF WorldStep, AllowanceStep, AllowanceInv, AskersInv
<1>1. ASSUME Early(r)'
      PROVE  /\ ~Asks(r, "wait_for_admission")'
             /\ \A op \in DOMAIN receipts' :
                  op[1] = r /\ receipts'[op].outcome.type = "Queued"
                    /\ receipts'[op].outcome.id \in DOMAIN tickets' =>
                      tickets'[receipts'[op].outcome.id].polls = PollAttempts
  <2>1. Early(r) /\ ~Asks(r, "wait_for_admission")
    BY <1>0, <1>1 DEF Early, PollerOK
  <2>2. ~Asks(r, "wait_for_admission")'
    BY <1>0, <2>1 DEF Asks
  <2>3. ASSUME NEW op \in DOMAIN receipts', NEW i, i = receipts'[op].outcome.id,
               op[1] = r, receipts'[op].outcome.type = "Queued", i \in DOMAIN tickets'
        PROVE  tickets'[i].polls = PollAttempts
    <3>1. CASE i = NextId
      <4>1. i \notin LiveTickets(clock)
        BY <3>1, AllowanceTypes DEF LiveTickets
      <4> QED BY <1>0, <2>3, <4>1 DEF TicketStep
    <3>2. CASE i # NextId
      <4>1. op \in DOMAIN receipts /\ receipts'[op] = receipts[op]
        BY <1>0, <2>3, <3>2 DEF ReceiptStep, Tells, Grant
      <4>2. i \in 1 .. tokenSequence
        BY <2>3, <4>1, AllowanceTypes DEF Grant
      <4>3. /\ i \in DOMAIN tickets
            /\ tickets'[i].polls = tickets[i].polls \/ m \in Unpolled(i)
        BY <2>3, <4>2, WorldFacts
      <4>4. tickets[i].polls = PollAttempts
        BY <1>0, <2>1, <2>3, <4>1, <4>3 DEF PollerOK
      <4>5. m \notin Unpolled(i)
        <5> SUFFICES ASSUME m \in Unpolled(i) PROVE FALSE
          OBVIOUS
        <5>1. m \in messages /\ m.kind = "wait_for_admission" /\ Owns(m.op[1], i)
          BY DEF Unpolled, AllowanceInv, OwnersInv
        <5>2. m.op[1] = r
          BY <2>3, <4>1, <5>1 DEF Owns, Grant
        <5> QED BY <2>1, <5>1, <5>2 DEF Asks
      <4> QED BY <4>3, <4>4, <4>5
    <3> QED BY <3>1, <3>2
  <2> QED BY <2>2, <2>3
<1>2. ASSUME NEW t, t = ticket[r], phase[r] \in {"queued", "polling"}, t \in DOMAIN tickets'
      PROVE  /\ t \in DOMAIN tickets /\ Unpolled(t)' \subseteq Unpolled(t)
             /\ t \in LiveTickets(clock)
             /\ \/ tickets'[t].polls = tickets[t].polls
                \/ /\ m \in Unpolled(t) /\ Polled(m.op, t)'
                   /\ tickets'[t].polls = tickets[t].polls - 1
  <2>1. t \in 1 .. tokenSequence
    BY <1>2, AllowanceTypes DEF ChatInv, RequestInv, WaitInv, OwnerInv
  <2> QED BY <1>2, <2>1, WorldFacts
<1>3. ASSUME phase'[r] = "queued", ticket'[r] \in DOMAIN tickets'
      PROVE  Unpolled(ticket[r])' = {} /\ Paced(r, tickets[ticket[r]].polls)'
  <2>1. PICK t : t = ticket[r]
    OBVIOUS
  <2>2. phase[r] = "queued" /\ t \in DOMAIN tickets' /\ ticket'[r] = t
    BY <1>0, <1>3, <2>1
  <2>3. t \in DOMAIN tickets /\ Unpolled(t)' \subseteq Unpolled(t)
    BY <1>2, <2>1, <2>2
  <2>4. Unpolled(t) = {} /\ Paced(r, tickets[t].polls)
    BY <1>0, <2>1, <2>2, <2>3 DEF PollerOK
  <2>5. tickets'[t].polls = tickets[t].polls
    BY <1>2, <2>1, <2>2, <2>4
  <2>6. Paced(r, tickets[t].polls)'
    BY <1>0, <2>4, <2>5 DEF Paced
  <2> QED BY <2>2, <2>3, <2>4, <2>6
<1>4. ASSUME phase'[r] = "polling"
      PROVE  /\ call'[r].kind = "wait_for_admission" /\ call'[r].args = Held(ticket[r])'
             /\ ticket'[r] \in DOMAIN tickets' =>
                  /\ \A n \in Unpolled(ticket[r])' : n.op = call'[r].op
                  /\ IF Polled(call[r].op, ticket[r])'
                     THEN Paced(r, tickets[ticket[r]].polls + 1)'
                     ELSE Paced(r, tickets[ticket[r]].polls)' /\ tickets'[ticket'[r]].polls > 0
                  /\ call'[r].reply.type = "Pending" => Polled(call[r].op, ticket[r])'
  <2>1. /\ call'[r].op = call[r].op /\ call'[r].kind = call[r].kind
        /\ call'[r].args = call[r].args /\ phase[r] = "polling"
        /\ call'[r].reply = call[r].reply
           \/ (m \in messages /\ call[r].op = m.op /\ call'[r].reply = AnswerTo(m))
    BY <1>0, <1>4 DEF WorldStep
  <2>2. PICK t : t = ticket[r]
    OBVIOUS
  <2>3. PICK c : c = call[r].op
    OBVIOUS
  <2>4. /\ call[r].kind = "wait_for_admission" /\ call[r].args = Held(t)
        /\ t \in DOMAIN tickets =>
             /\ \A n \in Unpolled(t) : n.op = c
             /\ IF Polled(c, t) THEN Paced(r, tickets[t].polls + 1)
                ELSE Paced(r, tickets[t].polls) /\ tickets[t].polls > 0
             /\ call[r].reply.type = "Pending" => Polled(c, t)
    BY <1>0, <2>1, <2>2, <2>3 DEF PollerOK
  <2>5. ASSUME t \in DOMAIN tickets'
        PROVE  /\ \A n \in Unpolled(t)' : n.op = c
               /\ IF Polled(c, t)' THEN Paced(r, tickets[t].polls + 1)'
                  ELSE Paced(r, tickets[t].polls)' /\ tickets'[t].polls > 0
               /\ call'[r].reply.type = "Pending" => Polled(c, t)'
    <3>1. /\ t \in DOMAIN tickets /\ Unpolled(t)' \subseteq Unpolled(t)
          /\ t \in LiveTickets(clock)
          /\ \/ tickets'[t].polls = tickets[t].polls
             \/ /\ m \in Unpolled(t) /\ Polled(m.op, t)'
                /\ tickets'[t].polls = tickets[t].polls - 1
      BY <1>2, <2>1, <2>2, <2>5
    <3>2. Polled(c, t) => Polled(c, t)'
      BY <3>1, WorldFacts
    <3>3. PICK n, k : n = tickets'[t].polls /\ k = tickets[t].polls /\ k \in Nat
      BY <3>1, AllowanceTypes
    <3>4. \A x : Paced(r, x) => waitEnd'[r] + PollAttempts * PollInterval
                                  <= wake'[r] + x * PollInterval + QueueWait
      BY <1>0 DEF Paced
    <3>5. IF Polled(c, t)' THEN Paced(r, tickets[t].polls + 1)'
          ELSE Paced(r, tickets[t].polls)' /\ tickets'[t].polls > 0
      <4>1. CASE n = k
        <5>1. CASE Polled(c, t)
          <6>1. Paced(r, k + 1) /\ Polled(c, t)'
            BY <2>4, <3>1, <3>2, <3>3, <5>1
          <6> QED BY <3>3, <3>4, <4>1, <6>1 DEF Paced
        <5>2. CASE ~Polled(c, t)
          <6>1. Paced(r, k) /\ k > 0
            BY <2>4, <3>1, <3>3, <5>2
          <6>2. Paced(r, k + 1)
            <7>1. (k + 1) * PollInterval = k * PollInterval + PollInterval
                  /\ k * PollInterval \in Nat
              BY <3>3, AllowanceNumbers
            <7> HIDE DEF Paced
            <7>2. waitEnd[r] \in Nat /\ wake[r] \in Nat
              BY AllowanceTypes
            <7>3. PICK a, b : a = k * PollInterval /\ b = (k + 1) * PollInterval
              OBVIOUS
            <7>4. waitEnd[r] + PollAttempts * PollInterval <= wake[r] + a + QueueWait
              BY <6>1, <7>3 DEF Paced
            <7>5. b = a + PollInterval /\ a \in Nat /\ PollAttempts * PollInterval \in Nat
              BY <7>1, <7>3, AllowanceNumbers
            <7>6. PICK z : z = PollAttempts * PollInterval
              OBVIOUS
            <7>7. waitEnd[r] + z <= wake[r] + b + QueueWait
              BY <7>2, <7>4, <7>5, <7>6, AllowanceNumbers
            <7> QED BY <7>3, <7>6, <7>7 DEF Paced
          <6> QED BY <3>3, <3>4, <4>1, <6>1, <6>2 DEF Paced
        <5> QED BY <5>1, <5>2
      <4>2. CASE m \in Unpolled(t) /\ Polled(m.op, t)' /\ n = k - 1
        <5>1. m.op = c /\ ~Polled(c, t)
          BY <2>4, <3>1, <4>2 DEF Unpolled
        <5>2. Paced(r, k) /\ n + 1 = k
          BY <2>4, <3>1, <3>3, <4>2, <5>1
        <5>3. Polled(c, t)'
          BY <4>2, <5>1
        <5>4. waitEnd'[r] + PollAttempts * PollInterval
                <= wake'[r] + (n + 1) * PollInterval + QueueWait
          BY <3>4, <5>2
        <5> QED BY <3>3, <5>3, <5>4 DEF Paced
      <4> QED BY <3>1, <3>3, <4>1, <4>2
    <3>6. ASSUME call'[r].reply.type = "Pending" PROVE Polled(c, t)'
      <4>1. CASE call'[r].reply = call[r].reply
        BY <2>4, <3>1, <3>2, <3>6, <4>1
      <4>2. CASE m \in messages /\ call[r].op = m.op /\ call'[r].reply = AnswerTo(m)
        <5>1. m.op = c /\ m.args = Held(t)
          <6>1. phase[r] \in Waiting
            BY <2>1 DEF Waiting
          <6> QED BY <2>3, <2>4, <4>2, <6>1 DEF TenureInv, DrawnInv
        <5>2. c \in DOMAIN receipts' /\ receipts'[c].outcome.type = "Pending"
          <6>1. Failure.type # "Pending"
            BY DEF Failure
          <6> QED BY <3>6, <4>2, <5>1, <6>1 DEF AnswerTo
        <5>3. \/ c \in DOMAIN receipts /\ receipts'[c] = receipts[c]
              \/ receipts'[c].outcome.id = m.args.id
          BY <1>0, <5>1, <5>2 DEF ReceiptStep, Tells
        <5>4. CASE receipts'[c].outcome.id = m.args.id
          BY <5>1, <5>2, <5>4 DEF Polled, Held
        <5>5. CASE c \in DOMAIN receipts /\ receipts'[c] = receipts[c]
          <6>0. m.kind = "wait_for_admission"
            BY <2>1, <2>3, <2>4, <4>2, <5>1 DEF TenureInv, DrawnInv, Waiting
          <6>1. receipts[c].outcome.id = receipts[c].args.id
            BY <5>2, <5>5 DEF AllowanceInv, OwnersInv
          <6>2. receipts[c].args = Held(t)
            BY <4>2, <5>1, <5>5, <6>0 DEF WorldStep
          <6> QED BY <5>2, <5>5, <6>1, <6>2 DEF Polled, Held
        <5> QED BY <5>3, <5>4, <5>5
      <4> QED BY <2>1, <4>1, <4>2
    <3> QED BY <2>4, <3>1, <3>5, <3>6
  <2> QED BY <1>0, <2>1, <2>2, <2>3, <2>4, <2>5 DEF Held
<1> QED BY <1>1, <1>3, <1>4 DEF PollerOK

LEMMA WorldRenewer ==
  ASSUME ChatInv, TenureInv, AllowanceInv, Prompt, NEW m, WorldStep(m), NEW r \in Request
  PROVE  RenewerOK(r)'
<1>0. /\ ReceiptStep(m) /\ messages' \subseteq messages
      /\ UNCHANGED <<clock, phase, lease, ticks>> /\ RenewerOK(r)
  BY DEF WorldStep, AllowanceStep, AllowanceInv, AskersInv
<1>1. ASSUME NEW i, i = lease[r], phase[r] \in {"streaming", "renewing", "sending"},
             i \in DOMAIN leases'
      PROVE  /\ i \in DOMAIN leases /\ Unspent(i)' \subseteq Unspent(i)
             /\ \/ leases'[i].renewals = leases[i].renewals
                \/ /\ m \in Unspent(i) /\ Spent(m.op)'
                   /\ leases'[i].renewals = leases[i].renewals - 1
  <2>1. HoldOK(r)
    BY DEF TenureInv, HoldInv
  <2>2. i \in 1 .. tokenSequence
    BY <1>1, <2>1, Settled2 DEF HoldOK
  <2> QED BY <1>1, <2>2, WorldFacts
<1>2. ASSUME phase'[r] \in {"idle", "admitting", "responding", "queued", "polling"}
      PROVE  ~Asks(r, "renew")'
  BY <1>0, <1>2 DEF RenewerOK, Asks
<1>3. ASSUME phase'[r] \in {"streaming", "sending"}, lease'[r] \in DOMAIN leases'
      PROVE  Unspent(lease[r])' = {}
  <2>1. PICK i : i = lease[r]
    OBVIOUS
  <2>2. lease'[r] = i /\ phase[r] \in {"streaming", "sending"} /\ i \in DOMAIN leases'
    BY <1>0, <1>3, <2>1
  <2>3. i \in DOMAIN leases /\ Unspent(i)' \subseteq Unspent(i)
    BY <1>1, <2>1, <2>2
  <2>4. Unspent(i) = {}
    BY <1>0, <2>1, <2>2, <2>3 DEF RenewerOK
  <2> QED BY <2>2, <2>3, <2>4
<1>4. ASSUME phase'[r] = "renewing", lease'[r] \in DOMAIN leases'
      PROVE  /\ \A n \in Unspent(lease[r])' : n.op = call'[r].op
             /\ call'[r].attempt = 1 /\ ~Spent(call[r].op)' =>
                  leases'[lease'[r]].renewals + ticks'[r] > RenewalTicks
             /\ call'[r].reply.type = "Renewed" =>
                  \A n \in messages' : n.op = call'[r].op => Spent(n.op)'
  <2>1. PICK i, c : i = lease[r] /\ c = call[r].op
    OBVIOUS
  <2>2. /\ lease'[r] = i /\ phase[r] = "renewing" /\ i \in DOMAIN leases'
        /\ call'[r].op = c /\ call'[r].attempt = call[r].attempt
        /\ call'[r].reply = call[r].reply
           \/ (m \in messages /\ call[r].op = m.op /\ call'[r].reply = AnswerTo(m))
    BY <1>0, <1>4, <2>1 DEF WorldStep
  <2>3. /\ i \in DOMAIN leases /\ Unspent(i)' \subseteq Unspent(i)
        /\ \/ leases'[i].renewals = leases[i].renewals
           \/ m \in Unspent(i) /\ Spent(m.op)'
    BY <1>1, <2>1, <2>2
  <2>4. /\ \A n \in Unspent(i) : n.op = c
        /\ call[r].attempt = 1 /\ ~Spent(c) => leases[i].renewals + ticks[r] > RenewalTicks
        /\ call[r].reply.type = "Renewed" => \A n \in messages : n.op = c => Spent(n.op)
    BY <1>0, <2>1, <2>2, <2>3 DEF RenewerOK
  <2>5. ASSUME call[r].attempt = 1, ~Spent(c)'
        PROVE  leases'[i].renewals + ticks[r] > RenewalTicks
    <3>1. ~Spent(c)
      <4> SUFFICES ASSUME Spent(c) PROVE FALSE
        OBVIOUS
      <4>1. /\ c \in DOMAIN receipts /\ receipts[c].outcome.type = "Renewed"
            /\ receipts[c].expires >= call[r].started + ReceiptTTL
            /\ clock <= call[r].started + CallTimeout /\ receipts[c].expires \in Nat
        <5>1. phase[r] \in Waiting
          BY <2>2 DEF Waiting
        <5>2. /\ clock <= call[r].deadline
              /\ call[r].deadline <= call[r].started + CallTimeout
              /\ c \in DOMAIN receipts => /\ receipts[c].expires >= call[r].started + ReceiptTTL
                                         /\ receipts[c].expires \in Nat
          BY <2>1, <2>5, <5>1 DEF AllowanceInv, PunctualInv
        <5> QED BY <5>2, AllowanceTypes, AllowanceNumbers DEF Spent
      <4>2. receipts[c].expires > clock
        BY <4>1, AllowanceTypes, AllowanceNumbers DEF Prompt
      <4>3. ~Fresh(c, clock)
        BY <4>1, <4>2, Stays
      <4> QED BY <1>0, <2>5, <4>1, <4>3 DEF ReceiptStep, Spent
    <3>2. m \in Unspent(i) => m.op = c
      BY <2>4
    <3> QED BY <2>3, <2>4, <2>5, <3>1, <3>2
  <2>6. ASSUME call'[r].reply.type = "Renewed", NEW n \in messages', n.op = c
        PROVE  Spent(n.op)'
    <3>1. CASE call'[r].reply = call[r].reply
      BY <1>0, <2>4, <2>6, <3>1, WorldFacts
    <3>2. CASE m \in messages /\ call[r].op = m.op /\ call'[r].reply = AnswerTo(m)
      <4>1. Failure.type # "Renewed"
        BY DEF Failure
      <4> QED BY <2>1, <2>6, <3>2, <4>1 DEF AnswerTo, Spent
    <3> QED BY <2>2, <3>1, <3>2
  <2> QED BY <1>0, <2>1, <2>2, <2>3, <2>4, <2>5, <2>6
<1> QED BY <1>2, <1>3, <1>4 DEF RenewerOK

LEMMA WorldAllowance ==
  ASSUME ChatInv, TenureInv, GrantsInv, AllowanceInv, Prompt, NEW m, WorldStep(m)
  PROVE  AllowanceInv'
<1>1. AskersInv'
  BY WorldPoller, WorldRenewer DEF AskersInv
<1> QED BY <1>1, WorldOwners, WorldPunctual, WorldTickets, WorldLeases DEF AllowanceInv

LEMMA LandAllowance ==
  ASSUME ChatInv, TenureInv, GrantsInv, AllowanceInv, Prompt, NEW m \in messages, Land(m)
  PROVE  AllowanceInv'
<1>1. /\ UNCHANGED <<clock, phase, ticket, lease, wake, waitEnd, ticks>>
      /\ messages' \subseteq messages /\ Execute(m)
  BY DEF Land
<1>2. AllowanceStep(m)
  BY <1>1, ExecuteAllowance
<1>3. \A r \in Request :
       /\ call'[r].op = call[r].op /\ call'[r].kind = call[r].kind
       /\ call'[r].args = call[r].args /\ call'[r].started = call[r].started
       /\ call'[r].deadline = call[r].deadline /\ call'[r].attempt = call[r].attempt
       /\ \/ call'[r].reply = call[r].reply
          \/ m \in messages /\ call[r].op = m.op /\ call'[r].reply = AnswerTo(m)
  BY DEF Land, Expects, ChatInv, RequestInv, CallInv, CallOK, CallField
<1>4. m.kind = "wait_for_admission" /\ m.op \in DOMAIN receipts => receipts[m.op].args = m.args
  BY <1>1 DEF Execute, WaitForAdmission, Enters, Matches
<1>5. WorldStep(m)
  BY <1>1, <1>2, <1>3, <1>4 DEF WorldStep
<1> QED BY <1>5, WorldAllowance

LEMMA ProbeAllowanceInv ==
  ASSUME ChatInv, TenureInv, GrantsInv, AllowanceInv, Prompt, Probe
  PROVE  AllowanceInv'
<1>1. PICK m : m = [kind |-> "none", op |-> 0, args |-> 0]
  OBVIOUS
<1>2. /\ UNCHANGED <<clock, phase, ticket, lease, wake, waitEnd, ticks, call>>
      /\ messages' = messages /\ CheckBudgetReadiness(clock) /\ m.kind = "none"
      /\ receipts' = ReceiptsAt(clock)
  BY <1>1 DEF Probe, requests, CheckBudgetReadiness, OnlyPrune
<1>3. AllowanceStep(m)
  BY <1>2, ProbeAllowance
<1>4. \A op \in DOMAIN receipts' : op \in DOMAIN receipts /\ receipts'[op] = receipts[op]
  BY <1>2, FoundReceipts
<1>5. WorldStep(m)
  BY <1>2, <1>3, <1>4 DEF WorldStep
<1> QED BY <1>5, WorldAllowance

-----------------------------------------------------------------------------
(* A request moves: the store and the clock stand still.                   *)

Alone(r) ==
  \A s \in Request \ {r} :
    /\ phase'[s] = phase[s] /\ call'[s] = call[s]
    /\ lease'[s] = lease[s] /\ ticket'[s] = ticket[s]
    /\ wake'[s] = wake[s] /\ waitEnd'[s] = waitEnd[s] /\ ticks'[s] = ticks[s]

LEMMA QuietTables ==
  ASSUME Quiet
  PROVE  /\ UNCHANGED <<tickets, leases, receipts, tokenSequence, clock>>
         /\ \A r, i : Owns(r, i) <=> Owns(r, i)'
         /\ \A op, i : Polled(op, i) <=> Polled(op, i)'
         /\ \A op : Spent(op) <=> Spent(op)'
<1>1. UNCHANGED <<tickets, leases, receipts, tokenSequence, clock>>
  BY DEF Quiet, vars
<1> QED BY <1>1 DEF Owns, Polled, Spent

\* What concerns the others stays, when no message is about what they hold.
LEMMA OthersAsk ==
  ASSUME Quiet, NEW r \in Request, Alone(r), AskersInv,
         NEW n, messages' = messages \/ messages' = messages \cup {n}, n.op[1] = r,
         NEW s \in Request, s # r, call[s].op[1] = s,
         n.kind = "wait_for_admission" => n.args.id # ticket[s],
         n.kind = "renew" => n.args.id # lease[s]
  PROVE  PollerOK(s)' /\ RenewerOK(s)'
<1>1. /\ UNCHANGED <<tickets, leases, receipts>>
      /\ \A op, i : Polled(op, i) <=> Polled(op, i)'
      /\ \A op : Spent(op) <=> Spent(op)'
  BY QuietTables
<1>2. /\ phase'[s] = phase[s] /\ call'[s] = call[s] /\ lease'[s] = lease[s]
      /\ ticket'[s] = ticket[s] /\ wake'[s] = wake[s] /\ waitEnd'[s] = waitEnd[s]
      /\ ticks'[s] = ticks[s]
  BY DEF Alone
<1>3. PollerOK(s) /\ RenewerOK(s)
  BY DEF AskersInv
<1>4. \A m \in messages' : m \in messages \/ m = n
  OBVIOUS
<1>5. Unpolled(ticket[s])' \subseteq Unpolled(ticket[s])
  BY <1>1, <1>2, <1>4 DEF Unpolled
<1>6. Unspent(lease[s])' \subseteq Unspent(lease[s])
  BY <1>1, <1>2, <1>4 DEF Unspent
<1>7. \A kind : ~Asks(s, kind) => ~Asks(s, kind)'
  BY <1>4 DEF Asks
<1>8. \A k : Paced(s, k) => waitEnd'[s] + PollAttempts * PollInterval
                              <= wake'[s] + k * PollInterval + QueueWait
  BY <1>2 DEF Paced
<1>9. PollerOK(s)'
  <2>1. Early(s)' => Early(s)
    BY <1>2 DEF Early
  <2>2. PICK t : t = ticket[s]
    OBVIOUS
  <2>3. PICK k : k = tickets[t].polls
    OBVIOUS
  <2>4. /\ Paced(s, k) => Paced(s, tickets[ticket[s]].polls)'
        /\ Paced(s, k + 1) => Paced(s, tickets[ticket[s]].polls + 1)'
    BY <1>1, <1>2, <1>8, <2>2, <2>3 DEF Paced
  <2>5. Early(s)' => /\ ~Asks(s, "wait_for_admission")'
                     /\ \A op \in DOMAIN receipts' :
                          op[1] = s /\ receipts'[op].outcome.type = "Queued"
                            /\ receipts'[op].outcome.id \in DOMAIN tickets' =>
                              tickets'[receipts'[op].outcome.id].polls = PollAttempts
    BY <1>1, <1>3, <1>7, <2>1 DEF PollerOK
  <2>6. phase'[s] = "queued" /\ ticket'[s] \in DOMAIN tickets' =>
          Unpolled(ticket[s])' = {} /\ Paced(s, tickets[ticket[s]].polls)'
    BY <1>1, <1>2, <1>3, <1>5, <2>2, <2>3, <2>4 DEF PollerOK
  <2>7. phase'[s] = "polling" =>
          /\ call'[s].kind = "wait_for_admission" /\ call'[s].args = Held(ticket[s])'
          /\ ticket'[s] \in DOMAIN tickets' =>
               /\ \A m \in Unpolled(ticket[s])' : m.op = call'[s].op
               /\ IF Polled(call[s].op, ticket[s])'
                  THEN Paced(s, tickets[ticket[s]].polls + 1)'
                  ELSE Paced(s, tickets[ticket[s]].polls)' /\ tickets'[ticket'[s]].polls > 0
               /\ call'[s].reply.type = "Pending" => Polled(call[s].op, ticket[s])'
    <3>1. phase[s] = "polling" =>
            /\ call[s].kind = "wait_for_admission" /\ call[s].args = Held(t)
            /\ t \in DOMAIN tickets =>
                 /\ \A m \in Unpolled(t) : m.op = call[s].op
                 /\ IF Polled(call[s].op, t) THEN Paced(s, k + 1) ELSE Paced(s, k) /\ k > 0
                 /\ call[s].reply.type = "Pending" => Polled(call[s].op, t)
      BY <1>3, <2>2, <2>3 DEF PollerOK
    <3>2. Polled(call[s].op, ticket[s])' <=> Polled(call[s].op, t)
      BY <1>1, <1>2, <2>2 DEF Polled
    <3> QED BY <1>1, <1>2, <1>5, <2>2, <2>3, <2>4, <3>1, <3>2 DEF Held
  <2> QED BY <2>5, <2>6, <2>7 DEF PollerOK
<1>10. RenewerOK(s)'
  <2>1. phase'[s] \in {"idle", "admitting", "responding", "queued", "polling"} =>
          ~Asks(s, "renew")'
    BY <1>2, <1>3, <1>7 DEF RenewerOK
  <2>2. phase'[s] \in {"streaming", "sending"} /\ lease'[s] \in DOMAIN leases' =>
          Unspent(lease[s])' = {}
    BY <1>1, <1>2, <1>3, <1>6 DEF RenewerOK
  <2>3. phase'[s] = "renewing" /\ lease'[s] \in DOMAIN leases' =>
          /\ \A m \in Unspent(lease[s])' : m.op = call'[s].op
          /\ call'[s].attempt = 1 /\ ~Spent(call[s].op)' =>
               leases'[lease'[s]].renewals + ticks'[s] > RenewalTicks
          /\ call'[s].reply.type = "Renewed" =>
               \A m \in messages' : m.op = call'[s].op => Spent(m.op)'
    <3>1. Spent(call[s].op)' <=> Spent(call[s].op)
      BY <1>1, <1>2 DEF Spent
    <3> QED BY <1>1, <1>2, <1>3, <1>4, <1>6, <3>1 DEF RenewerOK
  <2> QED BY <2>1, <2>2, <2>3 DEF RenewerOK
<1> QED BY <1>9, <1>10

\* The claims of one request only shrink.
LEMMA OwnersStay ==
  ASSUME ChatInv, TenureInv, AllowanceInv, Quiet, NEW r \in Request, Alone(r),
         \A i : Claims(r, i)' => Claims(r, i),
         \A n \in messages' : n \in messages \/
           (n.kind \in {"wait_for_admission", "renew"} => Owns(n.op[1], n.args.id))
  PROVE  OwnersInv'
<1>1. /\ UNCHANGED <<receipts, tokenSequence>>
      /\ \A s, i : Owns(s, i) <=> Owns(s, i)'
  BY QuietTables
<1>2. ASSUME NEW s \in Request, s # r, NEW i, Claims(s, i)'
      PROVE  Claims(s, i)
  BY <1>1, <1>2 DEF Claims, Hears, Alone
<1>3. \A s \in Request, i \in 1 .. tokenSequence' : Claims(s, i)' => Owns(s, i)'
  BY <1>1, <1>2 DEF AllowanceInv, OwnersInv
<1>4. \A n \in messages' :
        n.kind \in {"wait_for_admission", "renew"} => Owns(n.op[1], n.args.id)'
  BY <1>1 DEF AllowanceInv, OwnersInv
<1> QED BY <1>1, <1>3, <1>4 DEF AllowanceInv, OwnersInv

\* After a step that asks for nothing.
LEMMA RestAllowance ==
  ASSUME ChatInv, TenureInv, AllowanceInv, Quiet, NEW r \in Request, Alone(r),
         messages' = messages, phase'[r] \notin Waiting, ticks'[r] = ticks[r],
         lease'[r] = 0 \/ Claims(r, lease'[r]),
         ticket'[r] = 0 \/ Claims(r, ticket'[r]),
         PollerOK(r)', RenewerOK(r)'
  PROVE  AllowanceInv'
<1>1. /\ UNCHANGED <<tickets, leases, receipts, tokenSequence, clock>>
      /\ \A op, i : Polled(op, i) <=> Polled(op, i)'
      /\ \A op : Spent(op) <=> Spent(op)'
  BY QuietTables
<1>2. OwnersInv'
  BY RestMoves, OwnersStay
<1>3. PunctualInv'
  <2>1. \A s \in Request : phase'[s] \in Waiting => call'[s] = call[s] /\ phase'[s] = phase[s]
    BY DEF Alone
  <2> QED BY <1>1, <2>1 DEF AllowanceInv, PunctualInv
<1>4. TicketsAfford'
  BY <1>1 DEF AllowanceInv, TicketsAfford, Unpolled
<1>5. LeasesAfford'
  <2>1. \A s \in Request : ticks'[s] = ticks[s]
    BY DEF Alone
  <2>2. \A op \in DOMAIN receipts : op[1] \in Request
    BY AllowanceTypes
  <2>3. \A m \in messages : m.op[1] \in Request
    BY AllowanceTypes
  <2> QED BY <1>1, <2>1, <2>2, <2>3 DEF AllowanceInv, LeasesAfford, Unspent
<1>6. AskersInv'
  <2>1. ASSUME NEW s \in Request, s # r
        PROVE  PollerOK(s)' /\ RenewerOK(s)'
    <3>1. PICK n : n = [kind |-> "none", op |-> <<r, 0>>, args |-> <<>>]
      OBVIOUS
    <3>2. n.kind = "none" /\ n.op[1] = r
      BY <3>1
    <3>3. AskersInv /\ call[s].op[1] = s
      BY AllowanceTypes DEF AllowanceInv
    <3> QED BY <2>1, <3>2, <3>3, OthersAsk
  <2> QED BY <2>1 DEF AskersInv
<1> QED BY <1>2, <1>3, <1>4, <1>5, <1>6 DEF AllowanceInv

\* After a step that sends a call: what it is about can afford it.
Affordable(r, c) ==
  /\ c.kind \in {"wait_for_admission", "renew"} => Claims(r, c.args.id)
  /\ c.kind = "wait_for_admission" /\ c.args.id \in DOMAIN tickets /\ ~Polled(c.op, c.args.id) =>
       /\ tickets[c.args.id].polls > 0
       /\ \A m \in Unpolled(c.args.id) : m.op = c.op
  /\ c.kind = "renew" /\ c.args.id \in DOMAIN leases /\ ~Spent(c.op) =>
       /\ leases[c.args.id].renewals + ticks'[r] > RenewalTicks
       /\ \A m \in Unspent(c.args.id) : m.op = c.op
Timely(r, c) ==
  /\ clock <= c.deadline
  /\ c.attempt = 1 => c.deadline <= c.started + CallTimeout
  /\ c.op \in DOMAIN receipts =>
       /\ receipts[c.op].expires >= c.started + ReceiptTTL
       /\ receipts[c.op].expires > clock + Latency
  /\ c.kind = "wait_for_admission" => phase'[r] = "polling"
  /\ c.kind = "renew" => phase'[r] = "renewing"

LEMMA SendAllowance ==
  ASSUME ChatInv, TenureInv, AllowanceInv, Quiet, NEW r \in Request, Alone(r),
         NEW c, Sends(r, c), Affordable(r, c), Timely(r, c), call'[r] = c,
         lease'[r] \in {0, lease[r]}, ticket'[r] \in {0, ticket[r]},
         ticks'[r] \in Nat, ticks'[r] >= ticks[r],
         PollerOK(r)', RenewerOK(r)'
  PROVE  AllowanceInv'
<1>1. /\ UNCHANGED <<tickets, leases, receipts, tokenSequence, clock>>
      /\ \A op, i : Polled(op, i) <=> Polled(op, i)'
      /\ \A op : Spent(op) <=> Spent(op)'
  BY QuietTables
<1>2. PICK n : n = Message(r, c)
  OBVIOUS
<1>3. /\ messages' = messages \cup {n} /\ n.op = c.op /\ n.kind = c.kind
      /\ n.args = c.args /\ n.sent = clock /\ n.op[1] = r
  BY <1>2 DEF Sends, Send, Message
<1>4. n.kind \in {"wait_for_admission", "renew"} =>
        /\ n.args.id \in 1 .. tokenSequence /\ Owns(r, n.args.id) /\ Claims(r, n.args.id)
  BY <1>3, ClaimsIssued DEF Affordable, AllowanceInv, OwnersInv
<1>5. OwnersInv'
  <2>1. \A i : Claims(r, i)' => Claims(r, i)
    BY SendMoves
  <2> QED BY <1>3, <1>4, <2>1, OwnersStay
<1>6. PunctualInv'
  <2>1. \A s \in Request : s # r => call'[s] = call[s] /\ phase'[s] = phase[s]
    BY DEF Alone
  <2>2. \A m \in messages' : clock <= m.sent + Latency
          /\ (Spent(m.op) => receipts[m.op].expires > m.sent + Latency)
    <3>1. clock <= n.sent + Latency
            /\ (Spent(n.op) => receipts[n.op].expires > n.sent + Latency)
      BY <1>3, AllowanceTypes, AllowanceNumbers DEF Timely, Spent
    <3> QED BY <1>3, <3>1 DEF AllowanceInv, PunctualInv
  <2>3. \A op \in DOMAIN receipts : receipts[op].expires \in Nat
    BY DEF AllowanceInv, PunctualInv
  <2>4. ASSUME NEW s \in Request, phase'[s] \in Waiting
        PROVE /\ clock <= call'[s].deadline
              /\ call'[s].attempt = 1 => call'[s].deadline <= call'[s].started + CallTimeout
              /\ call'[s].op \in DOMAIN receipts =>
                   receipts[call'[s].op].expires >= call'[s].started + ReceiptTTL
              /\ call'[s].kind = "wait_for_admission" => phase'[s] = "polling"
              /\ call'[s].kind = "renew" => phase'[s] = "renewing"
    <3>1. CASE s = r
      BY <3>1 DEF Timely
    <3>2. CASE s # r
      BY <2>1, <2>4, <3>2 DEF AllowanceInv, PunctualInv
    <3> QED BY <3>1, <3>2
  <2> QED BY <1>1, <2>2, <2>3, <2>4 DEF PunctualInv
<1>7. TicketsAfford'
  <2>1. ASSUME NEW i \in DOMAIN tickets, NEW a \in Unpolled(i)', NEW b \in Unpolled(i)'
        PROVE  a.op = b.op /\ tickets[i].polls > 0
    <3>1. Unpolled(i)' \subseteq Unpolled(i) \cup {n}
      BY <1>1, <1>3 DEF Unpolled
    <3>2. n \in Unpolled(i)' => /\ tickets[i].polls > 0
                                /\ \A m \in Unpolled(i) : m.op = n.op
      BY <1>1, <1>3 DEF Unpolled, Affordable
    <3> QED BY <2>1, <3>1, <3>2 DEF AllowanceInv, TicketsAfford
  <2> QED BY <1>1, <2>1 DEF TicketsAfford
<1>8. LeasesAfford'
  <2>1. \A s \in Request : ticks'[s] >= ticks[s] /\ ticks[s] \in Nat /\ ticks'[s] \in Nat
    BY AllowanceTypes DEF Alone
  <2>2. \A op \in DOMAIN receipts :
          LET i == receipts[op].outcome.id
          IN  receipts[op].outcome.type = "Admitted" /\ i \in DOMAIN leases =>
                leases[i].renewals + ticks'[op[1]] >= RenewalTicks
    <3>1. ASSUME NEW op \in DOMAIN receipts, NEW i \in DOMAIN leases,
                 receipts[op].outcome.type = "Admitted", i = receipts[op].outcome.id
          PROVE  leases[i].renewals + ticks'[op[1]] >= RenewalTicks
      <4>1. leases[i].renewals + ticks[op[1]] >= RenewalTicks /\ op[1] \in Request
        BY <3>1, AllowanceTypes DEF AllowanceInv, LeasesAfford
      <4> QED BY <2>1, <4>1, AllowanceTypes, AllowanceNumbers
    <3> QED BY <3>1
  <2>3. ASSUME NEW i \in DOMAIN leases, NEW a \in Unspent(i)', NEW b \in Unspent(i)'
        PROVE  a.op = b.op /\ leases[i].renewals + ticks'[a.op[1]] > RenewalTicks
    <3>1. Unspent(i)' \subseteq Unspent(i) \cup {n}
      BY <1>1, <1>3 DEF Unspent
    <3>2. n \in Unspent(i)' => /\ leases[i].renewals + ticks'[r] > RenewalTicks
                               /\ \A m \in Unspent(i) : m.op = n.op
      BY <1>1, <1>3 DEF Unspent, Affordable
    <3>3. a \in Unspent(i) => leases[i].renewals + ticks[a.op[1]] > RenewalTicks /\ a.op[1] \in Request
      BY AllowanceTypes DEF AllowanceInv, LeasesAfford, Unspent
    <3>4. a \in Unspent(i) => leases[i].renewals + ticks'[a.op[1]] > RenewalTicks
      BY <2>1, <3>3, AllowanceTypes, AllowanceNumbers
    <3>5. a \in Unspent(i) /\ b \in Unspent(i) => a.op = b.op
      BY DEF AllowanceInv, LeasesAfford
    <3> QED BY <1>3, <2>3, <3>1, <3>2, <3>4, <3>5
  <2> QED BY <1>1, <2>2, <2>3 DEF LeasesAfford
<1>9. AskersInv'
  <2>1. ASSUME NEW s \in Request, s # r
        PROVE  PollerOK(s)' /\ RenewerOK(s)'
    <3>1. AskersInv /\ call[s].op[1] = s
      BY AllowanceTypes DEF AllowanceInv
    <3>2. /\ n.kind = "wait_for_admission" => n.args.id # ticket[s]
          /\ n.kind = "renew" => n.args.id # lease[s]
      <4>1. ~(Claims(r, n.args.id) /\ Claims(s, n.args.id))
        BY <2>1 DEF TenureInv, ClaimsApart
      <4>2. \A i \in 1 .. tokenSequence : i = ticket[s] \/ i = lease[s] => Claims(s, i)
        BY DEF Claims
      <4> QED BY <1>4, <4>1, <4>2
    <3> QED BY <1>3, <2>1, <3>1, <3>2, OthersAsk
  <2> QED BY <2>1 DEF AskersInv
<1> QED BY <1>5, <1>6, <1>7, <1>8, <1>9 DEF AllowanceInv

-----------------------------------------------------------------------------
(* The steps of a request that ask for nothing.                            *)

LEMMA AloneFacts ==
  ASSUME ChatInv, NEW r \in Request, EndCall(r) \/ NoCall,
         NEW p, phase' = [phase EXCEPT ![r] = p], ticks' = ticks,
         waitEnd' = waitEnd \/ (\E e : waitEnd' = [waitEnd EXCEPT ![r] = e]),
         wake' = wake \/ (\E e : wake' = [wake EXCEPT ![r] = e]),
         lease' = lease \/ (\E e : lease' = [lease EXCEPT ![r] = e]),
         ticket' = ticket \/ (\E e : ticket' = [ticket EXCEPT ![r] = e])
  PROVE  /\ Quiet /\ Alone(r) /\ messages' = messages
         /\ phase'[r] = p /\ ticks'[r] = ticks[r]
<1>1. Quiet /\ messages' = messages
  BY DEF EndCall, NoCall, Quiet
<1>2. phase'[r] = p /\ \A s \in Request \ {r} : phase'[s] = phase[s]
  BY DEF ChatInv, RequestInv, CallInv
<1>3. \A s \in Request \ {r} : call'[s] = call[s]
  BY DEF EndCall, NoCall, Set, ChatInv, RequestInv, CallInv
<1>4. \A s \in Request \ {r} :
        lease'[s] = lease[s] /\ ticket'[s] = ticket[s]
  BY DEF ChatInv, RequestInv, OwnerInv
<1>5. \A s \in Request \ {r} :
        wake'[s] = wake[s] /\ waitEnd'[s] = waitEnd[s] /\ ticks'[s] = ticks[s]
  BY DEF ChatInv, RequestInv, TimerInv
<1> QED BY <1>1, <1>2, <1>3, <1>4, <1>5 DEF Alone

\* Once the response is over, the request polls and renews no more.
LEMMA OverAllowance ==
  ASSUME ChatInv, TenureInv, AllowanceInv, Quiet, NEW r \in Request, Alone(r),
         messages' = messages, phase'[r] \in {"closing", "done"}, ticks'[r] = ticks[r],
         lease'[r] \in {0, lease[r]}, ticket'[r] \in {0, ticket[r]}
  PROVE  AllowanceInv'
<1>1. phase'[r] \notin Waiting
  BY DEF Waiting
<1>2. PollerOK(r)' /\ RenewerOK(r)'
  BY DEF PollerOK, RenewerOK, Early
<1>3. /\ lease'[r] = 0 \/ Claims(r, lease'[r])
      /\ ticket'[r] = 0 \/ Claims(r, ticket'[r])
  BY DEF Claims
<1> QED BY <1>1, <1>2, <1>3, RestAllowance

LEMMA EndAllowance ==
  ASSUME ChatInv, TenureInv, AllowanceInv, NEW r \in Request,
         EndCall(r) \/ NoCall, UNCHANGED <<lease, wake, waitEnd, ticks>>,
         ticket' = ticket \/ ticket' = [ticket EXCEPT ![r] = 0],
         \E p \in {"closing", "done"} : phase' = [phase EXCEPT ![r] = p]
  PROVE  AllowanceInv'
<1>1. PICK p \in {"closing", "done"} : phase' = [phase EXCEPT ![r] = p]
  OBVIOUS
<1>2. /\ Quiet /\ Alone(r) /\ messages' = messages
      /\ phase'[r] = p /\ ticks'[r] = ticks[r]
  BY <1>1, AloneFacts
<1>3. lease'[r] \in {0, lease[r]} /\ ticket'[r] \in {0, ticket[r]}
  BY DEF ChatInv, RequestInv, OwnerInv
<1> QED BY <1>1, <1>2, <1>3, OverAllowance

\* While the request has not asked for anything about what it is granted, no
\* one has.
LEMMA NothingAsked ==
  ASSUME ChatInv, TenureInv, GrantsInv, AllowanceInv, NEW r \in Request, NEW i,
         Claims(r, i)
  PROVE  /\ i \in DOMAIN tickets /\ ~Asks(r, "wait_for_admission") => Unpolled(i) = {}
         /\ i \in DOMAIN leases /\ ~Asks(r, "renew") => Unspent(i) = {}
<1>1. Owns(r, i)
  BY ClaimsIssued DEF AllowanceInv, OwnersInv
<1>2. ASSUME NEW m \in messages, m.kind \in {"wait_for_admission", "renew"}, m.args.id = i,
             i \in DOMAIN tickets \/ i \in DOMAIN leases
      PROVE  m.op[1] = r
  <2>1. PICK s : s = m.op[1]
    OBVIOUS
  <2>2. Owns(s, i)
    BY <1>2, <2>1 DEF AllowanceInv, OwnersInv
  <2> QED BY <1>1, <1>2, <2>1, <2>2, SameOwner
<1> QED BY <1>2 DEF Unpolled, Unspent, Asks

LEMMA AdmissionAllowance ==
  ASSUME ChatInv, TenureInv, AllowanceInv, NEW r \in Request, AdmissionAnswered(r)
  PROVE  AllowanceInv'
<1>1. EndCall(r) /\ UNCHANGED <<wake, waitEnd, ticks>>
  BY DEF AdmissionAnswered
<1>2. PICK outcome \in {call[r].reply, Failure} :
    /\ call[r].kind = "admit_or_enqueue"
    /\ \/ /\ outcome.type = "Admitted"
          /\ \/ Set(lease, r, outcome.id) /\ Set(phase, r, "responding")
             \/ Set(phase, r, "done") /\ UNCHANGED lease
          /\ UNCHANGED ticket
       \/ /\ outcome.type = "Queued"
          /\ Set(ticket, r, outcome.id) /\ Set(phase, r, "responding")
          /\ UNCHANGED lease
       \/ /\ outcome.type \in {"Denied", "Failure"}
          /\ Set(phase, r, "done")
          /\ UNCHANGED <<ticket, lease>>
  BY DEF AdmissionAnswered, Answered
<1>3. phase[r] = "admitting" /\ lease[r] = 0 /\ ticket[r] = 0
  BY <1>2 DEF TenureInv, HoldInv, HoldOK
<1>4. outcome.type # "Failure" => Hears(r, outcome)
  <2>1. phase[r] \in Waiting
    BY <1>3 DEF Waiting
  <2> QED BY <2>1, AnswerHeard
<1>5. CASE phase' = [phase EXCEPT ![r] = "done"] /\ UNCHANGED <<ticket, lease>>
  BY <1>1, <1>5, EndAllowance
<1>6. CASE /\ outcome.type \in Grant /\ phase' = [phase EXCEPT ![r] = "responding"]
           /\ \/ ticket' = ticket /\ lease' = [lease EXCEPT ![r] = outcome.id]
              \/ lease' = lease /\ ticket' = [ticket EXCEPT ![r] = outcome.id]
  <2>1. PICK i : i = outcome.id
    OBVIOUS
  <2>2. PICK p : p = "responding" /\ phase' = [phase EXCEPT ![r] = p]
    BY <1>6
  <2>3. /\ Quiet /\ Alone(r) /\ messages' = messages
        /\ phase'[r] = p /\ ticks'[r] = ticks[r]
    BY <1>1, <1>6, <2>1, <2>2, AloneFacts
  <2>4. /\ lease'[r] \in {0, i} /\ ticket'[r] \in {0, i}
    BY <1>3, <1>6, <2>1 DEF ChatInv, RequestInv, OwnerInv
  <2>5. Claims(r, i)
    <3>1. outcome.type # "Failure"
      BY <1>6 DEF Grant
    <3> QED BY <1>4, <1>6, <2>1, <3>1 DEF Claims
  <2>6. p \notin Waiting
    BY <2>2 DEF Waiting
  <2>7. Early(r) /\ PollerOK(r) /\ RenewerOK(r)
    BY <1>3 DEF Early, AllowanceInv, AskersInv
  <2>8. PollerOK(r)'
    <3>1. ~Asks(r, "wait_for_admission")'
      BY <2>3, <2>7 DEF PollerOK, Asks
    <3>2. \A op \in DOMAIN receipts' :
            op[1] = r /\ receipts'[op].outcome.type = "Queued"
              /\ receipts'[op].outcome.id \in DOMAIN tickets' =>
                tickets'[receipts'[op].outcome.id].polls = PollAttempts
      BY <2>3, <2>7, QuietTables DEF PollerOK
    <3>3. phase'[r] # "queued" /\ phase'[r] # "polling"
      BY <2>2, <2>3
    <3> QED BY <3>1, <3>2, <3>3 DEF PollerOK
  <2>9. RenewerOK(r)'
    <3>1. ~Asks(r, "renew")'
      BY <1>3, <2>3, <2>7 DEF RenewerOK, Asks
    <3> QED BY <2>2, <2>3, <3>1 DEF RenewerOK
  <2>10. (lease'[r] = 0 \/ Claims(r, lease'[r])) /\ (ticket'[r] = 0 \/ Claims(r, ticket'[r]))
    BY <2>4, <2>5
  <2>11. phase'[r] \notin Waiting
    BY <2>3, <2>6
  <2> QED BY ONLY ChatInv, TenureInv, AllowanceInv, r \in Request, <2>3, <2>8, <2>9, <2>10,
            <2>11, RestAllowance
<1> QED BY <1>1, <1>2, <1>5, <1>6 DEF Set, Grant

LEMMA WaitAllowance ==
  ASSUME ChatInv, TenureInv, GrantsInv, AllowanceInv, NEW r \in Request, BeginWait(r)
  PROVE  AllowanceInv'
<1>1. /\ phase[r] = "responding" /\ ticket[r] # 0 /\ NoCall
      /\ UNCHANGED <<ticket, lease, ticks>>
      /\ phase' = [phase EXCEPT ![r] = "queued"]
      /\ waitEnd' = [waitEnd EXCEPT ![r] = clock + QueueWait]
      /\ wake' = [wake EXCEPT ![r] = clock]
  BY DEF BeginWait, Set
<1>2. PICK p : p = "queued" /\ phase' = [phase EXCEPT ![r] = p]
  BY <1>1
<1>3. /\ Quiet /\ Alone(r) /\ messages' = messages
      /\ phase'[r] = p /\ ticks'[r] = ticks[r]
  BY <1>1, <1>2, AloneFacts
<1>4. Early(r) /\ PollerOK(r) /\ RenewerOK(r)
  BY <1>1 DEF Early, AllowanceInv, AskersInv
<1>5. waitEnd'[r] = clock + QueueWait /\ wake'[r] = clock /\ ticket'[r] = ticket[r]
      /\ lease'[r] = lease[r]
  BY <1>1 DEF ChatInv, RequestInv, TimerInv
<1>6. PICK t : t = ticket[r]
  OBVIOUS
<1>7. Claims(r, t)
  BY <1>1, <1>6 DEF Claims
<1>8. PollerOK(r)'
  <2>1. ~Early(r)' /\ phase'[r] # "polling"
    BY <1>2, <1>3 DEF Early
  <2>2. ASSUME t \in DOMAIN tickets
        PROVE  Unpolled(t) = {} /\ tickets[t].polls = PollAttempts
    <3>1. Unpolled(t) = {}
      BY <1>4, <1>7, <2>2, NothingAsked DEF PollerOK
    <3>2. OnRecord("Queued", t)
      BY <2>2 DEF GrantsInv
    <3>3. PICK op \in DOMAIN receipts : GrantsOf("Queued", t) = {op}
      BY <3>2 DEF OnRecord
    <3>4. receipts[op].outcome.type = "Queued" /\ receipts[op].outcome.id = t
      BY <3>3 DEF GrantsOf
    <3>5. op[1] = r
      BY <1>7, <3>4, ClaimsIssued DEF AllowanceInv, OwnersInv, Owns, Grant
    <3> QED BY <1>4, <2>2, <3>1, <3>4, <3>5 DEF PollerOK
  <2>3. ASSUME t \in DOMAIN tickets
        PROVE  Paced(r, tickets[t].polls)'
    <3>1. tickets'[t].polls = PollAttempts
      BY <1>3, <2>2, <2>3, QuietTables
    <3>2. PICK z : z = PollAttempts * PollInterval
      OBVIOUS
    <3>3. z \in Nat /\ clock \in Nat /\ QueueWait \in Nat
      BY <3>2, AllowanceNumbers, AllowanceTypes
    <3>4. waitEnd'[r] + z <= wake'[r] + z + QueueWait
      BY <1>5, <3>3
    <3> QED BY <3>1, <3>2, <3>4 DEF Paced
  <2>4. Unpolled(t)' = Unpolled(t) /\ tickets' = tickets /\ ticket'[r] = t
    BY <1>3, <1>5, <1>6, QuietTables DEF Unpolled
  <2> QED BY <2>1, <2>2, <2>3, <2>4 DEF PollerOK
<1>9. RenewerOK(r)'
  <2>1. ~Asks(r, "renew")'
    BY <1>1, <1>3, <1>4 DEF RenewerOK, Asks
  <2> QED BY <1>2, <1>3, <2>1 DEF RenewerOK
<1>10. (lease'[r] = 0 \/ Claims(r, lease'[r])) /\ (ticket'[r] = 0 \/ Claims(r, ticket'[r]))
  BY <1>5 DEF Claims
<1>11. phase'[r] \notin Waiting
  BY <1>2, <1>3 DEF Waiting
<1> QED BY ONLY ChatInv, TenureInv, AllowanceInv, r \in Request, <1>3, <1>8, <1>9, <1>10,
          <1>11, RestAllowance

LEMMA NextPollLater ==
  ASSUME ChatInv, NEW r \in Request
  PROVE  NextPoll(r) \in Nat /\ NextPoll(r) >= wake[r] + PollInterval
<1>1. NextPoll(r) \in Nat /\ wake[r] \in Nat /\ PollInterval \in Nat
  BY NextPollNat, Settled2, Timing DEF ChatInv, RequestInv
<1>2. PICK x : NextPoll(r) = Greater(wake[r] + PollInterval, x)
  BY DEF NextPoll
<1>3. PICK n : n = NextPoll(r)
  OBVIOUS
<1>4. n = Greater(wake[r] + PollInterval, x) /\ n \in Nat
  BY <1>1, <1>2, <1>3
<1>5. wake[r] + PollInterval >= x \/ ~(wake[r] + PollInterval >= x)
  OBVIOUS
<1>6. CASE wake[r] + PollInterval >= x
  BY <1>1, <1>3, <1>4, <1>6 DEF Greater
<1>7. CASE ~(wake[r] + PollInterval >= x)
  <2>1. n = x
    BY <1>4, <1>7 DEF Greater
  <2> QED BY <1>1, <1>3, <1>4, <1>7, <2>1
<1> QED BY <1>6, <1>7

LEMMA PollAnswerAllowance ==
  ASSUME ChatInv, TenureInv, AllowanceInv, NEW r \in Request, PollAnswer(r)
  PROVE  AllowanceInv'
<1>1. EndCall(r) /\ phase[r] = "polling" /\ UNCHANGED <<waitEnd, ticks>>
  BY DEF PollAnswer
<1>2. PICK outcome \in {call[r].reply, Failure} :
        \/ PollPendingAnswered(r, outcome)
        \/ PollAdmittedAnswered(r, outcome)
        \/ PollRefusedAnswered(r, outcome)
  BY DEF PollAnswer
<1>3. phase[r] \in Waiting
  BY <1>1 DEF Waiting
<1>4. outcome.type # "Failure" => Hears(r, outcome)
  BY <1>3, AnswerHeard
<1>5. PollerOK(r) /\ RenewerOK(r)
  BY DEF AllowanceInv, AskersInv
<1>6. CASE PollPendingAnswered(r, outcome)
  <2>1. PICK w, p : w = NextPoll(r) /\ p = "queued"
    OBVIOUS
  <2>2. /\ outcome.type = "Pending" /\ wake' = [wake EXCEPT ![r] = w]
        /\ phase' = [phase EXCEPT ![r] = p] /\ UNCHANGED <<ticket, lease>>
    BY <1>6, <2>1 DEF PollPendingAnswered, Set
  <2>3. /\ Quiet /\ Alone(r) /\ messages' = messages
        /\ phase'[r] = p /\ ticks'[r] = ticks[r]
    BY <1>1, <2>2, AloneFacts
  <2>4. call[r].reply.type = "Pending"
    BY <2>2 DEF Failure
  <2>5. /\ wake'[r] = w /\ waitEnd'[r] = waitEnd[r]
        /\ w \in Nat /\ w >= wake[r] + PollInterval
        /\ wake[r] \in Nat /\ waitEnd[r] \in Nat
    BY <1>1, <2>1, <2>2, NextPollLater, AllowanceTypes DEF ChatInv, RequestInv, TimerInv
  <2>6. PICK t : t = ticket[r]
    OBVIOUS
  <2>7. ASSUME t \in DOMAIN tickets
        PROVE  Unpolled(t) = {} /\ Paced(r, tickets[t].polls + 1)
    BY <1>1, <1>5, <2>4, <2>6, <2>7 DEF PollerOK, Unpolled
  <2>8. /\ tickets' = tickets /\ ticket'[r] = t /\ Unpolled(t)' = Unpolled(t)
    BY <2>2, <2>3, <2>6, QuietTables DEF Unpolled
  <2>9. ASSUME t \in DOMAIN tickets
        PROVE  Paced(r, tickets[t].polls)'
    <3>1. PICK k : k = tickets[t].polls
      OBVIOUS
    <3>2. k \in Nat
      BY <2>9, <3>1, AllowanceTypes
    <3>3. PICK z, a, b : z = PollAttempts * PollInterval /\ a = k * PollInterval
                         /\ b = (k + 1) * PollInterval
      OBVIOUS
    <3>4. a \in Nat /\ b = a + PollInterval /\ z \in Nat
      BY <3>2, <3>3, AllowanceNumbers
    <3>5. waitEnd[r] + z <= wake[r] + b + QueueWait
      BY <2>7, <2>9, <3>1, <3>3 DEF Paced
    <3>6. waitEnd'[r] + z <= wake'[r] + a + QueueWait
      BY <2>5, <3>4, <3>5, AllowanceNumbers
    <3>7. tickets'[t].polls = k
      BY <2>8, <3>1
    <3> QED BY <3>3, <3>6, <3>7 DEF Paced
  <2>10. PollerOK(r)'
    <3>1. ~Early(r)' /\ phase'[r] # "polling"
      BY <2>1, <2>3 DEF Early
    <3> QED BY <2>7, <2>8, <2>9, <3>1 DEF PollerOK
  <2>11. RenewerOK(r)'
    <3>1. ~Asks(r, "renew")'
      BY <1>1, <1>5, <2>3 DEF RenewerOK, Asks
    <3> QED BY <2>1, <2>3, <3>1 DEF RenewerOK
  <2>12. (lease'[r] = 0 \/ Claims(r, lease'[r])) /\ (ticket'[r] = 0 \/ Claims(r, ticket'[r]))
    BY <2>2 DEF Claims
  <2>13. phase'[r] \notin Waiting
    BY <2>1, <2>3 DEF Waiting
  <2> QED BY ONLY ChatInv, TenureInv, AllowanceInv, r \in Request, <2>3, <2>10, <2>11, <2>12,
            <2>13, RestAllowance
<1>7. CASE /\ outcome.type = "Admitted" /\ phase' = [phase EXCEPT ![r] = "responding"]
           /\ ticket' = [ticket EXCEPT ![r] = 0] /\ wake' = wake
           /\ lease' = [lease EXCEPT ![r] = outcome.id]
  <2>1. PICK i, p : i = outcome.id /\ p = "responding"
    OBVIOUS
  <2>2. /\ Quiet /\ Alone(r) /\ messages' = messages
        /\ phase'[r] = p /\ ticks'[r] = ticks[r]
    BY <1>1, <1>7, <2>1, AloneFacts
  <2>3. lease'[r] = i /\ ticket'[r] = 0
    BY <1>7, <2>1 DEF ChatInv, RequestInv, OwnerInv
  <2>4. Claims(r, i)
    BY <1>4, <1>7, <2>1 DEF Claims, Grant
  <2>5. PollerOK(r)'
    BY <2>1, <2>2, <2>3 DEF PollerOK, Early
  <2>6. RenewerOK(r)'
    <3>1. ~Asks(r, "renew")'
      BY <1>1, <1>5, <2>2 DEF RenewerOK, Asks
    <3> QED BY <2>1, <2>2, <3>1 DEF RenewerOK
  <2>7. (lease'[r] = 0 \/ Claims(r, lease'[r])) /\ (ticket'[r] = 0 \/ Claims(r, ticket'[r]))
    BY <2>3, <2>4
  <2>8. phase'[r] \notin Waiting
    BY <2>1, <2>2 DEF Waiting
  <2> QED BY ONLY ChatInv, TenureInv, AllowanceInv, r \in Request, <2>2, <2>5, <2>6, <2>7,
            <2>8, RestAllowance
<1>8. CASE /\ phase' = [phase EXCEPT ![r] = "closing"] /\ UNCHANGED <<lease, wake>>
           /\ ticket' = ticket \/ ticket' = [ticket EXCEPT ![r] = 0]
  BY <1>1, <1>8, EndAllowance
<1>9. CASE PollAdmittedAnswered(r, outcome) \/ PollRefusedAnswered(r, outcome)
  BY <1>7, <1>8, <1>9 DEF PollAdmittedAnswered, PollRefusedAnswered, Set
<1> QED BY <1>2, <1>6, <1>9

\* A stream's next fetch, with nothing asked for about its lease.
LEMMA StreamAllowance ==
  ASSUME ChatInv, TenureInv, AllowanceInv, NEW r \in Request,
         EndCall(r) \/ NoCall, UNCHANGED <<ticket, lease, waitEnd, ticks>>,
         wake' = wake \/ \E e : wake' = [wake EXCEPT ![r] = e],
         NEW p \in {"streaming", "sending"}, phase' = [phase EXCEPT ![r] = p],
         lease[r] \in DOMAIN leases => Unspent(lease[r]) = {}
  PROVE  AllowanceInv'
<1>1. /\ Quiet /\ Alone(r) /\ messages' = messages
      /\ phase'[r] = p /\ ticks'[r] = ticks[r]
  BY AloneFacts
<1>2. PollerOK(r)'
  BY <1>1 DEF PollerOK, Early
<1>3. RenewerOK(r)'
  <2>1. Unspent(lease[r])' = Unspent(lease[r]) /\ lease'[r] = lease[r] /\ leases' = leases
    BY <1>1, QuietTables DEF Unspent
  <2> QED BY <1>1, <2>1 DEF RenewerOK
<1>4. (lease'[r] = 0 \/ Claims(r, lease'[r])) /\ (ticket'[r] = 0 \/ Claims(r, ticket'[r]))
  BY DEF Claims
<1>5. phase'[r] \notin Waiting
  BY <1>1 DEF Waiting
<1> QED BY ONLY ChatInv, TenureInv, AllowanceInv, r \in Request, <1>1, <1>2, <1>3, <1>4, <1>5,
          RestAllowance

LEMMA FetchAllowance ==
  ASSUME ChatInv, TenureInv, GrantsInv, AllowanceInv, NEW r \in Request,
         BeginStream(r) \/ Produce(r) \/ Resume(r) \/ LeaseEnds(r)
  PROVE  AllowanceInv'
<1>1. /\ NoCall /\ UNCHANGED <<ticket, lease, waitEnd, ticks>>
      /\ phase[r] \in {"responding", "streaming", "sending"}
      /\ phase[r] = "responding" => lease[r] # 0
  BY DEF BeginStream, Produce, Resume, LeaseEnds
<1>2. RenewerOK(r)
  BY DEF AllowanceInv, AskersInv
<1>3. ASSUME lease[r] \in DOMAIN leases PROVE Unspent(lease[r]) = {}
  <2>1. CASE phase[r] = "responding"
    <3>1. Claims(r, lease[r])
      BY <1>1, <2>1 DEF Claims
    <3> QED BY <1>2, <1>3, <2>1, <3>1, NothingAsked DEF RenewerOK
  <2> QED BY <1>1, <1>2, <1>3, <2>1 DEF RenewerOK
<1>4. CASE \E p \in {"streaming", "sending"} : phase' = [phase EXCEPT ![r] = p]
  <2>1. wake' = wake \/ \E e : wake' = [wake EXCEPT ![r] = e]
    BY DEF BeginStream, Produce, Resume, LeaseEnds, Set
  <2> QED BY <1>1, <1>3, <1>4, <2>1, StreamAllowance
<1>5. CASE phase' = [phase EXCEPT ![r] = "closing"]
  <2>1. wake' = wake
    <3>1. "closing" # "streaming" /\ DOMAIN phase = Request
      BY DEF ChatInv, RequestInv, CallInv
    <3> QED BY <1>5, <3>1 DEF BeginStream, Produce, Resume, LeaseEnds, Set
  <2> QED BY <1>1, <1>5, <2>1, EndAllowance
<1> QED BY <1>4, <1>5 DEF BeginStream, Produce, Resume, LeaseEnds, Set

LEMMA RenewalAnswerAllowance ==
  ASSUME ChatInv, TenureInv, AllowanceInv, NEW r \in Request, RenewalAnswer(r)
  PROVE  AllowanceInv'
<1>1. EndCall(r) /\ UNCHANGED <<ticket, lease, waitEnd, ticks>> /\ phase[r] = "renewing"
  BY DEF RenewalAnswer
<1>2. PICK outcome \in {call[r].reply, Failure} :
        RenewalGranted(r, outcome) \/ RenewalFailed(r, outcome)
  BY DEF RenewalAnswer
<1>3. CASE RenewalGranted(r, outcome)
  <2>1. call[r].reply.type = "Renewed"
    BY <1>3 DEF RenewalGranted, Extends, Failure
  <2>2. ASSUME lease[r] \in DOMAIN leases PROVE Unspent(lease[r]) = {}
    BY <1>1, <2>1, <2>2 DEF AllowanceInv, AskersInv, RenewerOK, Unspent
  <2>3. PICK t : t = clock + Lesser(LeaseRenew, Greater(0, Extended(r, outcome) - clock))
    OBVIOUS
  <2>4. PICK p \in {"streaming", "sending"} : p = "streaming"
    OBVIOUS
  <2>5. wake' = [wake EXCEPT ![r] = t] /\ phase' = [phase EXCEPT ![r] = p]
    BY <1>3, <2>3, <2>4 DEF RenewalGranted, Set
  <2> QED BY <1>1, <2>2, <2>5, StreamAllowance
<1>4. CASE RenewalFailed(r, outcome)
  <2>1. phase' = [phase EXCEPT ![r] = "closing"] /\ UNCHANGED wake
    BY <1>4 DEF RenewalFailed, Set
  <2> QED BY <1>1, <2>1, EndAllowance
<1> QED BY <1>2, <1>3, <1>4

LEMMA LastAllowance ==
  ASSUME ChatInv, TenureInv, AllowanceInv, NEW r \in Request,
         WaitEnds(r) \/ Settled(r) \/ Cancelled(r)
  PROVE  AllowanceInv'
<1>1. EndCall(r) /\ UNCHANGED <<lease, ticket, wake, waitEnd, ticks>>
  BY DEF WaitEnds, Settled, Cancelled
<1>2. \E p \in {"closing", "done"} : phase' = [phase EXCEPT ![r] = p]
  BY DEF WaitEnds, Settled, Cancelled, Set
<1> QED BY <1>1, <1>2, EndAllowance

\* Steps of no request, and of its provider attempts.
LEMMA StillAllowance ==
  ASSUME AllowanceInv, UNCHANGED vars, messages' \subseteq messages,
         UNCHANGED <<phase, call, ticket, lease, wake, waitEnd, ticks>>,
         PunctualInv'
  PROVE  AllowanceInv'
<1>1. UNCHANGED <<tickets, leases, receipts, tokenSequence>>
  BY DEF vars
<1>2. /\ \A op, i : Polled(op, i)' <=> Polled(op, i)
      /\ \A op : Spent(op)' <=> Spent(op)
      /\ \A r, i : Owns(r, i)' <=> Owns(r, i)
      /\ \A r, i : Claims(r, i)' <=> Claims(r, i)
  BY <1>1 DEF Polled, Spent, Owns, Claims, Hears
<1>3. /\ \A i : Unpolled(i)' \subseteq Unpolled(i)
      /\ \A i : Unspent(i)' \subseteq Unspent(i)
      /\ \A r, kind : Asks(r, kind)' => Asks(r, kind)
      /\ \A r : Early(r)' <=> Early(r)
      /\ \A r, k : Paced(r, k)' <=> waitEnd[r] + PollAttempts * PollInterval
                                      <= wake[r] + k * PollInterval + QueueWait
  BY <1>2 DEF Unpolled, Unspent, Asks, Early, Paced
<1>4. OwnersInv'
  BY <1>1, <1>2 DEF AllowanceInv, OwnersInv
<1>5. TicketsAfford' /\ LeasesAfford'
  BY <1>1, <1>3 DEF AllowanceInv, TicketsAfford, LeasesAfford
<1>6. ASSUME NEW r \in Request PROVE PollerOK(r)'
  <2>1. PollerOK(r)
    BY DEF AllowanceInv, AskersInv
  <2>2. PICK t, k, c : t = ticket[r] /\ k = tickets[t].polls /\ c = call[r].op
    OBVIOUS
  <2>3. /\ tickets'[ticket'[r]].polls = k /\ ticket'[r] = t /\ call'[r].op = c
        /\ Paced(r, tickets[ticket[r]].polls)' <=> Paced(r, k)
        /\ Paced(r, tickets[ticket[r]].polls + 1)' <=> Paced(r, k + 1)
        /\ Unpolled(ticket[r])' \subseteq Unpolled(t)
        /\ Polled(call[r].op, ticket[r])' <=> Polled(c, t)
    BY <1>1, <1>2, <1>3, <2>2 DEF Paced
  <2>4. Early(r)' => /\ ~Asks(r, "wait_for_admission")'
                     /\ \A op \in DOMAIN receipts' :
                          op[1] = r /\ receipts'[op].outcome.type = "Queued"
                            /\ receipts'[op].outcome.id \in DOMAIN tickets' =>
                              tickets'[receipts'[op].outcome.id].polls = PollAttempts
    BY <1>1, <1>3, <2>1 DEF PollerOK
  <2>5. phase'[r] = "queued" /\ ticket'[r] \in DOMAIN tickets' =>
          Unpolled(ticket[r])' = {} /\ Paced(r, tickets[ticket[r]].polls)'
    BY <1>1, <2>1, <2>2, <2>3 DEF PollerOK
  <2>6. phase'[r] = "polling" =>
          /\ call'[r].kind = "wait_for_admission" /\ call'[r].args = Held(ticket[r])'
          /\ ticket'[r] \in DOMAIN tickets' =>
               /\ \A m \in Unpolled(ticket[r])' : m.op = call'[r].op
               /\ IF Polled(call[r].op, ticket[r])'
                  THEN Paced(r, tickets[ticket[r]].polls + 1)'
                  ELSE Paced(r, tickets[ticket[r]].polls)' /\ tickets'[ticket'[r]].polls > 0
               /\ call'[r].reply.type = "Pending" => Polled(call[r].op, ticket[r])'
    BY <1>1, <2>1, <2>2, <2>3 DEF PollerOK, Held
  <2> QED BY <2>4, <2>5, <2>6 DEF PollerOK
<1>7. ASSUME NEW r \in Request PROVE RenewerOK(r)'
  BY <1>1, <1>2, <1>3 DEF AllowanceInv, AskersInv, RenewerOK
<1> QED BY <1>4, <1>5, <1>6, <1>7 DEF AllowanceInv, AskersInv

LEMMA TickAllowance ==
  ASSUME ChatInv, TenureInv, AllowanceInv, Tick
  PROVE  AllowanceInv'
<1>1. /\ UNCHANGED vars /\ clock' = clock + 1
      /\ UNCHANGED <<phase, call, ticket, lease, wake, waitEnd, ticks>>
      /\ messages' = {m \in messages : m.sent + Latency >= clock'}
      /\ \A r \in Request : ~TimerDue(r)
  BY DEF Tick, requests
<1>2. receipts' = receipts /\ \A op : Spent(op)' <=> Spent(op)
  BY <1>1 DEF vars, Spent
<1>3. \A m \in messages' : /\ m \in messages /\ m.sent \in Nat
                           /\ clock' <= m.sent + Latency
  BY <1>1, AllowanceTypes, AllowanceNumbers
<1>4. ASSUME NEW r \in Request, phase[r] \in Waiting
      PROVE  clock' <= call[r].deadline
  <2>1. ~(call[r].deadline <= clock)
    BY <1>1, <1>4 DEF TimerDue
  <2> QED BY <1>1, <2>1, AllowanceTypes
<1>5. PunctualInv'
  BY <1>1, <1>2, <1>3, <1>4 DEF AllowanceInv, PunctualInv
<1> QED BY <1>1, <1>5, StillAllowance

LEMMA QuietAllowance ==
  ASSUME AllowanceInv, Quiet,
         UNCHANGED <<messages, phase, call, ticket, lease, wake, waitEnd, ticks>>
  PROVE  AllowanceInv'
<1>1. UNCHANGED vars /\ clock' = clock
  BY DEF Quiet
<1>2. PunctualInv'
  BY <1>1 DEF vars, Spent, AllowanceInv, PunctualInv
<1> QED BY <1>1, <1>2, StillAllowance

-----------------------------------------------------------------------------
(* The steps of a request that ask.                                        *)

\* A call that is sent under a new id, and the message it becomes.
Asked(r, kind, args, c, n) ==
  /\ Sends(r, c) /\ call'[r] = c
  /\ c.kind = kind /\ c.args = args /\ c.attempt = 1 /\ c.reply = NoReply
  /\ c.op \notin DOMAIN receipts
  /\ clock <= c.deadline /\ c.deadline <= c.started + CallTimeout
  /\ messages' = messages \cup {n}
  /\ n.op = c.op /\ n.op[1] = r /\ n.kind = kind /\ n.args = args
LEMMA AskFacts ==
  ASSUME ChatInv, TenureInv, Quiet, NEW r \in Request,
         NEW kind, NEW args, NEW overall \in Nat, Ask(r, kind, args, overall),
         clock <= overall,
         NEW p \in Waiting, phase' = [phase EXCEPT ![r] = p],
         wake' = wake, waitEnd' = waitEnd,
         ticks' = ticks \/ (\E e : ticks' = [ticks EXCEPT ![r] = e]),
         lease' = lease \/ lease' = [lease EXCEPT ![r] = 0],
         ticket' = ticket \/ ticket' = [ticket EXCEPT ![r] = 0]
  PROVE  /\ Alone(r) /\ phase'[r] = p
         /\ lease'[r] \in {0, lease[r]} /\ ticket'[r] \in {0, ticket[r]}
         /\ \E c, n : Asked(r, kind, args, c, n)
<1> DEFINE d == [op |-> NewOperation(r), kind |-> kind, args |-> args, attempt |-> 1,
                 started |-> clock, deadline |-> Lesser(clock + CallTimeout, overall),
                 overall |-> overall, reply |-> NoReply]
<1>1. PICK c, n : c = d /\ n = Message(r, d)
  OBVIOUS
<1>2. Send(r, c) /\ messages' = messages \cup {n} /\ call' = [call EXCEPT ![r] = c]
  BY <1>1 DEF Ask, Send, Message, Set, NewOperation
<1>3. /\ c.op = NewOperation(r) /\ c.kind = kind /\ c.args = args /\ c.attempt = 1
      /\ c.reply = NoReply /\ c.started = clock
      /\ c.deadline = Lesser(clock + CallTimeout, overall)
      /\ n.op = c.op /\ n.kind = kind /\ n.args = args
  BY <1>1 DEF Message
<1> HIDE DEF d
<1>4. c.op[1] = r /\ c.op \notin DOMAIN receipts
  <2>1. PICK op : op = c.op
    OBVIOUS
  <2> QED BY <1>3, <2>1, FreshOperation
<1>5. phase'[r] = p /\ call'[r] = c
      /\ \A s \in Request \ {r} : phase'[s] = phase[s] /\ call'[s] = call[s]
  BY <1>2 DEF ChatInv, RequestInv, CallInv
<1>6. clock \in Nat /\ clock + CallTimeout \in Nat
  BY AllowanceTypes, AllowanceNumbers
<1>7. clock <= c.deadline /\ c.deadline <= c.started + CallTimeout
  <2>1. c.deadline \in {clock + CallTimeout, overall}
        /\ c.deadline <= clock + CallTimeout
    BY <1>3, <1>6 DEF Lesser
  <2> QED BY <1>3, <1>6, <2>1, AllowanceNumbers
<1>8. Sends(r, c)
  BY <1>2, <1>3, <1>4, <1>5, <1>6 DEF Sends
<1>9. /\ lease'[r] \in {0, lease[r]} /\ ticket'[r] \in {0, ticket[r]}
      /\ \A s \in Request \ {r} : lease'[s] = lease[s] /\ ticket'[s] = ticket[s]
  BY DEF ChatInv, RequestInv, OwnerInv
<1>10. \A s \in Request \ {r} :
         wake'[s] = wake[s] /\ waitEnd'[s] = waitEnd[s] /\ ticks'[s] = ticks[s]
  BY DEF ChatInv, RequestInv, TimerInv
<1>11. Alone(r)
  BY <1>5, <1>9, <1>10 DEF Alone
<1>12. Asked(r, kind, args, c, n)
  BY <1>2, <1>3, <1>4, <1>5, <1>7, <1>8 DEF Asked
<1> QED BY <1>5, <1>9, <1>11, <1>12

\* A call that is about no ticket and no lease of the store's allowances.
LEMMA PlainAllowance ==
  ASSUME ChatInv, TenureInv, AllowanceInv, Quiet, NEW r \in Request,
         NEW kind \in {"admit_or_enqueue", "cancel_ticket", "finalize"},
         NEW args, NEW overall \in Nat, Ask(r, kind, args, overall), clock <= overall,
         NEW p \in {"admitting", "settling"}, phase' = [phase EXCEPT ![r] = p],
         p = "admitting" => phase[r] = "idle",
         wake' = wake, waitEnd' = waitEnd, ticks' = ticks,
         lease' = lease \/ lease' = [lease EXCEPT ![r] = 0],
         ticket' = ticket \/ ticket' = [ticket EXCEPT ![r] = 0]
  PROVE  AllowanceInv'
<1>1. PICK q \in Waiting : q = p /\ phase' = [phase EXCEPT ![r] = q]
  BY DEF Waiting
<1>2. /\ Alone(r) /\ phase'[r] = p
      /\ lease'[r] \in {0, lease[r]} /\ ticket'[r] \in {0, ticket[r]}
      /\ \E c, n : Asked(r, kind, args, c, n)
  BY <1>1, AskFacts
<1>10. PICK c, n : Asked(r, kind, args, c, n)
  BY <1>2
<1>3. /\ Sends(r, c) /\ call'[r] = c
      /\ c.kind = kind /\ c.args = args /\ c.attempt = 1 /\ c.reply = NoReply
      /\ c.op \notin DOMAIN receipts
      /\ clock <= c.deadline /\ c.deadline <= c.started + CallTimeout
      /\ messages' = messages \cup {n}
      /\ n.op = c.op /\ n.op[1] = r /\ n.kind = kind /\ n.args = args
  BY <1>10 DEF Asked
<1>4. Affordable(r, c) /\ Timely(r, c)
  BY <1>3 DEF Affordable, Timely
<1>5. PollerOK(r) /\ RenewerOK(r)
  BY DEF AllowanceInv, AskersInv
<1>6. \A k \in {"wait_for_admission", "renew"} : Asks(r, k)' => Asks(r, k)
  BY <1>3 DEF Asks
<1>7. PollerOK(r)'
  <2>1. Early(r)' => Early(r)
    BY <1>2 DEF Early
  <2>2. UNCHANGED <<tickets, receipts>>
    BY QuietTables
  <2>3. phase'[r] # "queued" /\ phase'[r] # "polling"
    BY <1>2
  <2> QED BY <1>5, <1>6, <2>1, <2>2, <2>3 DEF PollerOK
<1>8. RenewerOK(r)'
  BY <1>2, <1>5, <1>6 DEF RenewerOK
<1>9. ticks'[r] \in Nat /\ ticks'[r] >= ticks[r]
  BY AllowanceTypes
<1> QED BY <1>2, <1>3, <1>4, <1>7, <1>8, <1>9, SendAllowance

LEMMA ArriveAllowance ==
  ASSUME ChatInv, TenureInv, AllowanceInv, NEW r \in Request, Arrive(r)
  PROVE  AllowanceInv'
<1>1. Quiet /\ UNCHANGED <<ticket, lease, wake, waitEnd, ticks>> /\ phase[r] = "idle"
  BY DEF Arrive, Quiet
<1>2. PICK ip \in Ip, session \in Session :
        Ask(r, "admit_or_enqueue", <<ip, session>>, Endless)
  BY DEF Arrive
<1>3. PICK k \in {"admit_or_enqueue", "cancel_ticket", "finalize"} : k = "admit_or_enqueue"
  OBVIOUS
<1>7. PICK args, e : args = <<ip, session>> /\ e = Endless
  OBVIOUS
<1>4. PICK p \in {"admitting", "settling"} :
        p = "admitting" /\ phase' = [phase EXCEPT ![r] = p]
  BY DEF Arrive, Set
<1>5. e \in Nat /\ clock <= e
  <2>1. clock \in 0 .. Horizon
    BY DEF ChatInv, ClockInv, Instant
  <2> QED BY <1>7, <2>1, EndlessNat, Timing DEF Endless
<1>6. Ask(r, k, args, e)
  BY <1>2, <1>3, <1>7
<1> QED BY <1>1, <1>4, <1>5, <1>6, PlainAllowance

LEMMA SettlingAllowance ==
  ASSUME ChatInv, TenureInv, AllowanceInv, NEW r \in Request, Settling(r)
  PROVE  AllowanceInv'
<1>1. Quiet /\ UNCHANGED <<wake, waitEnd, ticks>>
  BY DEF Settling, Quiet
<1>2. Endless \in Nat /\ clock <= Endless
  <2>1. clock \in 0 .. Horizon
    BY DEF ChatInv, ClockInv, Instant
  <2> QED BY <2>1, EndlessNat, Timing DEF Endless
<1>3. PICK p \in {"admitting", "settling"} : p = "settling"
  OBVIOUS
<1>4. CASE /\ \E args, k : /\ k \in {"cancel_ticket", "finalize"}
                           /\ Ask(r, k, args, Endless)
           /\ phase' = [phase EXCEPT ![r] = "settling"]
           /\ lease' = lease \/ lease' = [lease EXCEPT ![r] = 0]
           /\ ticket' = ticket \/ ticket' = [ticket EXCEPT ![r] = 0]
  <2>1. PICK args, k : /\ k \in {"admit_or_enqueue", "cancel_ticket", "finalize"}
                       /\ Ask(r, k, args, Endless)
    BY <1>4
  <2> QED BY <1>1, <1>2, <1>3, <1>4, <2>1, PlainAllowance
<1>5. CASE /\ ticket[r] # 0
           /\ Ask(r, "cancel_ticket", Held(ticket[r]), Endless)
           /\ Set(ticket, r, 0) /\ Set(phase, r, "settling")
           /\ UNCHANGED <<lease, authority>>
  BY <1>4, <1>5 DEF Set
<1>6. CASE /\ lease[r] # 0
           /\ \E settlement \in Settlements(r) :
                Ask(r, "finalize", <<Held(lease[r]), settlement[1], settlement[2]>>,
                    Endless)
           /\ Set(lease, r, 0) /\ Set(phase, r, "settling")
           /\ UNCHANGED ticket
  <2>1. PICK settlement \in Settlements(r) :
          Ask(r, "finalize", <<Held(lease[r]), settlement[1], settlement[2]>>, Endless)
    BY <1>6
  <2>2. \E args, k : k \in {"cancel_ticket", "finalize"} /\ Ask(r, k, args, Endless)
    BY <2>1
  <2> QED BY <1>4, <1>6, <2>2 DEF Set
<1>7. CASE /\ Set(phase, r, "done")
           /\ UNCHANGED <<call, messages, ticket, lease, authority>>
  <2>1. NoCall /\ phase' = [phase EXCEPT ![r] = "done"]
    BY <1>1, <1>7 DEF NoCall, Quiet, Set
  <2> QED BY <1>1, <1>7, <2>1, EndAllowance
<1> QED BY <1>5, <1>6, <1>7 DEF Settling

LEMMA AskPollAllowance ==
  ASSUME ChatInv, TenureInv, AllowanceInv, NEW r \in Request, Poll(r)
  PROVE  AllowanceInv'
<1>0. Quiet /\ UNCHANGED <<ticket, lease, wake, waitEnd, ticks>>
  BY DEF Poll, Quiet
<1>1. /\ Quiet /\ UNCHANGED <<ticket, lease, wake, waitEnd, ticks>>
      /\ phase[r] = "queued" /\ clock < waitEnd[r] /\ wake[r] <= clock
  BY <1>0 DEF Poll
<1>2. PICK t, e, kind : t = ticket[r] /\ e = waitEnd[r] /\ kind = "wait_for_admission"
  OBVIOUS
<1>3. PICK args : args = Held(t)
  OBVIOUS
<1>4. Ask(r, kind, args, e)
  BY <1>2, <1>3 DEF Poll, Ask, Send, Message, Set, NewOperation, Lesser
<1>5. PICK p \in Waiting : p = "polling" /\ phase' = [phase EXCEPT ![r] = p]
  BY DEF Poll, Set, Waiting
<1>6. e \in Nat /\ clock <= e /\ clock \in Nat
  BY <1>1, <1>2, AllowanceTypes
<1>7. /\ Alone(r) /\ phase'[r] = p
      /\ lease'[r] \in {0, lease[r]} /\ ticket'[r] \in {0, ticket[r]}
      /\ \E c, n : Asked(r, kind, args, c, n)
  BY <1>1, <1>4, <1>5, <1>6, AskFacts
<1>19. PICK c, n : Asked(r, kind, args, c, n)
  BY <1>7
<1>8. /\ Sends(r, c) /\ call'[r] = c
      /\ c.kind = kind /\ c.args = args /\ c.attempt = 1 /\ c.reply = NoReply
      /\ c.op \notin DOMAIN receipts
      /\ clock <= c.deadline /\ c.deadline <= c.started + CallTimeout
      /\ messages' = messages \cup {n}
      /\ n.op = c.op /\ n.op[1] = r /\ n.kind = kind /\ n.args = args
  BY <1>19 DEF Asked
<1>9. PollerOK(r) /\ RenewerOK(r)
  BY DEF AllowanceInv, AskersInv
<1>10. args.id = t /\ Claims(r, t)
  BY <1>1, <1>2, <1>3 DEF Held, Claims, ChatInv, RequestInv, WaitInv
<1>11. ASSUME t \in DOMAIN tickets
       PROVE  Unpolled(t) = {} /\ Paced(r, tickets[t].polls)
  BY <1>1, <1>2, <1>9, <1>11 DEF PollerOK
<1>12. ASSUME t \in DOMAIN tickets
       PROVE  tickets[t].polls > 0
  <2>1. PICK k, a, z : k = tickets[t].polls /\ a = k * PollInterval
                       /\ z = PollAttempts * PollInterval
    OBVIOUS
  <2>2. waitEnd[r] + z <= wake[r] + a + QueueWait
    BY <1>11, <1>12, <2>1 DEF Paced
  <2>3. k \in Nat /\ z \in Nat /\ z >= QueueWait
    BY <1>12, <2>1, AllowanceTypes, AllowanceNumbers
  <2>4. a \in Nat
    BY <2>1, <2>3, AllowanceNumbers
  <2>5. a > 0
    BY <1>1, <1>6, <2>2, <2>3, <2>4, AllowanceTypes, AllowanceNumbers
  <2>6. k # 0
    BY <2>1, <2>5, AllowanceNumbers
  <2> QED BY <2>1, <2>3, <2>6
<1>13. Affordable(r, c)
  BY <1>2, <1>8, <1>10, <1>11, <1>12 DEF Affordable
<1>14. Timely(r, c)
  BY <1>2, <1>5, <1>7, <1>8 DEF Timely
<1>15. PollerOK(r)'
  <2>1. ~Early(r)' /\ phase'[r] # "queued"
    BY <1>5, <1>7 DEF Early
  <2>2. UNCHANGED <<tickets, receipts>> /\ \A op, i : Polled(op, i)' <=> Polled(op, i)
    BY <1>1, QuietTables
  <2>3. ticket'[r] = t /\ Held(ticket[r])' = args
    BY <1>1, <1>2, <1>3 DEF Held
  <2>4. ~Polled(c.op, t)
    BY <1>8 DEF Polled
  <2>5. Polled(call[r].op, ticket[r])' <=> Polled(c.op, t)
    BY <1>8, <2>2, <2>3 DEF Polled
  <2>6. ASSUME t \in DOMAIN tickets
        PROVE  /\ \A m \in Unpolled(t)' : m.op = c.op
               /\ Paced(r, tickets[t].polls)'
    <3>1. Unpolled(t)' \subseteq Unpolled(t) \cup {n}
      BY <1>8, <2>2 DEF Unpolled
    <3> QED BY <1>1, <1>8, <1>11, <2>2, <2>6, <3>1 DEF Paced
  <2>7. Unpolled(ticket[r])' = Unpolled(t)'
        /\ (Paced(r, tickets[ticket[r]].polls)' <=> Paced(r, tickets[t].polls)')
    BY <2>3 DEF Unpolled, Polled, Paced
  <2>8. c.reply.type # "Pending"
    BY <1>8 DEF NoReply
  <2> QED BY <1>2, <1>8, <1>12, <2>1, <2>2, <2>3, <2>4, <2>5, <2>6, <2>7, <2>8 DEF PollerOK
<1>16. RenewerOK(r)'
  <2>1. ~Asks(r, "renew")'
    BY <1>1, <1>2, <1>8, <1>9 DEF RenewerOK, Asks
  <2> QED BY <1>5, <1>7, <2>1 DEF RenewerOK
<1>17. ticks'[r] \in Nat /\ ticks'[r] >= ticks[r]
  BY <1>1, AllowanceTypes
<1>18. Quiet /\ Sends(r, c) /\ call'[r] = c
  BY <1>1, <1>8
<1> QED BY ONLY ChatInv, TenureInv, AllowanceInv, r \in Request, <1>7, <1>13, <1>14, <1>15,
          <1>16, <1>17, <1>18, SendAllowance

LEMMA AskRenewalAllowance ==
  ASSUME ChatInv, TenureInv, GrantsInv, AllowanceInv, NEW r \in Request, AskRenewal(r)
  PROVE  AllowanceInv'
<1>0. Quiet /\ UNCHANGED <<ticket, lease, wake, waitEnd>>
  BY DEF AskRenewal, Quiet
<1>1. /\ Quiet /\ UNCHANGED <<ticket, lease, wake, waitEnd>>
      /\ phase[r] = "streaming" /\ HasAuthority(r)
      /\ ticks' = [ticks EXCEPT ![r] = ticks[r] + 1]
  BY <1>0 DEF AskRenewal, MayRenew, Set
<1>2. PICK i, e, kind : i = lease[r] /\ e = Deadline(r) /\ kind = "renew"
  OBVIOUS
<1>3. PICK args : args = Held(i)
  OBVIOUS
<1>4. Ask(r, kind, args, e)
  BY <1>2, <1>3 DEF AskRenewal, Ask, Send, Message, Set, NewOperation, Lesser
<1>5. PICK p \in Waiting : p = "renewing" /\ phase' = [phase EXCEPT ![r] = p]
  BY DEF AskRenewal, Set, Waiting
<1>6. e \in Nat /\ clock <= e /\ clock \in Nat
  BY <1>1, <1>2, DeadlineNear, AllowanceTypes DEF HasAuthority
<1>7. /\ Alone(r) /\ phase'[r] = p
      /\ lease'[r] \in {0, lease[r]} /\ ticket'[r] \in {0, ticket[r]}
      /\ \E c, n : Asked(r, kind, args, c, n)
  BY <1>1, <1>4, <1>5, <1>6, AskFacts
<1>8. PICK c, n : Asked(r, kind, args, c, n)
  BY <1>7
<1>9. /\ Sends(r, c) /\ call'[r] = c
      /\ c.kind = kind /\ c.args = args /\ c.attempt = 1 /\ c.reply = NoReply
      /\ c.op \notin DOMAIN receipts
      /\ clock <= c.deadline /\ c.deadline <= c.started + CallTimeout
      /\ messages' = messages \cup {n}
      /\ n.op = c.op /\ n.op[1] = r /\ n.kind = kind /\ n.args = args
  BY <1>8 DEF Asked
<1>10. PollerOK(r) /\ RenewerOK(r)
  BY DEF AllowanceInv, AskersInv
<1>11. args.id = i /\ Claims(r, i)
  BY <1>1, <1>2, <1>3 DEF Held, Claims, TenureInv, HoldInv, HoldOK
<1>12. ticks'[r] = ticks[r] + 1 /\ ticks[r] \in Nat /\ ticks'[r] \in Nat
       /\ ticks'[r] >= ticks[r]
  BY <1>1, AllowanceTypes DEF ChatInv, RequestInv, TimerInv
<1>13. ASSUME i \in DOMAIN leases
       PROVE  leases[i].renewals + ticks'[r] > RenewalTicks /\ Unspent(i) = {}
  <2>1. PICK op \in DOMAIN receipts : GrantsOf("Admitted", i) = {op}
    BY <1>13 DEF GrantsInv, OnRecord
  <2>2. receipts[op].outcome.type = "Admitted" /\ receipts[op].outcome.id = i
    BY <2>1 DEF GrantsOf
  <2>3. op[1] = r
    BY <1>11, <2>2, ClaimsIssued DEF AllowanceInv, OwnersInv, Owns, Grant
  <2>4. leases[i].renewals + ticks[r] >= RenewalTicks
    BY <1>13, <2>2, <2>3 DEF AllowanceInv, LeasesAfford
  <2>5. leases[i].renewals \in Nat
    BY <1>13, AllowanceTypes, AllowanceNumbers
  <2>6. Unspent(i) = {}
    BY <1>1, <1>2, <1>10, <1>13 DEF RenewerOK
  <2> QED BY <1>12, <2>4, <2>5, <2>6, AllowanceNumbers
<1>14. Affordable(r, c)
  BY <1>2, <1>9, <1>11, <1>13 DEF Affordable
<1>15. Timely(r, c)
  BY <1>2, <1>5, <1>7, <1>9 DEF Timely
<1>16. PollerOK(r)'
  BY <1>5, <1>7 DEF PollerOK, Early
<1>17. RenewerOK(r)'
  <2>1. UNCHANGED <<leases, receipts>> /\ \A op : Spent(op)' <=> Spent(op)
    BY <1>1, QuietTables
  <2>2. ASSUME i \in DOMAIN leases
        PROVE  \A m \in Unspent(i)' : m.op = c.op
    <3>1. Unspent(i)' \subseteq Unspent(i) \cup {n}
      BY <1>9, <2>1 DEF Unspent
    <3> QED BY <1>9, <1>13, <2>2, <3>1
  <2>3. Unspent(lease[r])' = Unspent(i)' /\ lease'[r] = i
    BY <1>1, <1>2 DEF Unspent, Spent
  <2>4. c.reply.type # "Renewed"
    BY <1>9 DEF NoReply
  <2>5. phase'[r] = "renewing"
    BY <1>5, <1>7
  <2> QED BY <1>9, <1>13, <2>1, <2>2, <2>3, <2>4, <2>5 DEF RenewerOK
<1>18. Quiet /\ Sends(r, c) /\ call'[r] = c
  BY <1>1, <1>9
<1> QED BY ONLY ChatInv, TenureInv, AllowanceInv, r \in Request, <1>7, <1>12, <1>14, <1>15,
          <1>16, <1>17, <1>18, SendAllowance

\* The same call again: what it is about could afford the first one, and its
\* receipt, if there is one, is still there.
LEMMA ReplayAllowance ==
  ASSUME ChatInv, TenureInv, AllowanceInv, Prompt, NEW r \in Request, Replay(r)
  PROVE  AllowanceInv'
<1> DEFINE t == Lesser(clock + CallTimeout, call[r].overall)
           d == [call[r] EXCEPT !.attempt = 2, !.reply = NoReply, !.deadline = t]
<1>0. Quiet /\ UNCHANGED <<phase, ticket, lease, wake, waitEnd, ticks>>
  BY DEF Replay, Quiet
<1>1. /\ Quiet /\ Send(r, d) /\ phase[r] \in Waiting /\ clock < call[r].overall
      /\ call[r].attempt = 1
  BY <1>0 DEF Replay
<1>2. DOMAIN call[r] = CallField
  BY DEF ChatInv, RequestInv, CallInv, CallOK
<1>3. PICK c, n : c = d /\ n = Message(r, d)
  OBVIOUS
<1>4. /\ c.op = call[r].op /\ c.kind = call[r].kind /\ c.args = call[r].args
      /\ c.started = call[r].started /\ c.attempt = 2
      /\ c.deadline = t /\ c.reply = NoReply
  BY <1>2, <1>3 DEF CallField
<1>5. /\ Send(r, c) /\ messages' = messages \cup {n}
      /\ n.op = c.op /\ n.kind = c.kind /\ n.args = c.args
  BY <1>1, <1>3 DEF Send, Message, Set
<1> HIDE DEF d
<1>6. clock \in Nat /\ clock + CallTimeout \in Nat /\ call[r].overall \in Nat
  BY Settled2, Timing
<1>7. clock <= c.deadline
  BY <1>1, <1>4, <1>6, AllowanceNumbers DEF Lesser
<1> HIDE DEF t
<1>8. Sends(r, c) /\ c.op[1] = r
  BY <1>0, <1>1, <1>4, <1>5, Settled2 DEF Sends, TenureInv, DrawnInv
<1>9. call'[r] = c /\ \A s \in Request \ {r} : call'[s] = call[s]
  BY <1>5 DEF Send, Set, ChatInv, RequestInv, CallInv
<1>10. Alone(r) /\ phase'[r] = phase[r]
  BY <1>0, <1>9 DEF Alone
<1>11. PollerOK(r) /\ RenewerOK(r)
  BY DEF AllowanceInv, AskersInv
<1>12. /\ c.kind = "wait_for_admission" => phase[r] = "polling"
       /\ c.kind = "renew" => phase[r] = "renewing"
  BY <1>1, <1>4 DEF AllowanceInv, PunctualInv
<1>13. ASSUME phase[r] = "polling"
       PROVE  /\ c.kind = "wait_for_admission" /\ c.args.id = ticket[r]
              /\ c.args = Held(ticket[r]) /\ Claims(r, ticket[r])
              /\ ticket[r] \in DOMAIN tickets =>
                   /\ \A m \in Unpolled(ticket[r]) : m.op = c.op
                   /\ IF Polled(c.op, ticket[r])
                      THEN Paced(r, tickets[ticket[r]].polls + 1)
                      ELSE Paced(r, tickets[ticket[r]].polls) /\ tickets[ticket[r]].polls > 0
  BY <1>4, <1>11, <1>13 DEF PollerOK, Held, Claims, ChatInv, RequestInv, WaitInv
<1>14. ASSUME phase[r] = "renewing"
       PROVE  /\ c.kind = "renew" /\ c.args.id = lease[r] /\ Claims(r, lease[r])
              /\ lease[r] \in DOMAIN leases =>
                   /\ \A m \in Unspent(lease[r]) : m.op = c.op
                   /\ ~Spent(c.op) => leases[lease[r]].renewals + ticks[r] > RenewalTicks
  <2>1. call[r].kind = "renew" /\ call[r].args = Held(lease[r]) /\ lease[r] # 0
    BY <1>14 DEF TenureInv, HoldInv, HoldOK, StreamOK
  <2>2. Held(lease[r]).id = lease[r] /\ Claims(r, lease[r])
    BY <2>1 DEF Held, Claims
  <2>3. lease[r] \in DOMAIN leases =>
          /\ \A m \in Unspent(lease[r]) : m.op = c.op
          /\ ~Spent(c.op) => leases[lease[r]].renewals + ticks[r] > RenewalTicks
    BY <1>1, <1>4, <1>11, <1>14 DEF RenewerOK
  <2> QED BY <1>4, <2>1, <2>2, <2>3
<1>15. Affordable(r, c)
  BY <1>0, <1>12, <1>13, <1>14 DEF Affordable
<1>16. Timely(r, c)
  <2>1. ASSUME c.op \in DOMAIN receipts
        PROVE  /\ receipts[c.op].expires >= c.started + ReceiptTTL
               /\ receipts[c.op].expires > clock + Latency
    <3>1. /\ receipts[c.op].expires >= c.started + ReceiptTTL
          /\ clock <= call[r].deadline /\ call[r].deadline <= c.started + CallTimeout
          /\ receipts[c.op].expires \in Nat
      BY <1>1, <1>4, <2>1 DEF AllowanceInv, PunctualInv
    <3>2. c.started \in Nat /\ call[r].deadline \in Nat /\ clock \in Nat
      BY <1>4, AllowanceTypes
    <3> QED BY <3>1, <3>2, AllowanceNumbers DEF Prompt
  <2> QED BY <1>4, <1>7, <1>10, <1>12, <2>1 DEF Timely
<1>17. /\ UNCHANGED <<tickets, leases, receipts>>
       /\ \A op, i : Polled(op, i)' <=> Polled(op, i)
       /\ \A op : Spent(op)' <=> Spent(op)
  BY <1>1, QuietTables
<1>18. PollerOK(r)'
  <2>1. CASE phase[r] = "polling"
    <3>1. PICK k, i : k = tickets[i].polls /\ i = ticket[r]
      OBVIOUS
    <3>2. /\ ticket'[r] = i /\ Held(ticket[r])' = Held(i) /\ tickets'[ticket'[r]].polls = k
          /\ Polled(call[r].op, ticket[r])' <=> Polled(c.op, i)
          /\ Paced(r, tickets[ticket[r]].polls)' <=> Paced(r, k)
          /\ Paced(r, tickets[ticket[r]].polls + 1)' <=> Paced(r, k + 1)
      BY <1>0, <1>9, <1>17, <3>1 DEF Held, Paced
    <3>3. Unpolled(ticket[r])' \subseteq Unpolled(i) \cup {n}
      BY <1>5, <1>17, <3>1, <3>2 DEF Unpolled
    <3>4. c.reply.type # "Pending"
      BY <1>4 DEF NoReply
    <3>5. ~Early(r)' /\ phase'[r] = "polling"
      BY <1>10, <2>1 DEF Early
    <3>6. /\ c.kind = "wait_for_admission" /\ c.args = Held(i)
          /\ i \in DOMAIN tickets =>
               /\ \A m \in Unpolled(i) : m.op = c.op
               /\ IF Polled(c.op, i) THEN Paced(r, k + 1) ELSE Paced(r, k) /\ k > 0
      BY <1>13, <2>1, <3>1
    <3>7. /\ call'[r].kind = "wait_for_admission" /\ call'[r].args = Held(ticket[r])'
          /\ ticket'[r] \in DOMAIN tickets' =>
               /\ \A m \in Unpolled(ticket[r])' : m.op = call'[r].op
               /\ IF Polled(call[r].op, ticket[r])'
                  THEN Paced(r, tickets[ticket[r]].polls + 1)'
                  ELSE Paced(r, tickets[ticket[r]].polls)' /\ tickets'[ticket'[r]].polls > 0
               /\ call'[r].reply.type = "Pending" => Polled(call[r].op, ticket[r])'
      BY <1>5, <1>9, <1>17, <3>2, <3>3, <3>4, <3>6
    <3> QED BY <3>5, <3>7 DEF PollerOK
  <2>2. CASE phase[r] # "polling"
    <3>1. c.kind # "wait_for_admission"
      BY <1>12, <2>2
    <3>2. Asks(r, "wait_for_admission")' => Asks(r, "wait_for_admission")
      BY <1>5, <3>1 DEF Asks
    <3>3. /\ Early(r)' => Early(r)
          /\ phase'[r] # "queued" /\ phase'[r] # "polling"
      BY <1>0, <1>1, <2>2 DEF Early, Waiting
    <3> QED BY <1>11, <1>17, <3>2, <3>3 DEF PollerOK
  <2> QED BY <2>1, <2>2
<1>19. RenewerOK(r)'
  <2>1. CASE phase[r] = "renewing"
    <3>1. PICK i : i = lease[r]
      OBVIOUS
    <3>2. /\ lease'[r] = i /\ phase'[r] = "renewing"
          /\ Unspent(lease[r])' \subseteq Unspent(i) \cup {n}
      BY <1>0, <1>5, <1>17, <2>1, <3>1 DEF Unspent
    <3>3. c.reply.type # "Renewed"
      BY <1>4 DEF NoReply
    <3> QED BY <1>4, <1>5, <1>9, <1>14, <1>17, <2>1, <3>1, <3>2, <3>3 DEF RenewerOK
  <2>2. CASE phase[r] # "renewing"
    <3>1. c.kind # "renew"
      BY <1>12, <2>2
    <3>2. Asks(r, "renew")' => Asks(r, "renew")
      BY <1>5, <3>1 DEF Asks
    <3>3. phase'[r] = phase[r] /\ phase[r] \notin {"streaming", "sending", "renewing"}
      BY <1>0, <1>1, <2>2 DEF Waiting
    <3> QED BY <1>11, <3>2, <3>3 DEF RenewerOK
  <2> QED BY <2>1, <2>2
<1>20. /\ lease'[r] \in {0, lease[r]} /\ ticket'[r] \in {0, ticket[r]}
       /\ ticks'[r] \in Nat /\ ticks'[r] >= ticks[r]
  BY <1>0, AllowanceTypes
<1> QED BY ONLY ChatInv, TenureInv, AllowanceInv, r \in Request, <1>1, <1>8, <1>9, <1>10,
          <1>15, <1>16, <1>18, <1>19, <1>20, SendAllowance

-----------------------------------------------------------------------------
(* All steps.                                                              *)

LEMMA AllowanceInit == ChatInit => AllowanceInv
<1> SUFFICES ASSUME ChatInit PROVE AllowanceInv
  OBVIOUS
<1>1. /\ clock = 0 /\ messages = {} /\ DOMAIN receipts = {} /\ DOMAIN leases = {}
      /\ DOMAIN tickets = {} /\ tokenSequence = 0
      /\ \A r \in Request : phase[r] = "idle"
  BY DEF ChatInit, Init
<1>2. OwnersInv
  BY <1>1 DEF OwnersInv
<1>3. PunctualInv
  BY <1>1 DEF PunctualInv, Waiting
<1>4. TicketsAfford /\ LeasesAfford
  BY <1>1 DEF TicketsAfford, LeasesAfford
<1>5. AskersInv
  BY <1>1 DEF AskersInv, PollerOK, RenewerOK, Asks
<1> QED BY <1>2, <1>3, <1>4, <1>5 DEF AllowanceInv

LEMMA AllowanceRequest ==
  ASSUME ChatInv, TenureInv, GrantsInv, AllowanceInv, Prompt, NEW r \in Request,
         \/ Arrive(r) \/ Advance(r) \/ Produce(r) \/ Resume(r)
         \/ StartAttempt(r) \/ FinishAttempt(r) \/ Cancelled(r)
  PROVE  AllowanceInv'
<1>1. CASE StartAttempt(r) \/ FinishAttempt(r)
  BY <1>1, QuietAllowance DEF StartAttempt, FinishAttempt, NoCall, Quiet
<1>2. CASE Arrive(r) \/ Advance(r) \/ Produce(r) \/ Resume(r) \/ Cancelled(r)
  BY <1>2, ArriveAllowance, ReplayAllowance, AdmissionAllowance, WaitAllowance,
     AskPollAllowance, PollAnswerAllowance, FetchAllowance, AskRenewalAllowance,
     RenewalAnswerAllowance, SettlingAllowance, LastAllowance DEF Advance
<1> QED BY <1>1, <1>2

LEMMA AllowanceInvStep ==
  Prompt /\ ChatInv /\ TenureInv /\ GrantsInv /\ AllowanceInv /\ [ChatNext]_chatVars =>
    AllowanceInv'
<1> SUFFICES ASSUME Prompt, ChatInv, TenureInv, GrantsInv, AllowanceInv,
                    [ChatNext]_chatVars
             PROVE  AllowanceInv'
  OBVIOUS
<1>1. CASE ChatNext
  BY <1>1, AllowanceRequest, LandAllowance, TickAllowance, ProbeAllowanceInv DEF ChatNext
<1>2. CASE UNCHANGED chatVars
  BY <1>2, QuietAllowance DEF chatVars, requests, Quiet
<1> QED BY <1>1, <1>2

LEMMA AllowanceCovers ==
  ASSUME ChatInv, TenureInv, AllowanceInv
  PROVE  CallsAffordable
<1> SUFFICES ASSUME NEW m \in messages, Fresh(m.op, clock)
             PROVE  /\ m.kind = "wait_for_admission" /\ m.args.id \in LiveTickets(clock) =>
                         tickets[m.args.id].polls > 0
                    /\ m.kind = "renew" /\ m.args.id \in LiveLeases(clock) =>
                         leases[m.args.id].renewals > 0
  BY DEF CallsAffordable
<1>1. PICK i : i = m.args.id
  OBVIOUS
<1>2. ASSUME m.kind = "wait_for_admission", i \in LiveTickets(clock)
      PROVE  tickets[i].polls > 0
  <2>1. ~Polled(m.op, i)
    <3>1. ASSUME Polled(m.op, i) PROVE FALSE
      <4>1. /\ m.op \in DOMAIN receipts /\ receipts[m.op].outcome.type = "Pending"
            /\ receipts[m.op].outcome.id = i
        BY <3>1 DEF Polled
      <4>2. Mentions(receipts[m.op].outcome, clock)
        BY <1>2, <4>1 DEF Mentions
      <4> QED BY <4>1, <4>2, Stays
    <3> QED BY <3>1
  <2>2. i \in DOMAIN tickets /\ m \in Unpolled(i)
    BY <1>1, <1>2, <2>1 DEF LiveTickets, Unpolled
  <2> QED BY <2>2 DEF AllowanceInv, TicketsAfford
<1>3. ASSUME m.kind = "renew", i \in LiveLeases(clock)
      PROVE  leases[i].renewals > 0
  <2>1. ~Spent(m.op)
    <3>1. ASSUME Spent(m.op) PROVE FALSE
      <4>1. /\ m.op \in DOMAIN receipts /\ clock <= m.sent + Latency
            /\ receipts[m.op].expires > m.sent + Latency
            /\ receipts[m.op].expires \in Nat
        BY <3>1 DEF Spent, AllowanceInv, PunctualInv
      <4>2. receipts[m.op].expires > clock
        BY <4>1, AllowanceTypes, AllowanceNumbers
      <4> QED BY <4>1, <4>2, Stays
    <3> QED BY <3>1
  <2>2. i \in DOMAIN leases /\ m \in Unspent(i)
    BY <1>1, <1>3, <2>1 DEF LiveLeases, Unspent
  <2>3. leases[i].renewals + ticks[m.op[1]] > RenewalTicks
    BY <2>2 DEF AllowanceInv, LeasesAfford
  <2>4. m.op[1] \in Request
    BY AllowanceTypes
  <2>5. leases[i].renewals \in Nat /\ ticks[m.op[1]] \in Nat /\ ticks[m.op[1]] <= RenewalTicks
    BY <2>2, <2>4, AllowanceTypes, AllowanceNumbers
  <2> QED BY <2>3, <2>5, AllowanceNumbers
<1> QED BY <1>1, <1>2, <1>3

\* Every poll and renewal that is still on its way, late or repeated, finds its
\* ticket or lease with an allowance left: the cadence of the queued stream and
\* the ticks of the admitted one never ask for more than the admission reserved,
\* as long as a receipt outlives the call and the messages of a replay.
THEOREM CallsStayAffordable ==
  ASSUME CallTimeout + Latency < ReceiptTTL
  PROVE  ChatSpec => []CallsAffordable
<1> DEFINE Inv == ChatInv /\ TenureInv /\ GrantsInv /\ AllowanceInv
<1>1. Prompt
  BY DEF Prompt
<1>2. ChatInit => Inv
  <2>1. Init => GrantsInv
    BY DEF Init, GrantsInv
  <2> QED BY <2>1, ChatInvInit, TenureInit, AllowanceInit DEF ChatInit
<1>3. Inv /\ [ChatNext]_chatVars => Inv'
  <2> SUFFICES ASSUME Inv, [ChatNext]_chatVars PROVE Inv'
    OBVIOUS
  <2>1. ChatInv' /\ [Next]_vars
    BY ChatStep
  <2>2. GrantsInv'
    BY <2>1, GrantsInvNext DEF ChatInv, StoreInv
  <2> QED BY <1>1, <2>1, <2>2, TenureStep, AllowanceInvStep
<1>4. Inv => CallsAffordable
  BY AllowanceCovers
<1> HIDE DEF Inv
<1> QED BY <1>2, <1>3, <1>4, PTL DEF ChatSpec
-----------------------------------------------------------------------------
(* What the store has charged for the work under its leases.               *)

\* What the request may yet turn out to owe for its lease in window w: until it
\* settles, all that was reserved.
Most(r, w) == IF lease[r] # 0 THEN Reserve ELSE Counted(r, w)
\* That many slots of each lease worked under, in window w; and those of the
\* leases the store has closed.
Slots(w) ==
  {s \in (1 .. tokenSequence) \X (1 .. MostDue) :
     \E r \in Request :
       work[r].lease = s[1] /\ w \in work[r].windows /\ s[2] <= Most(r, w)}
Gone(w) == {s \in Slots(w) : s[1] \notin DOMAIN leases}
ChargedInv ==
  \A w \in DOMAIN windows : windows[w].committed >= Cardinality(Gone(w))

\* A lease the store has closed left its windows uncertain, unless its request
\* settled it; and a cost above the reservation is marked either way.
MarkOK(r, w) ==
  \/ windows[w].uncertain
  \/ lease[r] = 0 /\ (work[r].due > Reserve => windows[w].overrun)
MarkedInv ==
  \A r \in Request : \A w \in work[r].windows \cap DOMAIN windows :
    ~Unsettled(r) => MarkOK(r, w)

\* The lease a session is bound to is its request's until the request settles,
\* and no one else's ever.
Unbound == {"idle", "admitting", "responding", "queued", "polling"}
BoundOK(r) ==
  IF work[r].lease = 0
  THEN /\ ~work[r].bound /\ work[r].state # "active"
       /\ work[r].due = 0 /\ work[r].windows = {}
  ELSE /\ work[r].bound /\ work[r].lease \in 1 .. tokenSequence
       /\ phase[r] \notin Unbound
       /\ \/ lease[r] = work[r].lease
          \/ lease[r] = 0 /\ phase[r] \in {"settling", "done"}
       /\ work[r].lease \in DOMAIN leases =>
            leases[work[r].lease].windows = work[r].windows
       /\ \A w \in work[r].windows : w \in DOMAIN windows \/ WindowEnd(w) <= lastNow
       /\ \A s \in Request \ {r} :
            work[s].lease # work[r].lease /\ ~Claims(s, work[r].lease)
BoundInv == \A r \in Request : BoundOK(r)

\* A settlement on its way pays for what was done under its lease, or for what
\* was reserved for that, and then it is uncertain.
Pays(id, charge, uncertain) ==
  \A r \in Request : work[r].lease = id =>
    /\ lease[r] = 0 /\ Covered(r) <= charge
    /\ uncertain \/ work[r].due <= charge
Paid(args) == Pays(args[1].id, args[2], args[3])
SettlementInv ==
  /\ \A m \in messages : m.kind = "finalize" => Paid(m.args)
  /\ \A r \in Request :
       phase[r] \in Waiting /\ call[r].kind = "finalize" => Paid(call[r].args)

FundInv == ChargedInv /\ MarkedInv /\ BoundInv /\ SettlementInv

-----------------------------------------------------------------------------
(* What a step of the store pays for.                                      *)

\* The call closes the given leases at the given charge, uncertain or not; the
\* prune charges the leases that expired.
Closing(closed, w) == {i \in closed : w \in leases[i].windows}
StoreEnds(closed, charge, uncertain) ==
  /\ lastNow' = clock
  /\ \A i \in DOMAIN leases' : i \in 1 .. tokenSequence =>
       i \in LiveLeases(clock) /\ leases'[i].windows = leases[i].windows
  /\ LiveLeases(clock) \ closed \subseteq DOMAIN leases'
  /\ DOMAIN WindowsAt(clock) \subseteq DOMAIN windows'
  /\ \A w \in DOMAIN windows' :
       IF w \in DOMAIN WindowsAt(clock)
       THEN /\ windows'[w].committed >=
                 WindowsAt(clock)[w].committed + charge * Cardinality(Closing(closed, w))
            /\ WindowsAt(clock)[w].uncertain => windows'[w].uncertain
            /\ WindowsAt(clock)[w].overrun => windows'[w].overrun
            /\ Closing(closed, w) # {} =>
                 /\ uncertain => windows'[w].uncertain
                 /\ charge > Reserve => windows'[w].overrun
       ELSE WindowEnd(w) \in Nat /\ WindowEnd(w) > clock

LEMMA CoverCount ==
  ASSUME NEW A, NEW B, NEW C, IsFiniteSet(B), IsFiniteSet(C), A \subseteq B \cup C
  PROVE  /\ IsFiniteSet(A) /\ Cardinality(A) \in Nat
         /\ Cardinality(B) \in Nat /\ Cardinality(C) \in Nat
         /\ Cardinality(A) <= Cardinality(B) + Cardinality(C)
<1>1. /\ IsFiniteSet(B \cup C)
      /\ Cardinality(B \cup C) = Cardinality(B) + Cardinality(C) - Cardinality(B \cap C)
  BY FS_Union
<1>2. IsFiniteSet(B \cap C)
  BY FS_Subset, Zenon
<1>3. /\ Cardinality(B) \in Nat /\ Cardinality(C) \in Nat
      /\ Cardinality(B \cap C) \in Nat
  BY <1>2, FS_CardinalityType
<1>4. IsFiniteSet(A) /\ Cardinality(A) <= Cardinality(B \cup C)
  BY <1>1, FS_Subset
<1>5. Cardinality(A) \in Nat
  BY <1>4, FS_CardinalityType
<1> QED BY <1>1, <1>3, <1>4, <1>5

LEMMA Rectangle ==
  ASSUME NEW S, IsFiniteSet(S), NEW n \in Nat
  PROVE  /\ IsFiniteSet(S \X (1 .. n)) /\ Cardinality(S) \in Nat
         /\ Cardinality(S \X (1 .. n)) = n * Cardinality(S)
<1>1. IsFiniteSet(1 .. n) /\ Cardinality(1 .. n) = n
  BY FS_Interval
<1>2. /\ IsFiniteSet(S \X (1 .. n))
      /\ Cardinality(S \X (1 .. n)) = Cardinality(S) * Cardinality(1 .. n)
  BY <1>1, FS_Product
<1>3. Cardinality(S) \in Nat
  BY FS_CardinalityType
<1>4. PICK k \in Nat : k = Cardinality(S)
  BY <1>3
<1>5. k * n = n * k
  OBVIOUS
<1> QED BY <1>1, <1>2, <1>4, <1>5

LEMMA WorkTypes ==
  ASSUME ChatInv
  PROVE  /\ Reserve \in Nat /\ PerAttempt \in Nat /\ MostDue \in Nat /\ Reserve <= MostDue
         /\ \A r \in Request :
              /\ work[r].due \in 0 .. MostDue /\ work[r].attempts \in 0 .. MaxAttempts
              /\ PerAttempt * work[r].attempts \in 0 .. Reserve
              /\ Covered(r) \in 0 .. Reserve /\ Covered(r) <= work[r].due
              /\ Covered(r) <= PerAttempt * work[r].attempts
              /\ work[r].attempts = 0 => work[r].due = 0
              /\ work[r].windows \subseteq Period \X Nat
<1>1. /\ Reserve \in Nat /\ PerAttempt \in Nat /\ MostDue \in Nat /\ Reserve <= MostDue
      /\ MostPerAttempt \in Nat
  BY AttemptCosts
<1> SUFFICES ASSUME NEW r \in Request
             PROVE  /\ work[r].due \in 0 .. MostDue /\ work[r].attempts \in 0 .. MaxAttempts
                    /\ PerAttempt * work[r].attempts \in 0 .. Reserve
                    /\ Covered(r) \in 0 .. Reserve /\ Covered(r) <= work[r].due
                    /\ Covered(r) <= PerAttempt * work[r].attempts
                    /\ work[r].attempts = 0 => work[r].due = 0
                    /\ work[r].windows \subseteq Period \X Nat
  BY <1>1
<1>2. /\ work[r].due \in 0 .. MostDue /\ work[r].attempts \in 0 .. MaxAttempts
      /\ work[r].windows \subseteq Period \X Nat /\ DueOK(work[r])
  BY DEF ChatInv, RequestInv, WorkInv, Work
<1>3. PICK all \in 0 .. Reserve : all = PerAttempt * work[r].attempts
  BY <1>2, AttemptCosts
<1>4. Covered(r) = IF work[r].due <= all THEN work[r].due ELSE all
  BY <1>3 DEF Covered, Lesser
<1>5. Covered(r) \in 0 .. Reserve /\ Covered(r) <= work[r].due /\ Covered(r) <= all
  <2>1. PICK d \in 0 .. MostDue : d = work[r].due
    BY <1>2
  <2> QED BY <1>1, <1>3, <1>4, <2>1
<1>6. work[r].attempts = 0 => work[r].due = 0
  <2> SUFFICES ASSUME work[r].attempts = 0 PROVE work[r].due = 0
    OBVIOUS
  <2>1. work[r].due <= MostPerAttempt * 0
    BY <1>2 DEF DueOK
  <2> QED BY <1>1, <1>2, <2>1
<1> QED BY <1>2, <1>3, <1>5, <1>6

LEMMA SlotsFinite ==
  ASSUME ChatInv, NEW w
  PROVE  /\ IsFiniteSet(Slots(w)) /\ IsFiniteSet(Gone(w))
         /\ tokenSequence \in Nat /\ Reserve \in Nat /\ MostDue \in Nat
<1>1. tokenSequence \in Nat /\ Reserve \in Nat /\ MostDue \in Nat
  BY Settled2, AttemptCosts
<1>2. IsFiniteSet(1 .. tokenSequence)
  BY <1>1, FS_Interval
<1>3. IsFiniteSet((1 .. tokenSequence) \X (1 .. MostDue))
  BY <1>1, <1>2, Rectangle
<1>4. /\ Slots(w) \subseteq (1 .. tokenSequence) \X (1 .. MostDue)
      /\ Gone(w) \subseteq Slots(w)
  BY DEF Slots, Gone
<1> QED BY <1>1, <1>3, <1>4, FS_Subset

\* The prune charges an expired lease in full, as uncertain, and takes no mark away.
LEMMA PruneCommits ==
  ASSUME ChatInv, NEW w \in DOMAIN WindowsAt(clock)
  PROVE  /\ w \in DOMAIN windows /\ IsFiniteSet(ExpiredIn(w, clock))
         /\ Cardinality(ExpiredIn(w, clock)) \in Nat
         /\ windows[w].committed \in Nat /\ WindowsAt(clock)[w].committed \in Nat
         /\ WindowsAt(clock)[w].committed =
              windows[w].committed + Reserve * Cardinality(ExpiredIn(w, clock))
         /\ windows[w].uncertain => WindowsAt(clock)[w].uncertain
         /\ windows[w].overrun => WindowsAt(clock)[w].overrun
         /\ ExpiredIn(w, clock) # {} => WindowsAt(clock)[w].uncertain
<1>0. TypeOK /\ clock \in Instant /\ Reserve \in Nat
  BY ConfigAssumption DEF ChatInv, StoreInv, WindowInv, ClockInv
<1>1. w \in DOMAIN windows /\ WindowsAt(clock)[w] = SettledWindow(w, clock)
  BY DEF WindowsAt
<1>2. PICK e \in Nat : e = Cardinality(ExpiredIn(w, clock))
  BY <1>0, LeasesFinite
<1>3. IsFiniteSet(ExpiredIn(w, clock))
  BY <1>0, LeasesFinite
<1>4. windows[w].committed \in Nat
  BY <1>0, <1>1 DEF TypeOK, Functional, WindowRecord
<1>5. WindowsAt(clock)[w].committed = windows[w].committed + e * Reserve
  <2>1. CASE ExpiredIn(w, clock) = {}
    <3>1. e = 0
      BY <1>2, <2>1, FS_EmptySet
    <3> QED BY <1>0, <1>1, <1>4, <2>1, <3>1 DEF SettledWindow
  <2>2. CASE ExpiredIn(w, clock) # {}
    BY <1>1, <1>2, <2>2 DEF SettledWindow, Settle
  <2> QED BY <2>1, <2>2
<1>6. PICK k \in Nat : k = e * Reserve /\ k = Reserve * e
  BY <1>0
<1>7. /\ windows[w].uncertain => WindowsAt(clock)[w].uncertain
      /\ windows[w].overrun => WindowsAt(clock)[w].overrun
      /\ ExpiredIn(w, clock) # {} => WindowsAt(clock)[w].uncertain
  BY PruneSpends DEF ChatInv, StoreInv, ClockInv
<1> QED BY <1>1, <1>2, <1>3, <1>4, <1>5, <1>6, <1>7

\* The store closes the lease of r while window w is kept: as expired, or as
\* settled by a call that pays for the work.
LEMMA WorldSlots ==
  ASSUME ChatInv, FundInv, NEW closed, NEW charge \in Nat, NEW uncertain,
         StoreEnds(closed, charge, uncertain), \A i \in closed : Pays(i, charge, uncertain),
         UNCHANGED <<work, lease>>,
         NEW w \in DOMAIN WindowsAt(clock), w \in DOMAIN windows',
         NEW r \in Request, w \in work[r].windows, ~Unsettled(r)'
  PROVE  /\ MarkOK(r, w)' /\ Most(r, w)' \in Nat
         /\ \/ ~Unsettled(r) /\ Most(r, w)' <= Most(r, w)
            \/ work[r].lease \in ExpiredIn(w, clock) /\ Most(r, w)' <= Reserve
            \/ work[r].lease \in Closing(closed, w) /\ Most(r, w)' <= charge
<1>1. /\ w \in DOMAIN windows
      /\ windows[w].uncertain => WindowsAt(clock)[w].uncertain
      /\ windows[w].overrun => WindowsAt(clock)[w].overrun
      /\ ExpiredIn(w, clock) # {} => WindowsAt(clock)[w].uncertain
  BY PruneCommits
<1>2. /\ WindowsAt(clock)[w].uncertain => windows'[w].uncertain
      /\ WindowsAt(clock)[w].overrun => windows'[w].overrun
      /\ Closing(closed, w) # {} =>
           (uncertain => windows'[w].uncertain) /\ (charge > Reserve => windows'[w].overrun)
  BY DEF StoreEnds
<1>3. /\ Covered(r)' = Covered(r) /\ Covered(r) \in 0 .. Reserve /\ Covered(r) <= work[r].due
      /\ work[r].due \in Nat /\ Reserve \in Nat
  BY WorkTypes DEF Covered
<1>4. Counted(r, w)' = IF windows'[w].uncertain THEN Covered(r) ELSE work[r].due
  BY <1>3 DEF Counted
<1>5. /\ lease[r] # 0 => Most(r, w)' = Reserve /\ Most(r, w) = Reserve
      /\ lease[r] = 0 => Most(r, w)' = Counted(r, w)' /\ Most(r, w) = Counted(r, w)
  BY DEF Most, Counted, Covered, Unsettled
<1>6. Most(r, w)' \in Nat
  BY <1>3, <1>4, <1>5
<1>7. CASE ~Unsettled(r)
  <2>1. MarkOK(r, w)
    BY <1>1, <1>7 DEF FundInv, MarkedInv
  <2>2. MarkOK(r, w)'
    BY <1>1, <1>2, <2>1 DEF MarkOK
  <2>3. Counted(r, w) = IF windows[w].uncertain THEN Covered(r) ELSE work[r].due
    BY <1>7 DEF Counted
  <2>4. Counted(r, w)' <= Counted(r, w)
    BY <1>1, <1>2, <1>3, <1>4, <2>3
  <2>5. Most(r, w)' <= Most(r, w)
    BY <1>3, <1>5, <2>4
  <2> QED BY <1>6, <1>7, <2>2, <2>5
<1>8. CASE Unsettled(r)
  <2>1. work[r].lease # 0 /\ leases[work[r].lease].windows = work[r].windows
    <3>1. BoundOK(r)
      BY DEF FundInv, BoundInv
    <3> QED BY <1>8, <3>1 DEF BoundOK, Unsettled
  <2>2. CASE work[r].lease \notin LiveLeases(clock)
    <3>1. work[r].lease \in ExpiredIn(w, clock)
      BY <1>8, <2>1, <2>2 DEF ExpiredIn, Unsettled
    <3>2. windows'[w].uncertain
      BY <1>1, <1>2, <3>1
    <3>3. Most(r, w)' <= Reserve
      BY <1>3, <1>4, <1>5, <3>2
    <3> QED BY <1>6, <3>1, <3>2, <3>3 DEF MarkOK
  <2>3. CASE work[r].lease \in LiveLeases(clock)
    <3>1. work[r].lease \in closed
      BY <2>3 DEF StoreEnds, Unsettled
    <3>2. work[r].lease \in Closing(closed, w)
      BY <2>1, <3>1 DEF Closing
    <3>3. lease[r] = 0 /\ Covered(r) <= charge /\ (uncertain \/ work[r].due <= charge)
      BY <3>1 DEF Pays
    <3>4. /\ uncertain => windows'[w].uncertain
          /\ charge > Reserve => windows'[w].overrun
      BY <1>2, <3>2
    <3>5. Most(r, w)' <= charge
      <4>1. CASE windows'[w].uncertain
        BY <1>4, <1>5, <3>3, <4>1
      <4>2. CASE ~windows'[w].uncertain
        <5>1. work[r].due <= charge
          BY <3>3, <3>4, <4>2, Zenon
        <5> QED BY <1>4, <1>5, <3>3, <4>2, <5>1
      <4> QED BY <4>1, <4>2
    <3>6. MarkOK(r, w)'
      <4>1. CASE windows'[w].uncertain
        BY <4>1 DEF MarkOK
      <4>2. CASE ~windows'[w].uncertain
        <5>1. work[r].due <= charge
          BY <3>3, <3>4, <4>2, Zenon
        <5>2. work[r].due > Reserve => windows'[w].overrun
          BY <1>3, <3>4, <5>1
        <5> QED BY <3>3, <5>2 DEF MarkOK
      <4> QED BY <4>1, <4>2
    <3> QED BY <1>6, <3>2, <3>5, <3>6
  <2> QED BY <2>2, <2>3
<1> QED BY <1>7, <1>8

\* What the store owes for work goes into what is committed, as it closes the
\* leases the work was done under; what it does not know it marks.
LEMMA WorldCharged ==
  ASSUME ChatInv, FundInv, NEW closed, IsFiniteSet(closed), NEW charge \in Nat,
         NEW uncertain, StoreEnds(closed, charge, uncertain),
         \A i \in closed : Pays(i, charge, uncertain),
         UNCHANGED <<work, lease>>, ChatInv'
  PROVE  ChargedInv' /\ MarkedInv'
<1>0. /\ Reserve \in Nat /\ tokenSequence \in Nat /\ lastNow \in Nat /\ clock \in Nat
      /\ lastNow <= clock
  BY SlotsFinite, LeaseNumbers
<1>1. ASSUME NEW w \in DOMAIN windows', w \notin DOMAIN WindowsAt(clock),
             NEW r \in Request, w \in work[r].windows
      PROVE  FALSE
  <2>1. WindowEnd(w) \in Nat /\ WindowEnd(w) > clock
    BY <1>1 DEF StoreEnds
  <2>2. w \in DOMAIN windows \/ WindowEnd(w) <= lastNow
    BY <1>1 DEF FundInv, BoundInv, BoundOK
  <2>3. w \in DOMAIN windows => ~(WindowEnd(w) > clock)
    BY <1>1 DEF WindowsAt, WindowKept
  <2> QED BY <1>0, <2>1, <2>2, <2>3
<1>2. MarkedInv'
  <2> SUFFICES ASSUME NEW r \in Request, NEW w \in work[r].windows, w \in DOMAIN windows',
                      ~Unsettled(r)'
               PROVE  MarkOK(r, w)'
    BY DEF MarkedInv
  <2>1. w \in DOMAIN WindowsAt(clock)
    BY <1>1
  <2> QED BY <2>1, WorldSlots
<1>3. ASSUME NEW w \in DOMAIN windows' PROVE windows'[w].committed >= Cardinality(Gone(w)')
  <2>0. windows'[w].committed \in Nat
    BY DEF ChatInv, StoreInv, WindowInv, TypeOK, Functional, WindowRecord
  <2>1. ASSUME NEW s \in Gone(w)'
        PROVE  \E r \in Request :
                 /\ s = <<work[r].lease, s[2]>> /\ s[2] \in 1 .. MostDue
                 /\ work[r].lease \in 1 .. tokenSequence /\ w \in work[r].windows
                 /\ s[2] <= Most(r, w)' /\ ~Unsettled(r)'
    <3>1. PICK r \in Request : /\ work[r].lease = s[1] /\ w \in work[r].windows
                               /\ s[2] <= Most(r, w)'
      BY <2>1 DEF Gone, Slots
    <3>2. /\ s = <<s[1], s[2]>> /\ s[2] \in 1 .. MostDue /\ s[1] # 0
          /\ s[1] \notin DOMAIN leases'
      BY <2>1 DEF Gone, Slots
    <3>3. BoundOK(r)
      BY DEF FundInv, BoundInv
    <3> QED BY <3>1, <3>2, <3>3 DEF BoundOK, Unsettled
  <2>2. CASE w \notin DOMAIN WindowsAt(clock)
    <3>1. ASSUME NEW s \in Gone(w)' PROVE FALSE
      BY <1>1, <2>1, <2>2
    <3>2. Cardinality(Gone(w)') = 0
      BY <3>1, FS_EmptySet
    <3> QED BY <2>0, <3>2
  <2>3. CASE w \in DOMAIN WindowsAt(clock)
    <3> DEFINE E == ExpiredIn(w, clock) \X (1 .. Reserve)
               P == Closing(closed, w) \X (1 .. charge)
    <3>1. Gone(w)' \subseteq (Gone(w) \cup E) \cup P
      <4> SUFFICES ASSUME NEW s \in Gone(w)' PROVE s \in Gone(w) \cup E \cup P
        OBVIOUS
      <4>1. PICK r \in Request :
                 /\ s = <<work[r].lease, s[2]>> /\ s[2] \in 1 .. MostDue
                 /\ work[r].lease \in 1 .. tokenSequence /\ w \in work[r].windows
                 /\ s[2] <= Most(r, w)' /\ ~Unsettled(r)'
        BY <2>1
      <4>2. PICK n, x, most : n = s[2] /\ x = work[r].lease /\ most = Most(r, w)'
        OBVIOUS
      <4>3. s = <<x, n>> /\ n \in 1 .. MostDue /\ x \in 1 .. tokenSequence /\ n <= most
        BY <4>1, <4>2
      <4>4. /\ most \in Nat
            /\ \/ ~Unsettled(r) /\ most <= Most(r, w)
               \/ x \in ExpiredIn(w, clock) /\ most <= Reserve
               \/ x \in Closing(closed, w) /\ most <= charge
        BY <2>3, <4>1, <4>2, WorldSlots
      <4>5. CASE ~Unsettled(r) /\ most <= Most(r, w)
        <5>1. Most(r, w) \in Nat
          BY WorkTypes DEF Most, Counted
        <5>2. n <= Most(r, w)
          BY <4>3, <4>4, <4>5, <5>1
        <5>3. x \notin DOMAIN leases
          BY <4>2, <4>5 DEF Unsettled
        <5> QED BY <4>1, <4>2, <4>3, <5>2, <5>3 DEF Gone, Slots
      <4>6. CASE x \in ExpiredIn(w, clock) /\ most <= Reserve
        <5>1. n \in 1 .. Reserve
          BY <1>0, <4>3, <4>4, <4>6
        <5> QED BY <4>3, <4>6, <5>1
      <4>7. CASE x \in Closing(closed, w) /\ most <= charge
        <5>1. n \in 1 .. charge
          BY <4>3, <4>4, <4>7
        <5> QED BY <4>3, <4>7, <5>1
      <4> QED BY <4>4, <4>5, <4>6, <4>7
    <3>2. /\ IsFiniteSet(ExpiredIn(w, clock)) /\ w \in DOMAIN windows
          /\ windows[w].committed \in Nat /\ WindowsAt(clock)[w].committed \in Nat
          /\ WindowsAt(clock)[w].committed =
               windows[w].committed + Reserve * Cardinality(ExpiredIn(w, clock))
      BY <2>3, PruneCommits
    <3>3. IsFiniteSet(Closing(closed, w))
      BY FS_Subset DEF Closing
    <3>4. /\ IsFiniteSet(E) /\ Cardinality(E) = Reserve * Cardinality(ExpiredIn(w, clock))
          /\ IsFiniteSet(P) /\ Cardinality(P) = charge * Cardinality(Closing(closed, w))
      BY <1>0, <3>2, <3>3, Rectangle
    <3>5. windows[w].committed >= Cardinality(Gone(w))
      BY <3>2 DEF FundInv, ChargedInv
    <3>6. windows'[w].committed >= WindowsAt(clock)[w].committed + Cardinality(P)
      BY <2>3, <3>4 DEF StoreEnds
    <3>7. IsFiniteSet(Gone(w))
      BY SlotsFinite
    <3> HIDE DEF E, P
    <3>8. /\ IsFiniteSet(Gone(w) \cup E) /\ Cardinality(Gone(w)) \in Nat
          /\ Cardinality(E) \in Nat /\ Cardinality(Gone(w) \cup E) \in Nat
          /\ Cardinality(Gone(w) \cup E) <= Cardinality(Gone(w)) + Cardinality(E)
      BY <3>4, <3>7, CoverCount
    <3>9. /\ Cardinality(Gone(w)') \in Nat /\ Cardinality(P) \in Nat
          /\ Cardinality(Gone(w)') <= Cardinality(Gone(w) \cup E) + Cardinality(P)
      BY <3>1, <3>4, <3>8, CoverCount
    <3>10. WindowsAt(clock)[w].committed = windows[w].committed + Cardinality(E)
      BY <3>2, <3>4
    <3> QED BY <2>0, <3>2, <3>5, <3>6, <3>8, <3>9, <3>10
  <2> QED BY <2>2, <2>3
<1>4. ChargedInv'
  BY <1>3 DEF ChargedInv
<1> QED BY <1>2, <1>4

\* Nothing is closed but what expired.
Prunes == \A uncertain : StoreEnds({}, 0, uncertain)

LEMMA NoneClosed ==
  ASSUME NEW w
  PROVE  IsFiniteSet({}) /\ Closing({}, w) = {} /\ Cardinality(Closing({}, w)) = 0
<1>1. Closing({}, w) = {}
  BY DEF Closing
<1> QED BY <1>1, FS_EmptySet

LEMMA PruneEnds ==
  ASSUME ChatInv, lastNow' = clock, leases' = LeasesAt(clock), windows' = WindowsAt(clock)
  PROVE  Prunes
<1>1. /\ DOMAIN leases' = LiveLeases(clock)
      /\ \A i \in LiveLeases(clock) : leases'[i] = leases[i]
  BY LeaseNumbers
<1>2. \A w \in DOMAIN WindowsAt(clock) :
        /\ windows'[w].committed >=
             WindowsAt(clock)[w].committed + 0 * Cardinality(Closing({}, w))
        /\ Closing({}, w) = {}
  BY NoneClosed, PruneCommits
<1> QED BY <1>1, <1>2 DEF Prunes, StoreEnds

LEMMA GrantEnds ==
  ASSUME ChatInv, lastNow' = clock, GrantLease(clock)
  PROVE  Prunes
<1> DEFINE new == [expires |-> clock + LeaseTTL, windows |-> WindowsOf(clock),
                   renewals |-> RenewalTicks]
<1>1. leases' = Put(LeasesAt(clock), NextId, new) /\ windows' = Reserved(clock)
  BY DEF GrantLease
<1> HIDE DEF new
<1>2. /\ DOMAIN leases' = LiveLeases(clock) \cup {NextId}
      /\ \A i \in LiveLeases(clock) : i # NextId => leases'[i] = leases[i]
      /\ NextId \notin 1 .. tokenSequence /\ LiveLeases(clock) \subseteq DOMAIN leases
      /\ NextId \notin LiveLeases(clock)
  <2>1. NextId \notin 1 .. tokenSequence
    BY LeaseNumbers DEF NextId
  <2> QED BY <1>1, <2>1, LeaseNumbers DEF Put
<1>3. DOMAIN windows' = DOMAIN WindowsAt(clock) \cup WindowsOf(clock)
  BY <1>1 DEF Reserved
<1>4. WindowInv /\ clock \in Instant
  BY DEF ChatInv, StoreInv, ClockInv
<1>5. ASSUME NEW w \in DOMAIN WindowsAt(clock)
      PROVE  /\ windows'[w].committed >=
                  WindowsAt(clock)[w].committed + 0 * Cardinality(Closing({}, w))
             /\ windows'[w].uncertain = WindowsAt(clock)[w].uncertain
             /\ windows'[w].overrun = WindowsAt(clock)[w].overrun
             /\ Closing({}, w) = {}
  <2>1. WindowsAt(clock)[w] \in WindowRecord /\ WindowAt(w, clock) = WindowsAt(clock)[w]
    BY <1>4, <1>5, WindowsAtOK DEF Functional, WindowAt
  <2>2. /\ windows'[w].committed = WindowsAt(clock)[w].committed
        /\ windows'[w].uncertain = WindowsAt(clock)[w].uncertain
        /\ windows'[w].overrun = WindowsAt(clock)[w].overrun
    BY <1>1, <1>5, <2>1 DEF Reserved, WindowRecord
  <2>3. /\ 0 * Cardinality(Closing({}, w)) = 0 /\ WindowsAt(clock)[w].committed \in Nat
        /\ Closing({}, w) = {}
    BY <1>5, NoneClosed, PruneCommits
  <2> QED BY <2>2, <2>3
<1>6. ASSUME NEW w \in WindowsOf(clock)
      PROVE  WindowEnd(w) \in Nat /\ WindowEnd(w) > clock
  <2>1. w \in Period \X Nat /\ clock < WindowEnd(w)
    BY <1>4, WindowShape
  <2>2. PICK n \in Nat, l \in Nat : n = w[2] + 1 /\ l = PeriodLength(w[1])
    BY <2>1, PeriodLengthPositive
  <2>3. n * l \in Nat /\ WindowEnd(w) = n * l
    BY <2>2 DEF WindowEnd
  <2> QED BY <2>1, <2>3, LeaseNumbers
<1> QED BY <1>2, <1>3, <1>5, <1>6 DEF Prunes, StoreEnds

LEMMA ExtendEnds ==
  ASSUME ChatInv, lastNow' = clock, windows' = WindowsAt(clock), NEW h, Renewable(h, clock),
         leases' = [LeasesAt(clock) EXCEPT ![h.id].expires = clock + LeaseTTL,
                                           ![h.id].renewals = @ - 1]
  PROVE  Prunes
<1>1. DOMAIN leases' = LiveLeases(clock)
  BY LeaseNumbers
<1>2. h.id \in LiveLeases(clock)
  BY DEF Renewable
<1>3. ASSUME NEW i \in LiveLeases(clock) PROVE leases'[i].windows = leases[i].windows
  <2>1. CASE i = h.id
    BY <1>2, <2>1, LeaseNumbers DEF LeaseRecord
  <2>2. CASE i # h.id
    BY <2>2, LeaseNumbers
  <2> QED BY <2>1, <2>2
<1>4. \A w \in DOMAIN WindowsAt(clock) :
        /\ windows'[w].committed >=
             WindowsAt(clock)[w].committed + 0 * Cardinality(Closing({}, w))
        /\ Closing({}, w) = {}
  BY NoneClosed, PruneCommits
<1> QED BY <1>1, <1>3, <1>4 DEF Prunes, StoreEnds

LEMMA SettleOverruns ==
  ASSUME NEW w, NEW old \in WindowRecord, NEW charge \in Nat, NEW uncertain,
         charge > Reserve
  PROVE  Settle(w, old, 1, charge, uncertain).overrun
<1> DEFINE committed == old.committed + 1 * charge
           reserved == old.reserved - 1 * Reserve
<1>1. Settle(w, old, 1, charge, uncertain).overrun =
        (\/ old.overrun \/ charge > Reserve \/ committed + reserved > Budget(w))
  BY DEF Settle
<1> QED BY <1>1

LEMMA CloseEnds ==
  ASSUME ChatInv, lastNow' = clock, NEW id \in LiveLeases(clock), NEW charge \in Nat,
         NEW uncertain \in BOOLEAN,
         leases' = Without(LeasesAt(clock), id),
         windows' = [w \in DOMAIN WindowsAt(clock) |->
                       IF w \in leases[id].windows
                       THEN Settle(w, WindowsAt(clock)[w], 1, charge, uncertain)
                       ELSE WindowsAt(clock)[w]]
  PROVE  IsFiniteSet({id}) /\ StoreEnds({id}, charge, uncertain)
<1>1. /\ DOMAIN leases' = LiveLeases(clock) \ {id}
      /\ \A i \in DOMAIN leases' : leases'[i] = leases[i]
  BY LeaseNumbers DEF Without, Restrict
<1>2. DOMAIN windows' = DOMAIN WindowsAt(clock)
  OBVIOUS
<1>3. ASSUME NEW w \in DOMAIN WindowsAt(clock)
      PROVE  /\ windows'[w].committed >=
                  WindowsAt(clock)[w].committed + charge * Cardinality(Closing({id}, w))
             /\ WindowsAt(clock)[w].uncertain => windows'[w].uncertain
             /\ WindowsAt(clock)[w].overrun => windows'[w].overrun
             /\ Closing({id}, w) # {} =>
                  /\ uncertain => windows'[w].uncertain
                  /\ charge > Reserve => windows'[w].overrun
  <2>0. PICK c \in Nat : c = WindowsAt(clock)[w].committed
    BY <1>3, PruneCommits
  <2>1. CASE w \in leases[id].windows
    <3>1. Closing({id}, w) = {id}
      BY <2>1 DEF Closing
    <3>2. Cardinality(Closing({id}, w)) = 1
      BY <3>1, FS_Singleton
    <3>3. WindowsAt(clock)[w] \in WindowRecord
      BY <1>3, WindowsAtOK DEF Functional, ChatInv, StoreInv, ClockInv
    <3>4. PICK old \in WindowRecord : old = WindowsAt(clock)[w]
      BY <3>3
    <3>5. PICK new : /\ new = Settle(w, old, 1, charge, uncertain)
                     /\ new.committed = old.committed + 1 * charge
                     /\ old.uncertain => new.uncertain
                     /\ old.overrun => new.overrun
                     /\ uncertain => new.uncertain
                     /\ charge > Reserve => new.overrun
      BY SettleFits, SettleOverruns
    <3>6. windows'[w] = new
      BY <1>3, <2>1, <3>4, <3>5
    <3>7. c + 1 * charge >= c + charge * 1
      BY <2>0
    <3> QED BY <2>0, <3>2, <3>4, <3>5, <3>6, <3>7
  <2>2. CASE w \notin leases[id].windows
    <3>1. Closing({id}, w) = {}
      BY <2>2 DEF Closing
    <3>2. Cardinality(Closing({id}, w)) = 0
      BY <3>1, FS_EmptySet
    <3>3. PICK old : old = WindowsAt(clock)[w] /\ windows'[w] = old
      BY <1>3, <2>2
    <3>4. old.committed >= old.committed + charge * 0
      BY <2>0, <3>3
    <3> QED BY <3>1, <3>2, <3>3, <3>4
  <2> QED BY <2>1, <2>2
<1>4. IsFiniteSet({id})
  BY FS_Singleton
<1> QED BY <1>1, <1>2, <1>3, <1>4 DEF StoreEnds

\* A message closes at most the lease it settles, as it says.
LEMMA ExecuteEnds ==
  ASSUME ChatInv, NEW m \in messages, Execute(m)
  PROVE  \/ Prunes
         \/ /\ m.kind = "finalize" /\ m.args[2] \in Nat /\ IsFiniteSet({m.args[1].id})
            /\ StoreEnds({m.args[1].id}, m.args[2], m.args[3])
<1>0. lastNow' = clock
  BY DEF Execute, AdmitOrEnqueue, WaitForAdmission, Renew, CancelTicket, Finalize, Enters
<1>1. CASE m.kind = "admit_or_enqueue" /\ AdmitOrEnqueue(m.op, m.args[1], m.args[2], clock)
  <2>1. \/ leases' = LeasesAt(clock) /\ windows' = WindowsAt(clock)
        \/ GrantLease(clock)
    BY <1>1 DEF AdmitOrEnqueue, AdmitReplayed, AdmitThrottled, AdmitRefused, AdmitDenied,
                AdmitGranted, AdmitQueued, OnlyPrune
  <2> QED BY <1>0, <2>1, PruneEnds, GrantEnds
<1>2. CASE m.kind = "wait_for_admission" /\ WaitForAdmission(m.op, m.args, clock)
  <2>1. \/ leases' = LeasesAt(clock) /\ windows' = WindowsAt(clock)
        \/ GrantLease(clock)
    BY <1>2 DEF WaitForAdmission, Replayed, PollRefused, Refused, PollGone, PollPending,
                PollDenied, PollAdmitted, OnlyPrune
  <2> QED BY <1>0, <2>1, PruneEnds, GrantEnds
<1>3. CASE m.kind = "renew" /\ Renew(m.op, m.args, clock)
  <2>1. CASE RenewGranted(m.op, m.args, clock)
    BY <1>0, <2>1, ExtendEnds DEF RenewGranted, RenewAnswered
  <2>2. CASE leases' = LeasesAt(clock) /\ windows' = WindowsAt(clock)
    BY <1>0, <2>2, PruneEnds
  <2> QED BY <1>3, <2>1, <2>2
          DEF Renew, Replayed, RenewRefused, Refused, RenewLost, RenewAnswered, OnlyPrune
<1>4. CASE m.kind = "cancel_ticket" /\ CancelTicket(m.op, m.args, clock)
  <2>1. leases' = LeasesAt(clock) /\ windows' = WindowsAt(clock)
    BY <1>4 DEF CancelTicket, Replayed, CancelRefused, Refused, CancelDone, OnlyPrune
  <2> QED BY <1>0, <2>1, PruneEnds
<1>5. CASE m.kind = "finalize" /\ Finalize(m.op, m.args[1], m.args[2], m.args[3], clock)
  <2>1. CASE FinalizeSettled(m.op, m.args[1], m.args[2], m.args[3], clock)
    <3>1. m.args[1].id \in LiveLeases(clock)
      BY <2>1 DEF FinalizeSettled, FinalizeRoom
    <3>2. m.args \in IssuedHandle \X Charges \X BOOLEAN
      BY <1>5 DEF ChatInv, RequestInv, MessageInv, Servable
    <3>3. m.args[2] \in Nat /\ m.args[3] \in BOOLEAN
      BY <3>2, ConfigAssumption
    <3>4. PICK id, charge, uncertain :
            id = m.args[1].id /\ charge = m.args[2] /\ uncertain = m.args[3]
      OBVIOUS
    <3>5. /\ leases' = Without(LeasesAt(clock), id)
          /\ windows' = [w \in DOMAIN WindowsAt(clock) |->
                           IF w \in leases[id].windows
                           THEN Settle(w, WindowsAt(clock)[w], 1, charge, uncertain)
                           ELSE WindowsAt(clock)[w]]
      BY <2>1, <3>4 DEF FinalizeSettled
    <3>6. IsFiniteSet({id}) /\ StoreEnds({id}, charge, uncertain)
      BY <1>0, <3>1, <3>3, <3>4, <3>5, CloseEnds
    <3> QED BY <1>5, <3>3, <3>4, <3>6
  <2>2. CASE leases' = LeasesAt(clock) /\ windows' = WindowsAt(clock)
    BY <1>0, <2>2, PruneEnds
  <2> QED BY <1>5, <2>1, <2>2 DEF Finalize, Replayed, FinalizeRefused, Refused, OnlyPrune
<1> QED BY <1>1, <1>2, <1>3, <1>4, <1>5 DEF Execute

-----------------------------------------------------------------------------
(* The work under a lease, while the world moves.                          *)

\* A step of the store leaves claims, but for the id it issues.
LEMMA WorldClaims ==
  ASSUME ChatInv, TenureInv, NEW m, ReceiptStep(m),
         UNCHANGED <<phase, lease, ticket>>,
         \A r \in Request : call'[r].op = call[r].op /\
           (call'[r].reply = call[r].reply \/
              (call[r].op = m.op /\ call'[r].reply = AnswerTo(m))),
         NEW r \in Request, NEW i \in 1 .. tokenSequence, Claims(r, i)'
  PROVE  Claims(r, i)
<1>1. \A op \in DOMAIN receipts' :
        \/ op \in DOMAIN receipts /\ receipts'[op] = receipts[op]
        \/ receipts'[op].outcome.type \in Grant => receipts'[op].outcome.id = NextId
  BY DEF ReceiptStep, Tells
<1>2. i # NextId
  BY AllowanceTypes
<1>3. ASSUME NEW o, Hears(r, o)', o.type \in Grant, o.id = i
      PROVE  Hears(r, o)
  <2>1. phase[r] \in Waiting /\ call'[r].op = call[r].op
    BY <1>3 DEF Hears
  <2>2. ASSUME call[r].op \in DOMAIN receipts', o = receipts'[call[r].op].outcome
        PROVE  Hears(r, o)
    BY <1>1, <1>2, <1>3, <2>1, <2>2 DEF Hears
  <2>3. \/ o = call[r].reply
        \/ call[r].op = m.op /\ o = AnswerTo(m)
        \/ call[r].op \in DOMAIN receipts' /\ o = receipts'[call[r].op].outcome
    BY <1>3, <2>1 DEF Hears
  <2>4. CASE call[r].op = m.op /\ o = AnswerTo(m)
    <3>1. Failure.type \notin Grant
      BY DEF Failure, Grant
    <3> QED BY <1>3, <2>2, <2>4, <3>1 DEF AnswerTo
  <2>5. CASE o = call[r].reply
    BY <2>1, <2>5 DEF Hears
  <2> QED BY <2>2, <2>3, <2>4, <2>5
<1> QED BY <1>3 DEF Claims

\* The records of work under a lease stay true while its request stands still.
LEMMA WorldBound ==
  ASSUME ChatInv, TenureInv, FundInv, NEW closed, NEW charge, NEW uncertain,
         StoreEnds(closed, charge, uncertain),
         UNCHANGED <<work, lease, phase>>,
         tokenSequence' \in Nat, tokenSequence <= tokenSequence',
         \A r \in Request, i \in 1 .. tokenSequence : Claims(r, i)' => Claims(r, i)
  PROVE  BoundInv'
<1> SUFFICES ASSUME NEW r \in Request PROVE BoundOK(r)'
  BY DEF BoundInv
<1>0. BoundOK(r) /\ tokenSequence \in Nat /\ lastNow \in Nat /\ clock \in Nat
      /\ lastNow <= clock /\ lastNow' = clock
  BY LeaseNumbers DEF FundInv, BoundInv, StoreEnds
<1>1. CASE work[r].lease = 0
  BY <1>0, <1>1 DEF BoundOK
<1>2. CASE work[r].lease # 0
  <2>1. /\ work[r].bound /\ work[r].lease \in 1 .. tokenSequence
        /\ phase[r] \notin Unbound
        /\ \/ lease[r] = work[r].lease
           \/ lease[r] = 0 /\ phase[r] \in {"settling", "done"}
        /\ work[r].lease \in DOMAIN leases =>
             leases[work[r].lease].windows = work[r].windows
        /\ \A w \in work[r].windows : w \in DOMAIN windows \/ WindowEnd(w) <= lastNow
        /\ \A s \in Request \ {r} :
             work[s].lease # work[r].lease /\ ~Claims(s, work[r].lease)
    BY <1>0, <1>2 DEF BoundOK
  <2>2. work[r].lease \in 1 .. tokenSequence'
    BY <1>0, <2>1
  <2>3. work[r].lease \in DOMAIN leases' =>
          leases'[work[r].lease].windows = work[r].windows
    BY <2>1 DEF StoreEnds, LiveLeases
  <2>4. ASSUME NEW w \in work[r].windows
        PROVE  w \in DOMAIN windows' \/ WindowEnd(w) <= lastNow'
    <3>1. CASE w \in DOMAIN WindowsAt(clock)
      BY <3>1 DEF StoreEnds
    <3>2. WindowEnd(w) \in Nat
      <4>1. w \in Period \X Nat
        BY <2>4 DEF ChatInv, RequestInv, WorkInv, Work
      <4>2. PICK n \in Nat, l \in Nat : n = w[2] + 1 /\ l = PeriodLength(w[1])
        BY <4>1, PeriodLengthPositive
      <4>3. n * l \in Nat /\ WindowEnd(w) = n * l
        BY <4>2 DEF WindowEnd
      <4> QED BY <4>3
    <3>3. CASE w \notin DOMAIN WindowsAt(clock)
      <4>1. w \in DOMAIN windows => ~(WindowEnd(w) > clock)
        BY <3>3 DEF WindowsAt, WindowKept
      <4>2. WindowEnd(w) <= clock
        BY <1>0, <2>1, <2>4, <3>2, <4>1
      <4>3. WindowEnd(w) <= lastNow'
        BY <1>0, <4>2
      <4> QED BY <4>3 DEF WindowEnd, PeriodLength
    <3> QED BY <3>1, <3>3
  <2>5. \A s \in Request \ {r} :
          work'[s].lease # work'[r].lease /\ ~Claims(s, work[r].lease)'
    BY <2>1
  <2> QED BY <1>2, <2>1, <2>2, <2>3, <2>4, <2>5 DEF BoundOK
<1> QED BY <1>1, <1>2

LEMMA PaysStays ==
  ASSUME UNCHANGED <<work, lease>>, NEW args, Paid(args)
  PROVE  Paid(args)'
BY DEF Paid, Pays, Covered

LEMMA WorldSettles ==
  ASSUME FundInv, UNCHANGED <<work, lease, phase>>, messages' \subseteq messages,
         \A r \in Request : call'[r].kind = call[r].kind /\ call'[r].args = call[r].args
  PROVE  SettlementInv'
<1>1. \A m \in messages' : m.kind = "finalize" => Paid(m.args)'
  BY PaysStays DEF FundInv, SettlementInv
<1>2. ASSUME NEW r \in Request, phase'[r] \in Waiting, call'[r].kind = "finalize"
      PROVE  Paid(call[r].args)'
  <2>1. PICK args : args = call[r].args
    OBVIOUS
  <2>2. Paid(args)
    BY <1>2, <2>1 DEF FundInv, SettlementInv
  <2>3. Paid(args)'
    BY <2>2, PaysStays
  <2>4. args = call'[r].args
    BY <2>1
  <2> QED BY <2>3, <2>4 DEF Paid, Pays, Covered
<1> QED BY <1>1, <1>2 DEF SettlementInv

LEMMA LandFund ==
  ASSUME ChatInv, TenureInv, FundInv, ChatInv', NEW m \in messages, Land(m)
  PROVE  FundInv'
<1>1. /\ UNCHANGED <<clock, phase, ticket, lease, work>>
      /\ messages' \subseteq messages /\ Execute(m)
  BY DEF Land
<1>2. \A r \in Request :
       /\ call'[r].op = call[r].op /\ call'[r].kind = call[r].kind
       /\ call'[r].args = call[r].args
       /\ \/ call'[r].reply = call[r].reply
          \/ call[r].op = m.op /\ call'[r].reply = AnswerTo(m)
  BY DEF Land, Expects, ChatInv, RequestInv, CallInv, CallOK, CallField
<1>3. ReceiptStep(m)
  BY <1>1, ExecuteAllowance DEF AllowanceStep
<1>4. \A r \in Request, i \in 1 .. tokenSequence : Claims(r, i)' => Claims(r, i)
  BY <1>1, <1>2, <1>3, WorldClaims
<1>5. tokenSequence' \in Nat /\ tokenSequence <= tokenSequence'
  <2>1. Next
    BY LandOK
  <2> QED BY <2>1, IdsGrow DEF ChatInv, StoreInv
<1>6. \E closed, charge, uncertain :
        /\ IsFiniteSet(closed) /\ charge \in Nat
        /\ StoreEnds(closed, charge, uncertain)
        /\ \A i \in closed : Pays(i, charge, uncertain)
  <2>1. CASE Prunes
    <3>1. IsFiniteSet({})
      BY FS_EmptySet
    <3>2. PICK uncertain : StoreEnds({}, 0, uncertain)
      BY <2>1 DEF Prunes
    <3> QED BY <3>1, <3>2
  <2>2. CASE /\ m.kind = "finalize" /\ m.args[2] \in Nat /\ IsFiniteSet({m.args[1].id})
             /\ StoreEnds({m.args[1].id}, m.args[2], m.args[3])
    <3>1. Pays(m.args[1].id, m.args[2], m.args[3])
      BY <2>2 DEF FundInv, SettlementInv, Paid
    <3> QED BY <2>2, <3>1
  <2> QED BY <1>1, <2>1, <2>2, ExecuteEnds
<1>7. PICK closed, charge, uncertain :
        /\ IsFiniteSet(closed) /\ charge \in Nat
        /\ StoreEnds(closed, charge, uncertain)
        /\ \A i \in closed : Pays(i, charge, uncertain)
  BY <1>6
<1>8. ChargedInv' /\ MarkedInv'
  BY <1>1, <1>7, WorldCharged
<1>9. BoundInv'
  BY <1>1, <1>4, <1>5, <1>7, WorldBound
<1>10. SettlementInv'
  BY <1>1, <1>2, WorldSettles
<1> QED BY <1>8, <1>9, <1>10 DEF FundInv

LEMMA ProbeFund ==
  ASSUME ChatInv, TenureInv, FundInv, ChatInv', Probe
  PROVE  FundInv'
<1>1. /\ UNCHANGED <<clock, phase, ticket, lease, work, call, messages, tokenSequence>>
      /\ lastNow' = clock /\ leases' = LeasesAt(clock) /\ windows' = WindowsAt(clock)
      /\ receipts' = ReceiptsAt(clock)
  BY DEF Probe, requests, CheckBudgetReadiness, OnlyPrune
<1>2. PICK m : m = [kind |-> "none", op |-> 0, args |-> 0]
  OBVIOUS
<1>3. ReceiptStep(m)
  BY <1>1, PruneReceipts
<1>4. \A r \in Request, i \in 1 .. tokenSequence : Claims(r, i)' => Claims(r, i)
  BY <1>1, <1>3, WorldClaims
<1>5. PICK uncertain : StoreEnds({}, 0, uncertain) /\ IsFiniteSet({})
  BY <1>1, PruneEnds, FS_EmptySet DEF Prunes
<1>6. tokenSequence' \in Nat /\ tokenSequence <= tokenSequence'
  BY <1>1, Settled2
<1>7. ChargedInv' /\ MarkedInv' /\ BoundInv'
  BY <1>1, <1>4, <1>5, <1>6, WorldCharged, WorldBound
<1>8. SettlementInv'
  BY <1>1, WorldSettles
<1> QED BY <1>7, <1>8 DEF FundInv

LEMMA TickFund ==
  ASSUME ChatInv, TenureInv, FundInv, Tick
  PROVE  FundInv'
<1>1. UNCHANGED <<vars, requests>> /\ messages' \subseteq messages
  BY DEF Tick
<1>2. UNCHANGED <<lastNow, leases, windows, receipts, tokenSequence, phase, call, ticket,
                  lease, work>>
  BY <1>1 DEF vars, requests
<1>3. ChargedInv' /\ MarkedInv'
  BY <1>2 DEF FundInv, ChargedInv, Gone, Slots, Most, Counted, Covered, MarkedInv, MarkOK,
              Unsettled
<1>4. \A r, i : Claims(r, i)' <=> Claims(r, i)
  BY <1>2 DEF Claims, Hears
<1>5. BoundInv'
  BY <1>2, <1>4 DEF FundInv, BoundInv, BoundOK
<1>6. SettlementInv'
  BY <1>1, <1>2, WorldSettles
<1> QED BY <1>3, <1>5, <1>6 DEF FundInv

-----------------------------------------------------------------------------
(* The work under a lease, while its request moves.                        *)

\* Work starts only at the beginning of the stream; what was done under a
\* lease does not change once the lease is given up.
WorkMoves(r) ==
  /\ \A s \in Request \ {r} : work'[s] = work[s]
  /\ work'[r].lease = work[r].lease /\ work'[r].windows = work[r].windows
  /\ IF work[r].lease = 0 THEN work'[r] = work[r]
     ELSE /\ work'[r].bound /\ phase'[r] \notin Unbound
          /\ \/ lease'[r] = lease[r] /\ (lease[r] = 0 => phase'[r] \in {"settling", "done"})
             \/ lease'[r] = 0 /\ phase'[r] \in {"settling", "done"}
          /\ lease[r] = 0 => /\ work'[r].due = work[r].due
                             /\ work'[r].attempts = work[r].attempts

LEMMA QuietCharged ==
  ASSUME ChatInv, FundInv, ChatInv', Quiet, NEW r \in Request, Alone(r), WorkMoves(r)
  PROVE  ChargedInv' /\ MarkedInv'
<1>1. UNCHANGED <<leases, windows, tokenSequence>>
  BY DEF Quiet, vars
<1>2. Reserve \in Nat
  BY WorkTypes
<1>3. \A s \in Request :
        /\ work'[s].lease = work[s].lease /\ work'[s].windows = work[s].windows
        /\ Unsettled(s)' <=> Unsettled(s)
  BY <1>1 DEF WorkMoves, Unsettled
<1>4. ASSUME NEW s \in Request, work[s].lease # 0, lease[s] = 0 \/ s # r
      PROVE  /\ lease'[s] = lease[s]
             /\ work'[s].due = work[s].due /\ Covered(s)' = Covered(s)
  <2>1. CASE s # r
    BY <2>1 DEF Alone, WorkMoves, Covered
  <2>2. CASE s = r /\ lease[r] = 0
    BY <1>4, <2>2 DEF WorkMoves, Covered
  <2> QED BY <1>4, <2>1, <2>2
<1>5. ASSUME NEW s \in Request, NEW w \in work[s].windows, w \in DOMAIN windows,
             ~Unsettled(s)
      PROVE  MarkOK(s, w)' /\ Most(s, w)' \in Nat /\ Most(s, w)' <= Most(s, w)
  <2>1. MarkOK(s, w)
    BY <1>5 DEF FundInv, MarkedInv
  <2>2. work[s].lease # 0
    BY <1>5 DEF FundInv, BoundInv, BoundOK
  <2>3. /\ Covered(s)' \in 0 .. Reserve /\ work'[s].due \in Nat
        /\ Covered(s) \in 0 .. Reserve /\ work[s].due \in Nat
    <3>1. /\ \A q \in Request : Covered(q) \in 0 .. Reserve
          /\ \A q \in Request : work[q].due \in Nat
      BY WorkTypes
    <3>2. /\ \A q \in Request : Covered(q)' \in 0 .. Reserve
          /\ \A q \in Request : work'[q].due \in Nat
      <4>1. work' \in [Request -> Work] /\ \A q \in Request : DueOK(work[q])'
        BY DEF ChatInv, RequestInv, WorkInv
      <4>2. ASSUME NEW q \in Request
            PROVE  /\ work'[q].due \in 0 .. MostDue /\ work'[q].attempts \in 0 .. MaxAttempts
        BY <4>1 DEF Work
      <4>3. ASSUME NEW q \in Request
            PROVE  /\ work'[q].due \in Nat /\ Covered(q)' \in 0 .. Reserve
        <5>1. PICK d \in Nat, all \in 0 .. Reserve :
                d = work'[q].due /\ all = PerAttempt * work'[q].attempts
          BY <4>2, AttemptCosts
        <5>2. Covered(q)' = IF d <= all THEN d ELSE all
          BY <5>1 DEF Covered, Lesser
        <5> QED BY <1>2, <5>1, <5>2
      <4> QED BY <4>3
    <3> QED BY <3>1, <3>2
  <2>4. CASE windows[w].uncertain
    <3>1. MarkOK(s, w)'
      BY <1>1, <2>4 DEF MarkOK
    <3>2. Most(s, w) = IF lease[s] # 0 THEN Reserve ELSE Covered(s)
      BY <2>4 DEF Most, Counted
    <3>3. Most(s, w)' = IF lease'[s] # 0 THEN Reserve ELSE Covered(s)'
      BY <1>1, <2>4 DEF Most, Counted
    <3>4. CASE lease[s] = 0 \/ s # r
      BY <1>2, <1>4, <2>2, <2>3, <3>1, <3>2, <3>3, <3>4
    <3>5. CASE lease[s] # 0
      BY <1>2, <2>3, <3>1, <3>2, <3>3, <3>5
    <3> QED BY <3>4, <3>5
  <2>5. CASE ~windows[w].uncertain
    <3>1. lease[s] = 0 /\ (work[s].due > Reserve => windows[w].overrun)
      BY <2>1, <2>5 DEF MarkOK
    <3>2. lease'[s] = 0 /\ work'[s].due = work[s].due
      BY <1>4, <2>2, <3>1
    <3>3. MarkOK(s, w)'
      BY <1>1, <3>1, <3>2 DEF MarkOK
    <3>4. Most(s, w) = work[s].due
      BY <1>5, <2>5, <3>1 DEF Most, Counted
    <3>5. Most(s, w)' = work'[s].due
      BY <1>1, <1>3, <1>5, <2>5, <3>2 DEF Most, Counted
    <3> QED BY <2>3, <3>2, <3>3, <3>4, <3>5
  <2> QED BY <2>4, <2>5
<1>6. MarkedInv'
  BY <1>1, <1>3, <1>5 DEF MarkedInv
<1>7. ASSUME NEW w \in DOMAIN windows' PROVE windows'[w].committed >= Cardinality(Gone(w)')
  <2>1. Gone(w)' \subseteq Gone(w)
    <3>1. tokenSequence \in Nat
      BY Settled2
    <3>2. ASSUME NEW x \in 1 .. tokenSequence, x \notin DOMAIN leases,
                 NEW n \in 1 .. MostDue, NEW s \in Request,
                 work'[s].lease = x, w \in work'[s].windows, n <= Most(s, w)'
          PROVE  work[s].lease = x /\ w \in work[s].windows /\ n <= Most(s, w)
      <4>1. work[s].lease = x /\ w \in work[s].windows /\ ~Unsettled(s)
        BY <1>3, <3>2 DEF Unsettled
      <4>2. Most(s, w)' \in Nat /\ Most(s, w)' <= Most(s, w) /\ Most(s, w) \in Nat
        <5>1. Most(s, w) \in Nat
          BY WorkTypes DEF Most, Counted
        <5> QED BY <1>1, <1>5, <4>1, <5>1
      <4>3. n <= Most(s, w)
        BY <3>2, <4>2, WorkTypes
      <4> QED BY <4>1, <4>3
    <3>3. ASSUME NEW y \in Gone(w)' PROVE y \in Gone(w)
      <4>1. PICK x \in 1 .. tokenSequence, n \in 1 .. MostDue, s \in Request :
              /\ y = <<x, n>> /\ x \notin DOMAIN leases
              /\ work'[s].lease = x /\ w \in work'[s].windows /\ n <= Most(s, w)'
        BY <1>1, <3>3 DEF Gone, Slots
      <4>2. work[s].lease = x /\ w \in work[s].windows /\ n <= Most(s, w)
        BY <3>2, <4>1
      <4> QED BY <4>1, <4>2 DEF Gone, Slots
    <3> QED BY <3>3
  <2>2. IsFiniteSet(Gone(w)) /\ IsFiniteSet(Gone(w)')
    BY <2>1, SlotsFinite, FS_Subset
  <2>3. Cardinality(Gone(w)') <= Cardinality(Gone(w))
    BY <2>1, <2>2, FS_Subset
  <2>4. Cardinality(Gone(w)) \in Nat /\ Cardinality(Gone(w)') \in Nat
    BY <2>2, FS_CardinalityType
  <2>5. windows[w].committed \in Nat /\ windows[w].committed >= Cardinality(Gone(w))
    BY <1>1 DEF FundInv, ChargedInv, ChatInv, StoreInv, WindowInv, TypeOK, Functional,
                WindowRecord
  <2> QED BY <1>1, <2>3, <2>4, <2>5
<1> QED BY <1>6, <1>7 DEF ChargedInv

LEMMA QuietBound ==
  ASSUME ChatInv, FundInv, Quiet, NEW r \in Request, Alone(r), WorkMoves(r),
         \A i : Claims(r, i)' => Claims(r, i)
  PROVE  BoundInv'
<1>1. UNCHANGED <<leases, windows, tokenSequence, lastNow, receipts>>
  BY DEF Quiet, vars
<1>2. ASSUME NEW s \in Request, NEW i, Claims(s, i)' PROVE Claims(s, i)
  BY <1>1, <1>2 DEF Claims, Hears, Alone
<1>3. ASSUME NEW s \in Request PROVE BoundOK(s)'
  <2>1. BoundOK(s)
    BY DEF FundInv, BoundInv
  <2>2. CASE s = r /\ work[s].lease = 0
    BY <2>1, <2>2 DEF BoundOK, WorkMoves
  <2>3. CASE work[s].lease # 0
    <3>1. /\ work[s].bound /\ work[s].lease \in 1 .. tokenSequence
          /\ phase[s] \notin Unbound
          /\ \/ lease[s] = work[s].lease
             \/ lease[s] = 0 /\ phase[s] \in {"settling", "done"}
          /\ work[s].lease \in DOMAIN leases =>
               leases[work[s].lease].windows = work[s].windows
          /\ \A w \in work[s].windows : w \in DOMAIN windows \/ WindowEnd(w) <= lastNow
          /\ \A q \in Request \ {s} :
               work[q].lease # work[s].lease /\ ~Claims(q, work[s].lease)
      BY <2>1, <2>3 DEF BoundOK
    <3>2. \A q \in Request : work'[q].lease = work[q].lease
      BY DEF WorkMoves
    <3>3. work'[s].windows = work[s].windows
      BY DEF WorkMoves
    <3>4. \A q \in Request \ {s} :
            work'[q].lease # work'[s].lease /\ ~Claims(q, work[s].lease)'
      <4>1. PICK i : i = work[s].lease
        OBVIOUS
      <4>2. i = work'[s].lease
        BY <3>2, <4>1
      <4>3. \A q \in Request \ {s} : work'[q].lease # i /\ ~Claims(q, i)'
        BY <1>2, <3>1, <3>2, <4>1
      <4> QED BY <4>2, <4>3 DEF Claims, Hears
    <3>5. /\ work'[s].bound /\ phase'[s] \notin Unbound
          /\ \/ lease'[s] = work[s].lease
             \/ lease'[s] = 0 /\ phase'[s] \in {"settling", "done"}
      BY <2>3, <3>1 DEF Alone, WorkMoves
    <3>6. \A w \in work'[s].windows : w \in DOMAIN windows' \/ WindowEnd(w) <= lastNow'
      BY <1>1, <3>1, <3>3
    <3> QED BY <1>1, <2>3, <3>1, <3>2, <3>3, <3>4, <3>5, <3>6 DEF BoundOK
  <2>4. CASE s # r /\ work[s].lease = 0
    <3>1. work'[s] = work[s]
      BY <2>4 DEF WorkMoves
    <3> QED BY <2>1, <2>4, <3>1 DEF BoundOK
  <2> QED BY <2>2, <2>3, <2>4
<1> QED BY <1>3 DEF BoundInv

LEMMA PaysMoves ==
  ASSUME NEW r \in Request, Alone(r), WorkMoves(r),
         NEW args, args[1].id # 0, Paid(args)
  PROVE  Paid(args)'
<1> SUFFICES ASSUME NEW s \in Request, work'[s].lease = args[1].id
             PROVE  /\ lease'[s] = 0 /\ Covered(s)' <= args[2]
                    /\ args[3] \/ work'[s].due <= args[2]
  BY DEF Paid, Pays
<1>1. work[s].lease = args[1].id
  BY DEF WorkMoves
<1>2. lease[s] = 0 /\ Covered(s) <= args[2] /\ (args[3] \/ work[s].due <= args[2])
  BY <1>1 DEF Paid, Pays
<1>3. work'[s].due = work[s].due /\ work'[s].attempts = work[s].attempts /\ lease'[s] = 0
  BY <1>1, <1>2 DEF WorkMoves, Alone
<1>4. Covered(s)' = Covered(s)
  BY <1>3 DEF Covered
<1> QED BY <1>2, <1>3, <1>4

LEMMA QuietFund ==
  ASSUME ChatInv, TenureInv, FundInv, ChatInv', Quiet, NEW r \in Request, Alone(r),
         WorkMoves(r), \A i : Claims(r, i)' => Claims(r, i),
         \A m \in messages' : m \notin messages /\ m.kind = "finalize" => Paid(m.args)',
         phase'[r] \in Waiting /\ call'[r].kind = "finalize" => Paid(call[r].args)'
  PROVE  FundInv'
<1>1. ChargedInv' /\ MarkedInv' /\ BoundInv'
  BY QuietCharged, QuietBound
<1>2. ASSUME NEW m \in messages', m.kind = "finalize"
      PROVE  Paid(m.args)'
  <2>1. CASE m \in messages
    <3>1. PICK args : args = m.args
      OBVIOUS
    <3>2. Paid(args) /\ Released(args[1].id)
      BY <1>2, <2>1, <3>1 DEF FundInv, SettlementInv, TenureInv, ReleasedInv
    <3>3. args[1].id # 0
      BY <3>2, Settled2 DEF Released
    <3> QED BY <3>1, <3>2, <3>3, PaysMoves
  <2> QED BY <1>2, <2>1
<1>3. ASSUME NEW s \in Request \ {r}, phase'[s] \in Waiting, call'[s].kind = "finalize"
      PROVE  Paid(call[s].args)'
  <2>1. call'[s] = call[s] /\ phase'[s] = phase[s]
    BY DEF Alone
  <2>2. PICK args : args = call[s].args
    OBVIOUS
  <2>3. Paid(args) /\ Released(args[1].id)
    BY <1>3, <2>1, <2>2 DEF FundInv, SettlementInv, TenureInv, ReleasedInv
  <2>4. args[1].id # 0
    BY <2>3, Settled2 DEF Released
  <2>5. Paid(args)'
    BY <2>3, <2>4, PaysMoves
  <2>6. args = call'[s].args
    BY <2>1, <2>2
  <2> QED BY <2>5, <2>6 DEF Paid, Pays, Covered
<1>4. SettlementInv'
  BY <1>2, <1>3 DEF SettlementInv
<1> QED BY <1>1, <1>4 DEF FundInv

\* After a step that waits for no call.
LEMMA RestFund ==
  ASSUME ChatInv, TenureInv, FundInv, ChatInv', Quiet, NEW r \in Request, Alone(r),
         WorkMoves(r), messages' = messages, phase'[r] \notin Waiting,
         lease'[r] = 0 \/ Claims(r, lease'[r]),
         ticket'[r] = 0 \/ Claims(r, ticket'[r])
  PROVE  FundInv'
<1>1. \A i : Claims(r, i)' => Claims(r, i)
  BY RestMoves
<1> QED BY <1>1, QuietFund

\* After a step that keeps what the request owns and has done.
LEMMA EndFund ==
  ASSUME ChatInv, TenureInv, FundInv, ChatInv', NEW r \in Request,
         EndCall(r) \/ NoCall, UNCHANGED <<lease, ticket, ticks, work>>,
         waitEnd' = waitEnd \/ (\E e : waitEnd' = [waitEnd EXCEPT ![r] = e]),
         wake' = wake \/ (\E e : wake' = [wake EXCEPT ![r] = e]),
         NEW p, phase' = [phase EXCEPT ![r] = p], p \notin Waiting,
         work[r].lease # 0 => p \notin Unbound /\ (lease[r] = 0 => p = "done")
  PROVE  FundInv'
<1>1. /\ Quiet /\ Alone(r) /\ messages' = messages /\ phase'[r] = p
  BY AloneFacts
<1>2. WorkMoves(r)
  <2>1. work[r].lease # 0 => work[r].bound
    BY DEF FundInv, BoundInv, BoundOK
  <2> QED BY <1>1, <2>1 DEF WorkMoves
<1>3. /\ lease'[r] = 0 \/ Claims(r, lease'[r])
      /\ ticket'[r] = 0 \/ Claims(r, ticket'[r])
  BY DEF Claims
<1> QED BY <1>1, <1>2, <1>3, RestFund

LEMMA WorkPhase ==
  ASSUME FundInv, NEW r \in Request
  PROVE  /\ phase[r] \in Unbound => work[r].lease = 0
         /\ phase[r] \notin {"settling", "done"} => work[r].lease \in {0, lease[r]}
BY DEF FundInv, BoundInv, BoundOK

LEMMA LastFund ==
  ASSUME ChatInv, TenureInv, FundInv, ChatInv', NEW r \in Request,
         WaitEnds(r) \/ Settled(r) \/ Cancelled(r) \/ BeginWait(r)
  PROVE  FundInv'
<1>1. /\ EndCall(r) \/ NoCall
      /\ UNCHANGED <<lease, ticket, ticks, work>>
      /\ waitEnd' = waitEnd \/ (\E e : waitEnd' = [waitEnd EXCEPT ![r] = e])
      /\ wake' = wake \/ (\E e : wake' = [wake EXCEPT ![r] = e])
  BY DEF WaitEnds, Settled, Cancelled, BeginWait, Set
<1>2. PICK p \in {"queued", "closing", "done"} :
        /\ phase' = [phase EXCEPT ![r] = p]
        /\ \/ phase[r] \in Unbound \/ p = "done"
           \/ p = "closing" /\ phase[r] \notin {"settling", "done"}
  BY DEF WaitEnds, Settled, Cancelled, BeginWait, Set, Unbound
<1>3. p \notin Waiting
  BY DEF Waiting
<1>4. work[r].lease # 0 => p \notin Unbound /\ (lease[r] = 0 => p = "done")
  BY <1>2, WorkPhase DEF Unbound
<1> QED BY <1>1, <1>2, <1>3, <1>4, EndFund

LEMMA StreamFund ==
  ASSUME ChatInv, TenureInv, FundInv, ChatInv', NEW r \in Request,
         Produce(r) \/ Resume(r) \/ LeaseEnds(r) \/ RenewalAnswer(r)
  PROVE  FundInv'
<1>1. /\ EndCall(r) \/ NoCall
      /\ UNCHANGED <<lease, ticket, ticks, waitEnd, work>>
      /\ phase[r] \in {"streaming", "sending", "renewing"}
  BY DEF Produce, Resume, LeaseEnds, RenewalAnswer
<1>2. wake' = wake \/ (\E e : wake' = [wake EXCEPT ![r] = e])
  BY DEF Produce, Resume, LeaseEnds, RenewalAnswer, RenewalGranted, RenewalFailed, Set
<1>3. PICK p \in {"streaming", "sending", "closing"} : phase' = [phase EXCEPT ![r] = p]
  BY DEF Produce, Resume, LeaseEnds, RenewalAnswer, RenewalGranted, RenewalFailed, Set
<1>4. p \notin Waiting /\ p \notin Unbound /\ lease[r] # 0
  BY <1>1 DEF Waiting, Unbound, TenureInv, HoldInv, HoldOK
<1> QED BY <1>1, <1>2, <1>3, <1>4, EndFund

\* After a step that sends a call.
LEMMA SendFund ==
  ASSUME ChatInv, TenureInv, FundInv, ChatInv', Quiet, NEW r \in Request, Alone(r),
         WorkMoves(r), NEW c, Sends(r, c), call'[r] = c,
         lease'[r] \in {0, lease[r]}, ticket'[r] \in {0, ticket[r]},
         c.kind = "finalize" => Paid(c.args)'
  PROVE  FundInv'
<1>1. \A i : Claims(r, i)' => Claims(r, i)
  BY SendMoves
<1>2. PICK n : n = Message(r, c)
  OBVIOUS
<1>3. messages' = messages \cup {n} /\ n.kind = c.kind /\ n.args = c.args
  BY <1>2 DEF Sends, Send, Message
<1>4. \A m \in messages' : m \notin messages /\ m.kind = "finalize" =>
        Paid(m.args)'
  BY <1>3
<1>5. call'[r].kind = "finalize" => Paid(call[r].args)'
  <2>1. PICK args : args = c.args
    OBVIOUS
  <2>2. c.kind = "finalize" => Paid(args)'
    BY <2>1
  <2>3. args = call'[r].args
    BY <2>1
  <2> QED BY <2>2, <2>3 DEF Paid, Pays, Covered
<1> QED BY <1>1, <1>4, <1>5, QuietFund

\* A new call for a request that works under no lease, or keeps its own.
LEMMA AskFund ==
  ASSUME ChatInv, TenureInv, FundInv, ChatInv', Quiet, NEW r \in Request,
         NEW kind, NEW args, NEW overall \in Nat, Ask(r, kind, args, overall),
         clock <= overall,
         NEW p \in Waiting, phase' = [phase EXCEPT ![r] = p],
         UNCHANGED <<wake, waitEnd, work>>,
         ticks' = ticks \/ (\E e : ticks' = [ticks EXCEPT ![r] = e]),
         lease' = lease \/ lease' = [lease EXCEPT ![r] = 0],
         ticket' = ticket \/ ticket' = [ticket EXCEPT ![r] = 0],
         work[r].lease # 0 =>
           /\ p \notin Unbound
           /\ \/ lease' = lease /\ lease[r] # 0
              \/ p = "settling",
         kind = "finalize" => Paid(args)'
  PROVE  FundInv'
<1>1. /\ Alone(r) /\ phase'[r] = p
      /\ lease'[r] \in {0, lease[r]} /\ ticket'[r] \in {0, ticket[r]}
      /\ \E c, n : Asked(r, kind, args, c, n)
  BY AskFacts
<1>2. PICK c, n : Asked(r, kind, args, c, n)
  BY <1>1
<1>3. Sends(r, c) /\ call'[r] = c /\ c.kind = kind /\ c.args = args
  BY <1>2 DEF Asked
<1>4. WorkMoves(r)
  <2>1. work[r].lease # 0 => work[r].bound
    BY DEF FundInv, BoundInv, BoundOK
  <2> QED BY <1>1, <2>1 DEF WorkMoves
<1>5. c.kind = "finalize" => Paid(c.args)'
  BY <1>3
<1> QED BY <1>1, <1>3, <1>4, <1>5, SendFund

LEMMA ArriveFund ==
  ASSUME ChatInv, TenureInv, FundInv, ChatInv', NEW r \in Request, Arrive(r)
  PROVE  FundInv'
<1>1. Quiet /\ UNCHANGED <<ticket, lease, wake, waitEnd, ticks, work>> /\ phase[r] = "idle"
  BY DEF Arrive, Quiet
<1>2. PICK ip \in Ip, session \in Session :
        Ask(r, "admit_or_enqueue", <<ip, session>>, Endless)
  BY DEF Arrive
<1>3. PICK k, args, e : k = "admit_or_enqueue" /\ args = <<ip, session>> /\ e = Endless
  OBVIOUS
<1>4. PICK p \in Waiting : p = "admitting" /\ phase' = [phase EXCEPT ![r] = p]
  BY DEF Arrive, Set, Waiting
<1>5. e \in Nat /\ clock <= e
  <2>1. clock \in 0 .. Horizon
    BY DEF ChatInv, ClockInv, Instant
  <2> QED BY <1>3, <2>1, EndlessNat, Timing DEF Endless
<1>6. Ask(r, k, args, e)
  BY <1>2, <1>3
<1>7. work[r].lease = 0 /\ k # "finalize"
  BY <1>1, <1>3, WorkPhase DEF Unbound
<1> QED BY <1>1, <1>4, <1>5, <1>6, <1>7, AskFund

LEMMA PollFund ==
  ASSUME ChatInv, TenureInv, FundInv, ChatInv', NEW r \in Request, Poll(r)
  PROVE  FundInv'
<1>0. Quiet /\ UNCHANGED <<ticket, lease, wake, waitEnd, ticks, work>>
  BY DEF Poll, Quiet
<1>1. phase[r] = "queued" /\ clock < waitEnd[r]
  BY DEF Poll
<1>2. PICK t, e, k : t = ticket[r] /\ e = waitEnd[r] /\ k = "wait_for_admission"
  OBVIOUS
<1>3. PICK args : args = Held(t)
  OBVIOUS
<1>4. Ask(r, k, args, e)
  BY <1>2, <1>3 DEF Poll, Ask, Send, Message, Set, NewOperation, Lesser
<1>5. PICK p \in Waiting : p = "polling" /\ phase' = [phase EXCEPT ![r] = p]
  BY DEF Poll, Set, Waiting
<1>6. e \in Nat /\ clock <= e
  BY <1>1, <1>2, Settled2 DEF ChatInv, RequestInv, TimerInv
<1>7. work[r].lease = 0 /\ k # "finalize"
  BY <1>1, <1>2, WorkPhase DEF Unbound
<1>8. Quiet /\ UNCHANGED <<wake, waitEnd, work>> /\ ticks' = ticks
  BY <1>0
<1>9. /\ lease' = lease \/ lease' = [lease EXCEPT ![r] = 0]
      /\ ticket' = ticket \/ ticket' = [ticket EXCEPT ![r] = 0]
      /\ ticks' = ticks \/ (\E x : ticks' = [ticks EXCEPT ![r] = x])
  BY <1>0
<1>10. phase' = [phase EXCEPT ![r] = p] /\ k # "finalize"
  BY <1>5, <1>7
<1> QED BY ONLY ChatInv, TenureInv, FundInv, ChatInv', r \in Request, p \in Waiting,
            <1>4, <1>6, <1>7, <1>8, <1>9, <1>10, AskFund

LEMMA AskRenewalFund ==
  ASSUME ChatInv, TenureInv, FundInv, ChatInv', NEW r \in Request, AskRenewal(r)
  PROVE  FundInv'
<1>1. /\ Quiet /\ UNCHANGED <<ticket, lease, authority, wake, waitEnd, work>>
      /\ phase[r] = "streaming" /\ HasAuthority(r)
  BY DEF AskRenewal, MayRenew, Quiet
<1>2. PICK h, e, k : h = Held(lease[r]) /\ e = Deadline(r) /\ k = "renew"
  OBVIOUS
<1>3. Ask(r, k, h, e)
  BY <1>2 DEF AskRenewal, Ask, Send, Message, Set, Lesser, NewOperation
<1>4. e \in Nat /\ clock <= e
  BY <1>1, <1>2, Settled2 DEF HasAuthority, Deadline
<1>5. PICK p \in Waiting : p = "renewing" /\ phase' = [phase EXCEPT ![r] = p]
  BY DEF AskRenewal, Set, Waiting
<1>6. ticks' = ticks \/ (\E e2 : ticks' = [ticks EXCEPT ![r] = e2])
  <2>1. ticks' = [ticks EXCEPT ![r] = ticks[r] + 1]
    BY DEF AskRenewal, Set
  <2> QED BY <2>1
<1>7. lease[r] # 0 /\ p \notin Unbound /\ k # "finalize"
  BY <1>1, <1>2, <1>5 DEF TenureInv, HoldInv, HoldOK, Unbound
<1>8. /\ UNCHANGED <<wake, waitEnd, work>> /\ lease' = lease /\ ticket' = ticket
      /\ Quiet /\ lease[r] # 0 /\ p \notin Unbound /\ k # "finalize"
  BY <1>1, <1>7
<1> QED BY ONLY ChatInv, TenureInv, FundInv, ChatInv', r \in Request,
            <1>3, <1>4, <1>5, <1>6, <1>8, AskFund

\* A settlement charges what the session knows to be due, or as uncertain what
\* was reserved for its attempts, or everything.
LEMMA SettlementPays ==
  ASSUME ChatInv, TenureInv, FundInv, NEW r \in Request, phase[r] = "closing",
         lease[r] # 0, NEW settlement \in Settlements(r),
         NEW args, args = <<Held(lease[r]), settlement[1], settlement[2]>>,
         lease' = [lease EXCEPT ![r] = 0], UNCHANGED work
  PROVE  Paid(args)'
<1>1. PICK charge, uncertain : charge = settlement[1] /\ uncertain = settlement[2]
  OBVIOUS
<1>2. args[1].id = lease[r] /\ args[2] = charge /\ args[3] = uncertain
  BY <1>1 DEF Held
<1> SUFFICES ASSUME NEW s \in Request, work[s].lease = lease[r]
             PROVE  /\ lease'[s] = 0 /\ Covered(s) <= charge
                    /\ uncertain \/ work[s].due <= charge
  BY <1>2 DEF Paid, Pays, Covered
<1>3. s = r
  <2>1. Claims(r, lease[r])
    BY OwnLease
  <2> QED BY <2>1 DEF FundInv, BoundInv, BoundOK
<1>4. lease'[r] = 0
  BY DEF ChatInv, RequestInv, OwnerInv
<1>5. work[r].bound
  BY <1>3 DEF FundInv, BoundInv, BoundOK
<1>6. PICK all : all = PerAttempt * work[r].attempts
  OBVIOUS
<1>7. /\ work[r].due \in Nat /\ Reserve \in Nat /\ work[r].attempts \in Nat
      /\ Covered(r) \in 0 .. Reserve /\ Covered(r) <= work[r].due
      /\ all \in Nat /\ Covered(r) <= all
      /\ work[r].attempts = 0 => work[r].due = 0
  BY <1>6, WorkTypes, AttemptAssumption
<1>8. \/ settlement = <<all, work[r].attempts > 0>>
      \/ settlement = <<work[r].due, work[r].uncertain \/ work[r].state = "active">>
      \/ settlement = <<Reserve, TRUE>>
  <2>1. \/ settlement = <<Reserve, TRUE>>
        \/ \E abandoned \in BOOLEAN : settlement = Reconciliation(r, abandoned)
    BY <1>5 DEF Settlements
  <2> QED BY <1>6, <2>1 DEF Reconciliation
<1>9. Covered(r) <= charge /\ (uncertain \/ work[r].due <= charge)
  <2>1. CASE settlement = <<all, work[r].attempts > 0>>
    <3>1. charge = all /\ uncertain = (work[r].attempts > 0)
      BY <1>1, <2>1
    <3>2. CASE work[r].attempts > 0
      <4>1. uncertain
        BY <3>1, <3>2
      <4> QED BY <1>7, <3>1, <4>1
    <3>3. CASE ~(work[r].attempts > 0)
      <4>1. work[r].due = 0
        BY <1>7, <3>3
      <4> QED BY <1>7, <3>1, <4>1
    <3> QED BY <3>2, <3>3
  <2>2. CASE settlement = <<work[r].due, work[r].uncertain \/ work[r].state = "active">>
    <3>1. charge = work[r].due
      BY <1>1, <2>2
    <3> QED BY <1>7, <3>1
  <2>3. CASE settlement = <<Reserve, TRUE>>
    <3>1. charge = Reserve
      BY <1>1, <2>3
    <3>2. uncertain
      BY <1>1, <2>3
    <3> QED BY <1>7, <3>1, <3>2
  <2> QED BY <1>8, <2>1, <2>2, <2>3
<1> QED BY <1>3, <1>4, <1>9

LEMMA SettlingFund ==
  ASSUME ChatInv, TenureInv, FundInv, ChatInv', NEW r \in Request, Settling(r)
  PROVE  FundInv'
<1>1. Quiet /\ UNCHANGED <<wake, waitEnd, ticks, work>> /\ phase[r] = "closing"
  BY DEF Settling, Quiet
<1>2. Endless \in Nat /\ clock <= Endless
  <2>1. clock \in 0 .. Horizon
    BY DEF ChatInv, ClockInv, Instant
  <2> QED BY <2>1, EndlessNat, Timing DEF Endless
<1>3. PICK p \in Waiting : p = "settling"
  BY DEF Waiting
<1>4. CASE /\ ticket[r] # 0
           /\ Ask(r, "cancel_ticket", Held(ticket[r]), Endless)
           /\ Set(ticket, r, 0) /\ Set(phase, r, "settling")
           /\ UNCHANGED <<lease, authority>>
  <2>1. PICK h, k, e : h = Held(ticket[r]) /\ k = "cancel_ticket" /\ e = Endless
    OBVIOUS
  <2>2. Ask(r, k, h, e) /\ e \in Nat /\ clock <= e /\ k # "finalize"
    BY <1>2, <1>4, <2>1 DEF Ask, Send, Message, Set, NewOperation
  <2>3. phase' = [phase EXCEPT ![r] = p] /\ ticket' = [ticket EXCEPT ![r] = 0]
    BY <1>3, <1>4 DEF Set
  <2> QED BY <1>1, <1>3, <1>4, <2>2, <2>3, AskFund DEF Unbound
<1>5. CASE /\ lease[r] # 0
           /\ Drop(lease[r])
           /\ \E settlement \in Settlements(r) :
                Ask(r, "finalize", <<Held(lease[r]), settlement[1], settlement[2]>>,
                    Endless)
           /\ Set(lease, r, 0) /\ Set(phase, r, "settling")
           /\ UNCHANGED ticket
  <2>1. PICK settlement \in Settlements(r) :
          Ask(r, "finalize", <<Held(lease[r]), settlement[1], settlement[2]>>, Endless)
    BY <1>5
  <2>2. PICK args, e, k :
          /\ args = <<Held(lease[r]), settlement[1], settlement[2]>>
          /\ e = Endless /\ k = "finalize"
    OBVIOUS
  <2>3. Ask(r, k, args, e) /\ e \in Nat /\ clock <= e
    BY <1>2, <2>1, <2>2 DEF Ask, Send, Message, Set, NewOperation
  <2>4. phase' = [phase EXCEPT ![r] = p] /\ lease' = [lease EXCEPT ![r] = 0]
    BY <1>3, <1>5 DEF Set
  <2>5. Paid(args)'
    BY <1>1, <1>5, <2>2, <2>4, SettlementPays
  <2> QED BY <1>1, <1>3, <1>5, <2>3, <2>4, <2>5, AskFund DEF Unbound
<1>6. CASE /\ Set(phase, r, "done")
           /\ UNCHANGED <<call, messages, ticket, lease, authority>>
  <2>1. NoCall
    BY <1>1, <1>6 DEF NoCall, Quiet
  <2>2. phase' = [phase EXCEPT ![r] = "done"] /\ "done" \notin Waiting \cup Unbound
    BY <1>6 DEF Set, Waiting, Unbound
  <2> QED BY <1>1, <1>6, <2>1, <2>2, EndFund
<1> QED BY <1>4, <1>5, <1>6 DEF Settling

LEMMA ReplayFund ==
  ASSUME ChatInv, TenureInv, FundInv, ChatInv', NEW r \in Request, Replay(r)
  PROVE  FundInv'
<1> DEFINE t == Lesser(clock + CallTimeout, call[r].overall)
           d == [call[r] EXCEPT !.attempt = 2, !.reply = NoReply, !.deadline = t]
<1>1. /\ Quiet /\ Send(r, d) /\ phase[r] \in Waiting
      /\ UNCHANGED <<phase, ticket, lease, wake, waitEnd, ticks, work>>
  BY DEF Replay, Quiet
<1>2. DOMAIN call[r] = CallField
  BY DEF ChatInv, RequestInv, CallInv, CallOK
<1>3. PICK c : c = d
  OBVIOUS
<1>4. /\ c.op = call[r].op /\ c.kind = call[r].kind /\ c.args = call[r].args
      /\ c.started = call[r].started /\ c.reply = NoReply
  BY <1>2, <1>3 DEF CallField
<1>5. Send(r, c)
  BY <1>1, <1>3 DEF Send, Message, Set
<1> HIDE DEF d, t
<1>6. Sends(r, c) /\ c.op[1] = r
  BY <1>1, <1>4, <1>5, Settled2 DEF Sends, TenureInv, DrawnInv
<1>7. call'[r] = c /\ \A s \in Request \ {r} : call'[s] = call[s]
  BY <1>5 DEF Send, Set, ChatInv, RequestInv, CallInv
<1>8. Alone(r) /\ phase'[r] = phase[r] /\ lease'[r] = lease[r]
  BY <1>1, <1>7 DEF Alone
<1>9. WorkMoves(r)
  <2>1. work[r].lease # 0 =>
          /\ work[r].bound /\ phase[r] \notin Unbound
          /\ lease[r] = 0 => phase[r] \in {"settling", "done"}
    BY DEF FundInv, BoundInv, BoundOK
  <2> QED BY <1>1, <1>8, <2>1 DEF WorkMoves
<1>10. ASSUME c.kind = "finalize" PROVE Paid(c.args)'
  <2>1. PICK args : args = c.args
    OBVIOUS
  <2>2. Paid(args)
    BY <1>1, <1>4, <1>10, <2>1 DEF FundInv, SettlementInv
  <2>3. Paid(args)'
    BY <1>1, <2>2, PaysStays
  <2> QED BY <2>1, <2>3
<1> QED BY <1>1, <1>6, <1>7, <1>8, <1>9, <1>10, SendFund

LEMMA AdmissionFund ==
  ASSUME ChatInv, TenureInv, FundInv, ChatInv', NEW r \in Request, AdmissionAnswered(r)
  PROVE  FundInv'
<1>1. EndCall(r) /\ UNCHANGED <<wake, waitEnd, ticks, work>>
  BY DEF AdmissionAnswered
<1>2. PICK outcome \in {call[r].reply, Failure} :
    /\ call[r].kind = "admit_or_enqueue"
    /\ \/ /\ outcome.type = "Admitted"
          /\ \/ Set(lease, r, outcome.id) /\ Set(phase, r, "responding")
             \/ Set(phase, r, "done") /\ UNCHANGED lease
          /\ UNCHANGED ticket
       \/ /\ outcome.type = "Queued"
          /\ Set(ticket, r, outcome.id) /\ Set(phase, r, "responding")
          /\ UNCHANGED lease
       \/ /\ outcome.type \in {"Denied", "Failure"}
          /\ Set(phase, r, "done")
          /\ UNCHANGED <<ticket, lease>>
  BY DEF AdmissionAnswered, Answered
<1>3. phase[r] = "admitting" /\ lease[r] = 0 /\ ticket[r] = 0
  BY <1>2 DEF TenureInv, HoldInv, HoldOK
<1>4. phase[r] \in Waiting /\ work[r].lease = 0
  BY <1>3, WorkPhase DEF Waiting, Unbound
<1>5. outcome.type # "Failure" => Hears(r, outcome)
  BY <1>4, AnswerHeard
<1>6. PICK i, p : i = outcome.id /\ p \in {"responding", "done"}
                  /\ phase' = [phase EXCEPT ![r] = p]
  BY <1>2 DEF Set
<1>7. /\ lease' = lease \/ (outcome.type \in Grant /\ lease' = [lease EXCEPT ![r] = i])
      /\ ticket' = ticket \/ (outcome.type \in Grant /\ ticket' = [ticket EXCEPT ![r] = i])
  BY <1>2, <1>6 DEF Set, Grant
<1>8. outcome.type \in Grant => Claims(r, i)
  BY <1>5, <1>6 DEF Claims, Grant
<1>9. /\ Quiet /\ Alone(r) /\ messages' = messages /\ phase'[r] = p
  <2>1. /\ lease' = lease \/ (\E e : lease' = [lease EXCEPT ![r] = e])
        /\ ticket' = ticket \/ (\E e : ticket' = [ticket EXCEPT ![r] = e])
    BY <1>7
  <2> QED BY <1>1, <1>6, <2>1, AloneFacts
<1>10. /\ lease'[r] = 0 \/ Claims(r, lease'[r])
       /\ ticket'[r] = 0 \/ Claims(r, ticket'[r])
  BY <1>3, <1>7, <1>8 DEF ChatInv, RequestInv, OwnerInv
<1>11. WorkMoves(r) /\ phase'[r] \notin Waiting
  BY <1>1, <1>4, <1>6, <1>9 DEF WorkMoves, Waiting
<1> QED BY <1>9, <1>10, <1>11, RestFund

LEMMA PollAnswerFund ==
  ASSUME ChatInv, TenureInv, FundInv, ChatInv', NEW r \in Request, PollAnswer(r)
  PROVE  FundInv'
<1>1. EndCall(r) /\ phase[r] = "polling" /\ UNCHANGED <<waitEnd, ticks, work>>
  BY DEF PollAnswer
<1>2. PICK outcome \in {call[r].reply, Failure} :
        \/ PollPendingAnswered(r, outcome)
        \/ PollAdmittedAnswered(r, outcome)
        \/ PollRefusedAnswered(r, outcome)
  BY DEF PollAnswer
<1>3. phase[r] \in Waiting /\ work[r].lease = 0
  BY <1>1, WorkPhase DEF Waiting, Unbound
<1>4. outcome.type # "Failure" => Hears(r, outcome)
  BY <1>3, AnswerHeard
<1>5. PICK i, p : i = outcome.id /\ p \in {"queued", "responding", "closing"}
                  /\ phase' = [phase EXCEPT ![r] = p]
  BY <1>2 DEF Set, PollPendingAnswered, PollAdmittedAnswered, PollRefusedAnswered
<1>6. /\ lease' = lease \/ (outcome.type \in Grant /\ lease' = [lease EXCEPT ![r] = i])
      /\ ticket' = ticket \/ ticket' = [ticket EXCEPT ![r] = 0]
  BY <1>2, <1>5
     DEF Set, PollPendingAnswered, PollAdmittedAnswered, PollRefusedAnswered, Grant
<1>7. wake' = wake \/ (\E e : wake' = [wake EXCEPT ![r] = e])
  BY <1>2 DEF Set, PollPendingAnswered, PollAdmittedAnswered, PollRefusedAnswered
<1>8. outcome.type \in Grant => Claims(r, i)
  BY <1>4, <1>5 DEF Claims, Grant
<1>9. /\ Quiet /\ Alone(r) /\ messages' = messages /\ phase'[r] = p
  <2>1. /\ lease' = lease \/ (\E e : lease' = [lease EXCEPT ![r] = e])
        /\ ticket' = ticket \/ (\E e : ticket' = [ticket EXCEPT ![r] = e])
    BY <1>6
  <2> QED BY <1>1, <1>5, <1>7, <2>1, AloneFacts
<1>10. /\ lease'[r] = 0 \/ Claims(r, lease'[r])
       /\ ticket'[r] = 0 \/ Claims(r, ticket'[r])
  BY <1>6, <1>8 DEF Claims, ChatInv, RequestInv, OwnerInv
<1>11. WorkMoves(r) /\ phase'[r] \notin Waiting
  BY <1>1, <1>3, <1>5, <1>9 DEF WorkMoves, Waiting
<1> QED BY <1>9, <1>10, <1>11, RestFund

\* A provider attempt starts or ends only under the lease.
LEMMA AttemptFund ==
  ASSUME ChatInv, TenureInv, FundInv, ChatInv', NEW r \in Request,
         StartAttempt(r) \/ FinishAttempt(r)
  PROVE  FundInv'
<1>1. /\ NoCall /\ UNCHANGED <<phase, ticket, lease, authority, wake, waitEnd, ticks>>
      /\ phase[r] \in {"streaming", "renewing", "sending", "closing"}
      /\ work[r].bound \/ work[r].state = "active"
  BY DEF StartAttempt, FinishAttempt
<1>2. work[r].lease # 0 /\ work[r].bound /\ lease[r] # 0
  BY <1>1 DEF FundInv, BoundInv, BoundOK
<1>3. DOMAIN work = Request /\ DOMAIN work[r] = {"bound", "attempts", "state", "due",
                                                 "uncertain", "lease", "windows"}
  BY DEF ChatInv, RequestInv, WorkInv, Work
<1>4. \E v : /\ work' = [work EXCEPT ![r] = v]
             /\ v.bound = work[r].bound /\ v.lease = work[r].lease
             /\ v.windows = work[r].windows
  <2>1. CASE StartAttempt(r)
    <3>1. PICK v : /\ v = [work[r] EXCEPT !.attempts = @ + 1, !.state = "active",
                                          !.due = @ + PerAttempt]
                   /\ work' = [work EXCEPT ![r] = v]
      BY <2>1 DEF StartAttempt, Set
    <3>2. v.bound = work[r].bound /\ v.lease = work[r].lease /\ v.windows = work[r].windows
      BY <1>3, <3>1
    <3> QED BY <3>1, <3>2
  <2>2. CASE FinishAttempt(r)
    <3>1. PICK next \in {"ready", "over"} :
            \/ \E cost \in 0 .. MaxCost :
                 Set(work, r, [work[r] EXCEPT !.state = next,
                                              !.due = @ - PerAttempt + cost])
            \/ Set(work, r, [work[r] EXCEPT !.state = next, !.uncertain = TRUE])
      BY <2>2 DEF FinishAttempt
    <3>2. CASE Set(work, r, [work[r] EXCEPT !.state = next, !.uncertain = TRUE])
      <4>1. PICK v : /\ v = [work[r] EXCEPT !.state = next, !.uncertain = TRUE]
                     /\ work' = [work EXCEPT ![r] = v]
        BY <3>2 DEF Set
      <4>2. v.bound = work[r].bound /\ v.lease = work[r].lease /\ v.windows = work[r].windows
        BY <1>3, <4>1
      <4> QED BY <4>1, <4>2
    <3>3. ASSUME NEW cost \in 0 .. MaxCost,
                 Set(work, r, [work[r] EXCEPT !.state = next,
                                              !.due = @ - PerAttempt + cost])
          PROVE  \E v : /\ work' = [work EXCEPT ![r] = v]
                        /\ v.bound = work[r].bound /\ v.lease = work[r].lease
                        /\ v.windows = work[r].windows
      <4>1. PICK v : /\ v = [work[r] EXCEPT !.state = next,
                                            !.due = @ - PerAttempt + cost]
                     /\ work' = [work EXCEPT ![r] = v]
        BY <3>3 DEF Set
      <4>2. v.bound = work[r].bound /\ v.lease = work[r].lease /\ v.windows = work[r].windows
        BY <1>3, <4>1
      <4> QED BY <4>1, <4>2
    <3> QED BY <3>1, <3>2, <3>3
  <2> QED BY <2>1, <2>2
<1>5. /\ \A s \in Request \ {r} : work'[s] = work[s]
      /\ work'[r].bound = work[r].bound /\ work'[r].lease = work[r].lease
      /\ work'[r].windows = work[r].windows
  BY <1>3, <1>4
<1>6. /\ Quiet /\ messages' = messages /\ call' = call
  BY <1>1 DEF NoCall, Quiet
<1>7. Alone(r)
  BY <1>1, <1>6 DEF Alone
<1>8. WorkMoves(r)
  BY <1>1, <1>2, <1>5 DEF WorkMoves, Unbound
<1>9. \A i : Claims(r, i)' => Claims(r, i)
  <2>1. receipts' = receipts
    BY <1>6 DEF Quiet, vars
  <2> QED BY <1>1, <1>6, <2>1 DEF Claims, Hears
<1>10. ASSUME phase'[r] \in Waiting, call'[r].kind = "finalize"
       PROVE  Paid(call[r].args)'
  <2>1. PICK args : args = call[r].args
    OBVIOUS
  <2>2. Paid(args) /\ Released(args[1].id)
    BY <1>1, <1>6, <1>10, <2>1 DEF FundInv, SettlementInv, TenureInv, ReleasedInv
  <2>3. args[1].id # 0
    BY <2>2, Settled2 DEF Released
  <2>4. Paid(args)'
    BY <1>7, <1>8, <2>2, <2>3, PaysMoves
  <2>5. args = call'[r].args
    BY <1>6, <2>1
  <2> QED BY <2>4, <2>5 DEF Paid, Pays, Covered
<1> QED BY <1>6, <1>7, <1>8, <1>9, <1>10, QuietFund

\* A session is bound to a lease the store still has.
LEMMA BindFund ==
  ASSUME ChatInv, TenureInv, FundInv, NEW r \in Request,
         NoCall, phase[r] = "responding", lease[r] # 0, HasAuthority(r),
         NEW x, work' = [work EXCEPT ![r] = x],
         x.bound, x.lease = lease[r],
         x.windows = {w \in DOMAIN windows : lease[r] \in LeasesIn(w)},
         NEW t, wake' = [wake EXCEPT ![r] = t], phase' = [phase EXCEPT ![r] = "streaming"],
         UNCHANGED <<ticket, lease, waitEnd, ticks>>
  PROVE  FundInv'
<1>1. PICK p : p = "streaming" /\ phase' = [phase EXCEPT ![r] = p]
  OBVIOUS
<1>2. /\ Quiet /\ Alone(r) /\ messages' = messages /\ phase'[r] = p
  BY <1>1, AloneFacts
<1>3. UNCHANGED <<leases, windows, tokenSequence, lastNow, receipts>>
  BY <1>2 DEF Quiet, vars
<1>4. work[r].lease = 0 /\ BoundOK(r)
  BY WorkPhase DEF Unbound, FundInv, BoundInv
<1>5. work'[r] = x /\ \A s \in Request \ {r} : work'[s] = work[s]
  BY DEF ChatInv, RequestInv, WorkInv
<1>6. PICK id : id = lease[r]
  OBVIOUS
<1>7. id \in 1 .. tokenSequence /\ Claims(r, id)
  BY <1>6, Settled2, OwnLease
<1>8. id \in DOMAIN leases
  <2>1. Standing(id, Deadline(r)) /\ Deadline(r) > clock
    BY <1>6 DEF HasAuthority, TenureInv, BackedInv, Deadline
  <2> QED BY <2>1 DEF Standing
<1>9. x.windows = leases[id].windows /\ x.windows \subseteq DOMAIN windows
  BY <1>6, <1>8 DEF LeasesIn, ChatInv, StoreInv, WindowInv, ReservationsBacked
<1>10. ASSUME NEW s \in Request, NEW i, Claims(s, i)' PROVE Claims(s, i)
  <2>1. CASE s = r
    <3>1. /\ phase'[r] \notin Waiting
          /\ lease'[r] = 0 \/ Claims(r, lease'[r])
          /\ ticket'[r] = 0 \/ Claims(r, ticket'[r])
      BY <1>1, <1>2 DEF Waiting, Claims
    <3> QED BY <1>10, <2>1, <3>1, RestMoves
  <2>2. CASE s # r
    BY <1>2, <1>3, <1>10, <2>2 DEF Claims, Hears, Alone
  <2> QED BY <2>1, <2>2
<1>11. ASSUME NEW s \in Request \ {r} PROVE work[s].lease # id /\ ~Claims(s, id)'
  <2>1. ~Claims(s, id)
    BY <1>7 DEF TenureInv, ClaimsApart
  <2>2. work[s].lease # id
    BY <1>7 DEF FundInv, BoundInv, BoundOK
  <2> QED BY <1>10, <2>1, <2>2
<1>12. BoundInv'
  <2>1. BoundOK(r)'
    <3>1. \A s \in Request \ {r} :
            work'[s].lease # work'[r].lease /\ ~Claims(s, work[r].lease)'
      <4>1. id = work'[r].lease
        BY <1>5, <1>6
      <4>2. \A s \in Request \ {r} : work'[s].lease # id /\ ~Claims(s, id)'
        BY <1>5, <1>11
      <4> QED BY <4>1, <4>2 DEF Claims, Hears
    <3>2. work'[r].lease = id /\ id # 0 /\ lease'[r] = id /\ phase'[r] \notin Unbound
      BY <1>1, <1>2, <1>5, <1>6 DEF Unbound
    <3> QED BY <1>3, <1>5, <1>7, <1>8, <1>9, <3>1, <3>2 DEF BoundOK
  <2>2. ASSUME NEW s \in Request \ {r} PROVE BoundOK(s)'
    <3>1. BoundOK(s) /\ work'[s] = work[s] /\ lease'[s] = lease[s] /\ phase'[s] = phase[s]
      BY <1>2, <1>5 DEF FundInv, BoundInv, Alone
    <3>2. CASE work[s].lease = 0
      BY <3>1, <3>2 DEF BoundOK
    <3>3. CASE work[s].lease # 0
      <4>1. PICK i : i = work[s].lease
        OBVIOUS
      <4>2. \A q \in Request \ {s} : work'[q].lease # i /\ ~Claims(q, i)'
        <5>1. \A q \in Request \ {s} : work[q].lease # i /\ ~Claims(q, i)
          BY <3>1, <3>3, <4>1 DEF BoundOK
        <5>2. i # id
          BY <1>11, <4>1
        <5> QED BY <1>5, <1>6, <1>10, <5>1, <5>2
      <4>3. i = work'[s].lease
        BY <3>1, <4>1
      <4>4. \A q \in Request \ {s} :
              work'[q].lease # work'[s].lease /\ ~Claims(q, work[s].lease)'
        BY <4>2, <4>3 DEF Claims, Hears
      <4>5. /\ work[s].bound /\ work[s].lease \in 1 .. tokenSequence
            /\ phase[s] \notin Unbound
            /\ \/ lease[s] = work[s].lease
               \/ lease[s] = 0 /\ phase[s] \in {"settling", "done"}
            /\ work[s].lease \in DOMAIN leases =>
                 leases[work[s].lease].windows = work[s].windows
            /\ \A w \in work[s].windows : w \in DOMAIN windows \/ WindowEnd(w) <= lastNow
        BY <3>1, <3>3 DEF BoundOK
      <4> QED BY <1>3, <3>1, <3>3, <4>4, <4>5 DEF BoundOK
    <3> QED BY <3>2, <3>3
  <2> QED BY <2>1, <2>2 DEF BoundInv
<1>13. ChargedInv' /\ MarkedInv'
  <2>1. \A s \in Request : Unsettled(s)' => work'[s].lease \in DOMAIN leases
    BY <1>3 DEF Unsettled
  <2>2. Unsettled(r)' /\ work'[r].lease = id
    BY <1>3, <1>5, <1>6, <1>8 DEF Unsettled
  <2>3. ASSUME NEW s \in Request \ {r}, NEW w
        PROVE  /\ work'[s] = work[s] /\ Most(s, w)' = Most(s, w)
               /\ Unsettled(s)' <=> Unsettled(s)
               /\ MarkOK(s, w)' <=> MarkOK(s, w)
    BY <1>2, <1>3, <1>5
       DEF Alone, Most, Counted, Covered, Unsettled, MarkOK
  <2>4. ASSUME NEW w PROVE Gone(w)' = Gone(w)
    <3>1. ASSUME NEW y \in 1 .. tokenSequence, y \notin DOMAIN leases, NEW n, NEW s \in Request
          PROVE  work'[s].lease = y /\ w \in work'[s].windows /\ n <= Most(s, w)'
                   <=> work[s].lease = y /\ w \in work[s].windows /\ n <= Most(s, w)
      <4>1. CASE s = r
        <5>1. work[s].lease # y /\ work'[s].lease # y
          BY <1>4, <1>5, <1>6, <1>8, <3>1, <4>1, Settled2
        <5> QED BY <5>1
      <4>2. CASE s # r
        BY <2>3, <4>2
      <4> QED BY <4>1, <4>2
    <3>2. \A y \in 1 .. tokenSequence, n \in 1 .. MostDue :
            y \notin DOMAIN leases =>
              ((\E s \in Request :
                  work'[s].lease = y /\ w \in work'[s].windows /\ n <= Most(s, w)')
               <=> \E s \in Request :
                     work[s].lease = y /\ w \in work[s].windows /\ n <= Most(s, w))
      BY <3>1
    <3> QED BY <1>3, <3>2 DEF Gone, Slots
  <2>5. ChargedInv'
    BY <1>3, <2>4 DEF FundInv, ChargedInv
  <2>6. ASSUME NEW s \in Request, NEW w \in work'[s].windows, w \in DOMAIN windows,
               ~Unsettled(s)'
        PROVE  MarkOK(s, w)'
    <3>1. s # r
      BY <2>2, <2>6
    <3>2. work'[s] = work[s] /\ ~Unsettled(s) /\ (MarkOK(s, w)' <=> MarkOK(s, w))
      BY <2>3, <2>6, <3>1
    <3>3. MarkOK(s, w)
      BY <2>6, <3>2 DEF FundInv, MarkedInv
    <3> QED BY <3>2, <3>3
  <2>7. MarkedInv'
    BY <1>3, <2>6 DEF MarkedInv
  <2> QED BY <2>5, <2>7
<1>14. ASSUME NEW args, Paid(args), Released(args[1].id) PROVE Paid(args)'
  <2>1. args[1].id # id
    BY <1>7, <1>14 DEF Released
  <2>2. \A s \in Request : work'[s].lease = args[1].id => s # r
    BY <1>5, <1>6, <2>1
  <2> QED BY <1>2, <1>5, <1>14, <2>2 DEF Paid, Pays, Covered, Alone
<1>15. SettlementInv'
  <2>1. ASSUME NEW m \in messages', m.kind = "finalize"
        PROVE  Paid(m.args)'
    BY <1>2, <1>14, <2>1 DEF FundInv, SettlementInv, TenureInv, ReleasedInv
  <2>2. ASSUME NEW s \in Request, phase'[s] \in Waiting, call'[s].kind = "finalize"
        PROVE  Paid(call[s].args)'
    <3>1. s # r
      BY <1>1, <1>2, <2>2 DEF Waiting
    <3>2. call'[s] = call[s] /\ phase'[s] = phase[s]
      BY <1>2, <3>1 DEF Alone
    <3>3. PICK args : args = call[s].args
      OBVIOUS
    <3>4. Paid(args)'
      BY <1>14, <2>2, <3>2, <3>3 DEF FundInv, SettlementInv, TenureInv, ReleasedInv
    <3>5. args = call'[s].args
      BY <3>2, <3>3
    <3> QED BY <3>4, <3>5 DEF Paid, Pays, Covered
  <2> QED BY <2>1, <2>2 DEF SettlementInv
<1> QED BY <1>12, <1>13, <1>15 DEF FundInv

LEMMA BeginStreamFund ==
  ASSUME ChatInv, TenureInv, FundInv, ChatInv', NEW r \in Request, BeginStream(r)
  PROVE  FundInv'
<1>1. /\ NoCall /\ phase[r] = "responding" /\ lease[r] # 0
      /\ UNCHANGED <<ticket, lease, waitEnd, ticks>>
  BY DEF BeginStream
<1>2. CASE /\ HasAuthority(r)
           /\ Set(work, r, [work[r] EXCEPT !.bound = TRUE, !.lease = lease[r],
                !.windows = {w \in DOMAIN windows : lease[r] \in LeasesIn(w)}])
           /\ Set(wake, r, Renewal(r)) /\ Set(phase, r, "streaming")
  <2>1. PICK t : t = Renewal(r)
    OBVIOUS
  <2>2. PICK W : W = {w \in DOMAIN windows : lease[r] \in LeasesIn(w)}
    OBVIOUS
  <2>3. PICK x : x = [work[r] EXCEPT !.bound = TRUE, !.lease = lease[r], !.windows = W]
    OBVIOUS
  <2>4. DOMAIN work[r] = {"bound", "attempts", "state", "due", "uncertain", "lease", "windows"}
    BY DEF ChatInv, RequestInv, WorkInv, Work
  <2>5. x.bound /\ x.lease = lease[r] /\ x.windows = W
    BY <2>3, <2>4
  <2>6. /\ work' = [work EXCEPT ![r] = x] /\ wake' = [wake EXCEPT ![r] = t]
        /\ phase' = [phase EXCEPT ![r] = "streaming"]
    BY <1>2, <2>1, <2>2, <2>3 DEF Set
  <2> QED BY <1>1, <1>2, <2>2, <2>5, <2>6, BindFund
<1>3. CASE Set(phase, r, "closing") /\ UNCHANGED <<wake, work>>
  <2>1. PICK p : p = "closing" /\ phase' = [phase EXCEPT ![r] = p]
    BY <1>3 DEF Set
  <2>2. p \notin Waiting /\ work[r].lease = 0
    BY <1>1, <2>1, WorkPhase DEF Waiting, Unbound
  <2> QED BY <1>1, <1>3, <2>1, <2>2, EndFund
<1> QED BY <1>2, <1>3 DEF BeginStream

\* Steps of nobody.
LEMMA StillFund ==
  ASSUME FundInv, UNCHANGED chatVars
  PROVE  FundInv'
<1>1. UNCHANGED <<lastNow, leases, windows, receipts, tokenSequence, clock, messages,
                  phase, call, ticket, lease, work>>
  BY DEF chatVars, vars, requests
<1>2. ChargedInv' /\ MarkedInv'
  BY <1>1 DEF FundInv, ChargedInv, Gone, Slots, Most, Counted, Covered, MarkedInv, MarkOK,
              Unsettled
<1>3. \A r, i : Claims(r, i)' <=> Claims(r, i)
  BY <1>1 DEF Claims, Hears
<1>4. BoundInv'
  BY <1>1, <1>3 DEF FundInv, BoundInv, BoundOK
<1>5. SettlementInv'
  BY <1>1, WorldSettles
<1> QED BY <1>2, <1>4, <1>5 DEF FundInv

LEMMA FundInit == ChatInit => FundInv
<1> SUFFICES ASSUME ChatInit PROVE FundInv
  OBVIOUS
<1>1. windows = <<>> /\ messages = {} /\ \A r \in Request : phase[r] = "idle"
  BY DEF ChatInit, Init
<1>2. \A r \in Request : /\ ~work[r].bound /\ work[r].state = "ready"
                         /\ work[r].due = 0 /\ work[r].windows = {} /\ work[r].lease = 0
  BY DEF ChatInit
<1>3. ChargedInv /\ MarkedInv
  BY <1>1 DEF ChargedInv, MarkedInv
<1>4. BoundInv
  BY <1>2 DEF BoundInv, BoundOK
<1>5. SettlementInv
  BY <1>1 DEF SettlementInv, Waiting
<1> QED BY <1>3, <1>4, <1>5 DEF FundInv

LEMMA FundRequest ==
  ASSUME ChatInv, TenureInv, FundInv, ChatInv', NEW r \in Request,
         \/ Arrive(r) \/ Advance(r) \/ Produce(r) \/ Resume(r)
         \/ StartAttempt(r) \/ FinishAttempt(r) \/ Cancelled(r)
  PROVE  FundInv'
BY ArriveFund, ReplayFund, AdmissionFund, LastFund, PollFund, PollAnswerFund,
   BeginStreamFund, StreamFund, AskRenewalFund, SettlingFund, AttemptFund DEF Advance

LEMMA FundStep == ChatInv /\ TenureInv /\ FundInv /\ [ChatNext]_chatVars => FundInv'
<1> SUFFICES ASSUME ChatInv, TenureInv, FundInv, [ChatNext]_chatVars PROVE FundInv'
  OBVIOUS
<1>1. ChatInv'
  BY ChatStep
<1>2. CASE ChatNext
  BY <1>1, <1>2, FundRequest, LandFund, TickFund, ProbeFund DEF ChatNext
<1>3. CASE UNCHANGED chatVars
  BY <1>3, StillFund
<1> QED BY <1>2, <1>3

-----------------------------------------------------------------------------
(* What was done is paid for, or still reserved.                           *)

\* Each unit of what is due under a lease of window w is a slot of that lease.
LEMMA DueSlots ==
  ASSUME ChatInv, FundInv, NEW w \in DOMAIN windows
  PROVE  /\ IsFiniteSet(DueIn(w)) /\ Cardinality(DueIn(w)) \in Nat
         /\ Cardinality(DueIn(w)) <= Cardinality(Slots(w))
<1> DEFINE slot == [d \in DueIn(w) |-> <<work[d[1]].lease, d[2]>>]
<1>1. ASSUME NEW d \in DueIn(w)
      PROVE  /\ d \in Request \X (1 .. MostDue) /\ slot[d] \in Slots(w)
             /\ work[d[1]].lease # 0
  <2>1. PICK r \in Request, n \in 1 .. MostDue :
          d = <<r, n>> /\ w \in work[r].windows /\ n <= Counted(r, w)
    BY DEF DueIn
  <2>2. work[r].lease \in 1 .. tokenSequence
    BY <2>1 DEF FundInv, BoundInv, BoundOK
  <2>3. n <= Most(r, w)
    <3>1. CASE lease[r] = 0
      BY <2>1, <3>1 DEF Most
    <3>2. CASE lease[r] # 0
      <4>1. windows[w].uncertain \/ Unsettled(r)
        BY <2>1, <3>2 DEF FundInv, MarkedInv, MarkOK
      <4>2. n <= Covered(r) /\ Covered(r) \in 0 .. Reserve /\ Reserve \in Nat
        BY <2>1, <4>1, WorkTypes DEF Counted
      <4> QED BY <3>2, <4>2 DEF Most
    <3> QED BY <3>1, <3>2
  <2>4. <<work[r].lease, n>> \in Slots(w)
    BY <2>1, <2>2, <2>3 DEF Slots
  <2>5. work[r].lease # 0
    BY <2>2, Settled2
  <2> QED BY <2>1, <2>4, <2>5
<1>2. slot \in [DueIn(w) -> Slots(w)]
  BY <1>1
<1>3. ASSUME NEW a \in DueIn(w), NEW b \in DueIn(w), slot[a] = slot[b] PROVE a = b
  <2>1. work[a[1]].lease = work[b[1]].lease /\ a[2] = b[2]
    BY <1>3
  <2>2. a[1] = b[1]
    BY <1>1, <2>1 DEF FundInv, BoundInv, BoundOK
  <2>3. a \in Request \X (1 .. MostDue) /\ b \in Request \X (1 .. MostDue)
    BY <1>1
  <2> QED BY <2>1, <2>2, <2>3
<1>4. IsInjective(slot)
  BY <1>3 DEF IsInjective
<1>5. slot \in Injection(DueIn(w), Slots(w))
  BY <1>2, <1>4 DEF Injection
<1>6. IsFiniteSet(Slots(w))
  BY SlotsFinite
<1>7. IsFiniteSet(DueIn(w)) /\ Cardinality(DueIn(w)) <= Cardinality(Slots(w))
  BY <1>5, <1>6, FS_Injection
<1> QED BY <1>7, FS_CardinalityType

LEMMA FundCovers ==
  ASSUME ChatInv, FundInv
  PROVE  WorkIsCharged
<1> SUFFICES ASSUME NEW r \in Request, NEW w \in work[r].windows
             PROVE  IF w \in DOMAIN windows
                    THEN windows[w].committed + windows[w].reserved >= Cardinality(DueIn(w))
                    ELSE WindowEnd(w) <= clock
  BY DEF WorkIsCharged
<1>1. CASE w \notin DOMAIN windows
  <2>1. WindowEnd(w) <= lastNow
    BY <1>1 DEF FundInv, BoundInv, BoundOK
  <2>2. PICK n \in Nat, l \in Nat : n = w[2] + 1 /\ l = PeriodLength(w[1])
    <3>1. w \in Period \X Nat
      BY WorkTypes
    <3> QED BY <3>1, PeriodLengthPositive
  <2>3. n * l \in Nat /\ WindowEnd(w) = n * l
    BY <2>2 DEF WindowEnd
  <2>4. lastNow \in Nat /\ lastNow <= clock /\ clock \in Nat
    BY LeaseNumbers
  <2>5. WindowEnd(w) <= clock
    BY <2>1, <2>3, <2>4
  <2> QED BY <1>1, <2>5
<1>2. CASE w \in DOMAIN windows
  <2>0. TypeOK /\ clock \in Instant /\ Reserve \in Nat
    BY WorkTypes DEF ChatInv, StoreInv, WindowInv, ClockInv
  <2>1. IsFiniteSet(LeasesIn(w)) /\ IsFiniteSet(Gone(w))
    BY <2>0, LeasesFinite, SlotsFinite
  <2>2. PICK k \in Nat : k = Reserve * Cardinality(LeasesIn(w))
    BY <2>0, <2>1, FS_CardinalityType
  <2>3. /\ IsFiniteSet(LeasesIn(w) \X (1 .. Reserve))
        /\ Cardinality(LeasesIn(w) \X (1 .. Reserve)) = k
    BY <2>0, <2>1, <2>2, Rectangle
  <2>4. Slots(w) \subseteq Gone(w) \cup (LeasesIn(w) \X (1 .. Reserve))
    <3>1. ASSUME NEW x \in 1 .. tokenSequence, NEW n \in 1 .. MostDue, NEW s \in Request,
                 work[s].lease = x, w \in work[s].windows, n <= Most(s, w),
                 x \in DOMAIN leases
          PROVE  x \in LeasesIn(w) /\ n \in 1 .. Reserve
      <4>1. work[s].lease # 0
        BY <3>1, Settled2
      <4>2. x \in LeasesIn(w)
        BY <3>1, <4>1 DEF LeasesIn, FundInv, BoundInv, BoundOK
      <4>3. Most(s, w) \in 0 .. Reserve
        BY <3>1, WorkTypes DEF Most, Counted, Unsettled
      <4> QED BY <2>0, <3>1, <4>2, <4>3
    <3> QED BY <3>1 DEF Gone, Slots
  <2>5. /\ Cardinality(Slots(w)) \in Nat /\ Cardinality(Gone(w)) \in Nat
        /\ Cardinality(Slots(w)) <= Cardinality(Gone(w)) + k
    BY <2>1, <2>3, <2>4, CoverCount
  <2>6. windows[w].reserved = k
    BY <1>2, <2>2 DEF ChatInv, StoreInv, WindowInv, ReservationsBacked
  <2>7. windows[w].committed \in Nat /\ windows[w].committed >= Cardinality(Gone(w))
    BY <1>2, <2>0 DEF FundInv, ChargedInv, TypeOK, Functional, WindowRecord
  <2>8. Cardinality(DueIn(w)) \in Nat /\ Cardinality(DueIn(w)) <= Cardinality(Slots(w))
    BY <1>2, DueSlots
  <2>9. windows[w].committed + windows[w].reserved >= Cardinality(DueIn(w))
    BY <2>5, <2>6, <2>7, <2>8
  <2> QED BY <1>2, <2>9
<1> QED BY <1>1, <1>2

LEMMA FundMarks ==
  ASSUME FundInv
  PROVE  OverspendingIsMarked
<1> SUFFICES ASSUME NEW r \in Request, NEW w \in work[r].windows \cap DOMAIN windows,
                    work[r].due > Reserve, ~Unsettled(r)
             PROVE  windows[w].overrun \/ windows[w].uncertain
  BY DEF OverspendingIsMarked
<1>1. MarkOK(r, w)
  BY DEF FundInv, MarkedInv
<1> QED BY <1>1, Zenon DEF MarkOK

\* No work is done for free: what the provider attempts of every request cost
\* is committed or still reserved in each budget window their leases were granted
\* in, for as long as the store keeps the window, and it keeps it to its end: all
\* of it once it is settled for certain, and until then, or where the window is
\* marked uncertain, what was reserved for the attempts made.  For any number of
\* requests, any price of an attempt, and any order of settlements, expiries, late
\* and repeated calls (_ControlledResponseOwner.finalize, the prune of the store).
THEOREM WorkStaysCharged == ChatSpec => []WorkIsCharged
<1>1. ChatInv /\ TenureInv /\ FundInv /\ [ChatNext]_chatVars => FundInv'
  BY FundStep
<1>2. ChatInit => FundInv
  BY FundInit
<1>3. ChatInv /\ FundInv => WorkIsCharged
  BY FundCovers
<1> QED BY <1>1, <1>2, <1>3, TenureHolds, PTL DEF ChatSpec

\* Whatever an attempt turns out to cost, more than was reserved for all of a
\* request's attempts leaves the windows of its lease marked, overrun or
\* uncertain, whether it settles, settles late, expires or is abandoned
\* (_release_reservation, reconciliation_from_summary).
THEOREM OverspendingStaysMarked == ChatSpec => []OverspendingIsMarked
<1>1. ChatInv /\ TenureInv /\ FundInv /\ [ChatNext]_chatVars => FundInv'
  BY FundStep
<1>2. ChatInit => FundInv
  BY FundInit
<1>3. FundInv => OverspendingIsMarked
  BY FundMarks
<1> QED BY <1>1, <1>2, <1>3, TenureHolds, PTL DEF ChatSpec
=============================================================================
