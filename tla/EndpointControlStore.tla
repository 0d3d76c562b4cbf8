------------------------ MODULE EndpointControlStore ------------------------
(***************************************************************************)
(* The deployment-wide admission store of the chat endpoint               *)
(* (InMemoryEndpointControlStore, src/backend/app/endpoint_controls.py):   *)
(* keyed rate records, a bounded FIFO of tickets, fenced leases, UTC hour  *)
(* and day budget windows, and the receipts that make every mutation       *)
(* replayable under its operation id.                                      *)
(*                                                                         *)
(* Each public coroutine holds one lock and awaits nothing inside it, so   *)
(* one call is one step.  The clock is an argument of the call: the store  *)
(* owns no timer and expires its records lazily, in _prune.  A call that   *)
(* is refused before _prune (a colliding receipt, a clock that moved       *)
(* backwards) changes nothing: it is a stuttering step.                    *)
(*                                                                         *)
(* Data abstraction.  An id and its fencing token are issued together, so  *)
(* a caller's handle is the id plus whether its token is the issued one.   *)
(* Money is counted in units, tokens of a rate record in fractions of      *)
(* TokenCost, time in ticks.  A reply is the outcome kept in the receipt;  *)
(* a call that raises leaves no receipt.                                   *)
(***************************************************************************)
EXTENDS Integers, FiniteSets, Functions

CONSTANTS
  Ip, Session,       \* digests of client addresses and sessions
  OperationId,       \* the 128-bit ids the callers draw
  MaxActive,         \* max_active_requests (A)
  MaxQueued,         \* max_queued_requests (Q)
  PollAttempts,      \* poll_attempts (P); 0 when queue_wait_seconds is 0
  RenewalTicks,      \* CONTROL_MAX_RENEWAL_TICKS_PER_LEASE (R = 60)
  TicketTTL, LeaseTTL, RateTTL, ReceiptTTL,
  HourLength, HoursPerDay,
  Reserve,           \* budget_reserve_per_attempt * maximum_provider_attempts
  HourlyBudget, DailyBudget,
  Charges,           \* the reconciled charges a caller may finalize with
  Presented,         \* whether callers hold the issued fencing token
  TokenCost,         \* one rate token, in units
  IpCapacity, SessionCapacity,   \* bucket sizes, in units
  IpRefill, SessionRefill,       \* refill per tick, in units
  MaxKeys,           \* PUBLIC_CONTROL_MAX_KEYS
  MaxPairs,          \* id/fence pairs _token_sequence can number
  MaxSequence,       \* CONTROL_MAX_INTEGER, as the bound of _sequence
  Horizon            \* _MAX_BASE_INSTANT

\* structural_reserve and receipt_capacity of EndpointControlConfig.
StructuralReserve == 4 + 5 * MaxActive + 3 * MaxQueued
ReceiptCapacity == MaxKeys - StructuralReserve
MinimumReceipts ==
  1 + MaxActive * (RenewalTicks + 2) + MaxQueued * (PollAttempts + 2)

\* What EndpointControlConfig.__post_init__ enforces on the settings.
EndpointControlConfig ==
  /\ MaxActive \in Nat \ {0} /\ MaxQueued \in Nat
  /\ PollAttempts \in Nat /\ RenewalTicks \in Nat \ {0}
  /\ {TicketTTL, LeaseTTL, RateTTL, ReceiptTTL} \subseteq Nat \ {0}
  /\ ReceiptTTL >= TicketTTL /\ ReceiptTTL >= LeaseTTL /\ ReceiptTTL >= RateTTL
  /\ HourLength \in Nat \ {0} /\ HoursPerDay \in Nat \ {0}
  /\ Reserve \in Nat /\ HourlyBudget \in Nat /\ DailyBudget \in Nat
  /\ Reserve <= HourlyBudget /\ HourlyBudget <= DailyBudget
  /\ Charges \subseteq Nat /\ Presented \subseteq BOOLEAN
  /\ TokenCost \in Nat \ {0}
  /\ {IpCapacity, SessionCapacity, IpRefill, SessionRefill} \subseteq Nat \ {0}
  /\ MaxKeys \in Nat /\ MaxKeys >= StructuralReserve + MinimumReceipts
  /\ MaxPairs \in Nat /\ MaxSequence \in Nat /\ Horizon \in Nat
  /\ IsFiniteSet(OperationId) /\ IsFiniteSet(Ip) /\ IsFiniteSet(Session)
  /\ Ip \cap Session = {}
ASSUME ConfigAssumption == EndpointControlConfig
\* An idle record refills within its TTL.
ASSUME RefillAssumption ==
  /\ RateTTL * IpRefill >= IpCapacity
  /\ RateTTL * SessionRefill >= SessionCapacity

VARIABLES
  lastNow,        \* _last_now
  rates,          \* _ip_rates and _session_rates, keyed by digest
  tickets,        \* _tickets, keyed by ticket id
  leases,         \* _leases, keyed by lease id
  windows,        \* _hours and _days, keyed by <<period, index>>
  receipts,       \* _receipts, keyed by operation id
  sequence,       \* _sequence
  tokenSequence   \* _token_sequence, in pairs

vars == <<lastNow, rates, tickets, leases, windows, receipts, sequence,
          tokenSequence>>

-----------------------------------------------------------------------------
(* Vocabulary.                                                             *)

Put(f, x, v) == [y \in DOMAIN f \cup {x} |-> IF y = x THEN v ELSE f[y]]
Without(f, x) == Restrict(f, DOMAIN f \ {x})

Instant == 0 .. Horizon
TokenId == 1 .. MaxPairs
Handle == [id : TokenId, fenced : Presented]

Period == {"hour", "day"}
PeriodLength(p) == IF p = "hour" THEN HourLength ELSE HourLength * HoursPerDay
Budget(w) == IF w[1] = "hour" THEN HourlyBudget ELSE DailyBudget
WindowsOf(t) == {<<p, t \div PeriodLength(p)>> : p \in Period}
WindowEnd(w) == (w[2] + 1) * PeriodLength(w[1])

TicketRecord ==
  [expires : Nat, sequence : 1 .. MaxSequence, polls : 0 .. PollAttempts]
LeaseRecord ==
  [expires : Nat, windows : {WindowsOf(t) : t \in Instant},
   renewals : 0 .. RenewalTicks]
WindowRecord ==
  [reserved : Nat, committed : Nat, uncertain : BOOLEAN, overrun : BOOLEAN]

Denied(reason) == [type |-> "Denied", reason |-> reason]
Admitted(id, expires) == [type |-> "Admitted", id |-> id, expires |-> expires]
Queued(id) == [type |-> "Queued", id |-> id]
Pending(id) == [type |-> "Pending", id |-> id]
Renewed(expires) == [type |-> "Renewed", expires |-> expires]
Lost(reason) == [type |-> "Lost", reason |-> reason]
Finalized == [type |-> "Finalized"]
CancelledTicket == [type |-> "CancelledTicket"]

Init ==
  /\ lastNow = 0
  /\ rates = <<>> /\ tickets = <<>> /\ leases = <<>>
  /\ windows = <<>> /\ receipts = <<>>
  /\ sequence = 0 /\ tokenSequence = 0

-----------------------------------------------------------------------------
(* _prune(now): the tables as a call that reads the clock at now sees them *)

LiveTickets(now) == {i \in DOMAIN tickets : tickets[i].expires > now}
LiveLeases(now) == {i \in DOMAIN leases : leases[i].expires > now}
TicketsAt(now) == Restrict(tickets, LiveTickets(now))
LeasesAt(now) == Restrict(leases, LiveLeases(now))

\* Mutant: a charge above the reservation is noticed only where it breaks the budget.
SettleByBudget(w, window, n, charge, uncertain) ==
  LET reserved == window.reserved - n * Reserve
      committed == window.committed + n * charge
  IN  [reserved |-> reserved, committed |-> committed,
       uncertain |-> window.uncertain \/ uncertain,
       overrun |-> window.overrun \/ committed + reserved > Budget(w)]
\* _release_reservation, for n leases of the window settled at one charge.
Settle(w, window, n, charge, uncertain) ==
  LET reserved == window.reserved - n * Reserve
      committed == window.committed + n * charge
  IN  [reserved |-> reserved, committed |-> committed,
       uncertain |-> window.uncertain \/ uncertain,
       overrun |-> \/ window.overrun
                   \/ charge > Reserve
                   \/ committed + reserved > Budget(w)]

\* An expired lease is settled at its full reservation, as uncertain.
ExpiredIn(w, now) ==
  {i \in DOMAIN leases \ LiveLeases(now) : w \in leases[i].windows}
\* Mutant: an expired lease gives its reservation back uncharged.
SettledWindowForgiving(w, now) ==
  IF ExpiredIn(w, now) = {} THEN windows[w]
  ELSE Settle(w, windows[w], Cardinality(ExpiredIn(w, now)), 0, TRUE)
SettledWindow(w, now) ==
  IF ExpiredIn(w, now) = {} THEN windows[w]
  ELSE Settle(w, windows[w], Cardinality(ExpiredIn(w, now)), Reserve, TRUE)
\* Mutant: a window is dropped at its end even while leases reserve in it.
WindowKeptToItsEnd(w, now) == WindowEnd(w) > now
WindowKept(w, now) ==
  \/ WindowEnd(w) > now
  \/ \E i \in LiveLeases(now) : w \in leases[i].windows
WindowsAt(now) ==
  [w \in {x \in DOMAIN windows : WindowKept(x, now)} |-> SettledWindow(w, now)]

\* Mutant: a lease does not keep the receipt of its grant.
MentionsTickets(outcome, now) ==
  outcome.type \in {"Queued", "Pending"} /\ outcome.id \in LiveTickets(now)
\* A receipt outlives its expiry while it names a live ticket or lease.
Mentions(outcome, now) ==
  \/ /\ outcome.type \in {"Queued", "Pending"}
     /\ outcome.id \in LiveTickets(now)
  \/ outcome.type = "Admitted" /\ outcome.id \in LiveLeases(now)
ReceiptsAt(now) ==
  Restrict(receipts, {o \in DOMAIN receipts :
    receipts[o].expires > now \/ Mentions(receipts[o].outcome, now)})

BucketCapacity(k) == IF k \in Ip THEN IpCapacity ELSE SessionCapacity
RefillRate(k) == IF k \in Ip THEN IpRefill ELSE SessionRefill
Lesser(a, b) == IF a <= b THEN a ELSE b

\* Mutant: the refill is not cut at the capacity.
RateTokensUncapped(k, now) ==
  IF k \in DOMAIN rates
  THEN rates[k].tokens + (now - rates[k].updated) * RefillRate(k)
  ELSE BucketCapacity(k)
\* _refilled, or a full bucket for a key without a record (_rate_plan).
RateTokens(k, now) ==
  IF k \in DOMAIN rates
  THEN Lesser(BucketCapacity(k),
              rates[k].tokens + (now - rates[k].updated) * RefillRate(k))
  ELSE BucketCapacity(k)

\* _prune_rates: full and untouched for the TTL (only admissions prune it).
RatesAt(now) ==
  Restrict(rates, {k \in DOMAIN rates :
    \/ RateTokens(k, now) # BucketCapacity(k)
    \/ rates[k].updated + RateTTL > now})

-----------------------------------------------------------------------------
(* _ensure_capacity: room for one more receipt and the given growth.       *)

\* The receipts that records with m[i] calls left may still need: one element
\* for every call that remains and one for the call that ends the record.
OwedReceipts(m, most) == {s \in (DOMAIN m) \X (0 .. most) : s[2] <= m[s[1]]}
PollsLeft(tks) == [i \in DOMAIN tks |-> tks[i].polls]
RenewalsLeft(lss) == [i \in DOMAIN lss |-> lss[i].renewals]
FutureReceiptReserve(tks, lss) ==
  Cardinality(OwedReceipts(PollsLeft(tks), PollAttempts))
    + Cardinality(OwedReceipts(RenewalsLeft(lss), RenewalTicks))

Size(f) == Cardinality(DOMAIN f)
Count(rts, now) ==
  Size(rts) + Size(TicketsAt(now)) + Size(LeasesAt(now))
    + Size(WindowsAt(now)) + Size(ReceiptsAt(now))

EnsureCapacity(rts, now, dRates, dTickets, dLeases, dWindows, dFuture) ==
  /\ Size(ReceiptsAt(now)) + 1
       + FutureReceiptReserve(TicketsAt(now), LeasesAt(now)) + dFuture
       <= ReceiptCapacity
  /\ Size(rts) + dRates <= 2 * (MaxActive + MaxQueued + 1)
  /\ Size(TicketsAt(now)) + dTickets <= MaxQueued
  /\ Size(LeasesAt(now)) + dLeases <= MaxActive
  /\ Size(WindowsAt(now)) + dWindows <= 2 * (MaxActive + 1)
  /\ Count(rts, now) + dRates + dTickets + dLeases + dWindows + 1 <= MaxKeys

-----------------------------------------------------------------------------
(* Budget.                                                                 *)

WindowAt(w, now) ==
  IF w \in DOMAIN WindowsAt(now) THEN WindowsAt(now)[w]
  ELSE [reserved |-> 0, committed |-> 0, uncertain |-> FALSE, overrun |-> FALSE]
NewWindows(now) == WindowsOf(now) \ DOMAIN WindowsAt(now)

\* Mutant: promises to running requests are not counted.
BudgetAvailableCommitted(now) ==
  \A w \in WindowsOf(now) :
    WindowAt(w, now).committed + Reserve <= Budget(w)
BudgetAvailable(now) ==
  \A w \in WindowsOf(now) :
    LET window == WindowAt(w, now)
    IN  /\ ~window.overrun
        /\ window.reserved + window.committed + Reserve <= Budget(w)

\* _reserve_budget
Reserved(now) ==
  [w \in DOMAIN WindowsAt(now) \cup WindowsOf(now) |->
     IF w \in WindowsOf(now)
     THEN [WindowAt(w, now) EXCEPT !.reserved = @ + Reserve]
     ELSE WindowsAt(now)[w]]

-----------------------------------------------------------------------------
(* The common frame of a call: receipt preflight, clock, prune, replay.    *)

Matches(op, kind, args) == receipts[op].kind = kind /\ receipts[op].args = args

\* _preflight_receipt_collision and _now let the call through.
Enters(op, kind, args, now) ==
  /\ op \in DOMAIN receipts => Matches(op, kind, args)
  /\ now >= lastNow
  /\ lastNow' = now

\* _replay finds no receipt for the operation.
Fresh(op, now) == op \notin DOMAIN ReceiptsAt(now)

\* Nothing beyond the prune: a replayed receipt, or a refusal after it.
OnlyPrune(now) ==
  /\ tickets' = TicketsAt(now) /\ leases' = LeasesAt(now)
  /\ windows' = WindowsAt(now) /\ receipts' = ReceiptsAt(now)
  /\ UNCHANGED <<sequence, tokenSequence>>

\* _build_receipt and _commit_receipt.
Record(op, kind, args, outcome, now) ==
  receipts' = Put(ReceiptsAt(now), op,
                  [kind |-> kind, args |-> args, outcome |-> outcome,
                   expires |-> now + ReceiptTTL])

NextId == tokenSequence + 1
CanIssue == NextId <= MaxPairs

\* _plan_lease and _commit_lease.
GrantLease(now) ==
  /\ leases' = Put(LeasesAt(now), NextId,
                   [expires |-> now + LeaseTTL, windows |-> WindowsOf(now),
                    renewals |-> RenewalTicks])
  /\ windows' = Reserved(now)
  /\ tokenSequence' = NextId

-----------------------------------------------------------------------------
(* admit_or_enqueue                                                        *)

\* Mutant: the spent record restarts from its stored tokens, not refilled.
ConsumeRatesStale(ip, session, now) ==
  LET stored(k) == IF k \in DOMAIN rates THEN rates[k].tokens ELSE BucketCapacity(k)
      spent(k) == [tokens |-> stored(k) - TokenCost, updated |-> now]
  IN  rates' = Put(Put(RatesAt(now), ip, spent(ip)), session, spent(session))
\* _consume_rates
ConsumeRates(ip, session, now) ==
  LET spent(k) == [tokens |-> RateTokens(k, now) - TokenCost, updated |-> now]
  IN  rates' = Put(Put(RatesAt(now), ip, spent(ip)), session, spent(session))

Throttled(ip, session, now) ==
  \E k \in {ip, session} : RateTokens(k, now) < TokenCost
ThrottleReason(ip, now) ==
  IF RateTokens(ip, now) < TokenCost
  THEN "ip_rate_limited" ELSE "session_rate_limited"

\* The branch the request takes once its rate records allow it.
AdmitBranch(now) ==
  IF ~BudgetAvailable(now) THEN "budget"
  ELSE IF Size(LeasesAt(now)) < MaxActive /\ LiveTickets(now) = {} THEN "admit"
  ELSE IF Size(TicketsAt(now)) < MaxQueued /\ PollAttempts > 0 THEN "queue"
  ELSE "busy"

AdmitDenial(now) ==
  CASE AdmitBranch(now) = "budget" -> Denied("budget_exhausted")
    [] AdmitBranch(now) = "busy" -> Denied("concurrency_limited")

\* Rate denials keep the records (only pruned); the others consume.
NewRates(ip, session, now) == Cardinality({ip, session} \ DOMAIN RatesAt(now))

AdmitFits(ip, session, now, dTickets, dLeases, dWindows, dFuture) ==
  EnsureCapacity(RatesAt(now), now, NewRates(ip, session, now),
                 dTickets, dLeases, dWindows, dFuture)

\* Mutant: a ticket is queued without reserving the receipts of its polls.
AdmitRoomUnreserved(ip, session, now) ==
  /\ AdmitBranch(now) \in {"admit", "queue"} => CanIssue
  /\ AdmitBranch(now) = "queue" => sequence < MaxSequence
  /\ IF AdmitBranch(now) = "admit"
     THEN AdmitFits(ip, session, now, 0, 1, Cardinality(NewWindows(now)),
                    RenewalTicks + 1)
     ELSE AdmitFits(ip, session, now,
                    IF AdmitBranch(now) = "queue" THEN 1 ELSE 0, 0, 0, 0)
AdmitRoom(ip, session, now) ==
  CASE AdmitBranch(now) = "admit" ->
         /\ CanIssue
         /\ AdmitFits(ip, session, now, 0, 1, Cardinality(NewWindows(now)),
                      RenewalTicks + 1)
    [] AdmitBranch(now) = "queue" ->
         /\ CanIssue /\ sequence < MaxSequence
         /\ AdmitFits(ip, session, now, 1, 0, 0, PollAttempts + 1)
    [] OTHER -> AdmitFits(ip, session, now, 0, 0, 0, 0)

AdmitReplayed(op, now) ==
  /\ ~Fresh(op, now)
  /\ OnlyPrune(now) /\ rates' = RatesAt(now)

AdmitThrottled(op, args, now) ==
  /\ Fresh(op, now) /\ Throttled(args[1], args[2], now)
  /\ EnsureCapacity(RatesAt(now), now, 0, 0, 0, 0, 0)
  /\ Record(op, "admit_or_enqueue", args,
            Denied(ThrottleReason(args[1], now)), now)
  /\ rates' = RatesAt(now)
  /\ tickets' = TicketsAt(now) /\ leases' = LeasesAt(now)
  /\ windows' = WindowsAt(now)
  /\ UNCHANGED <<sequence, tokenSequence>>

\* store_capacity, after the prune.
AdmitRefused(op, args, now) ==
  /\ Fresh(op, now)
  /\ IF Throttled(args[1], args[2], now)
     THEN ~EnsureCapacity(RatesAt(now), now, 0, 0, 0, 0, 0)
     ELSE ~AdmitRoom(args[1], args[2], now)
  /\ OnlyPrune(now) /\ rates' = RatesAt(now)

Unthrottled(op, args, now, branch) ==
  /\ Fresh(op, now) /\ ~Throttled(args[1], args[2], now)
  /\ AdmitBranch(now) \in branch
  /\ AdmitRoom(args[1], args[2], now)
  /\ ConsumeRates(args[1], args[2], now)

AdmitDenied(op, args, now) ==
  /\ Unthrottled(op, args, now, {"budget", "busy"})
  /\ Record(op, "admit_or_enqueue", args, AdmitDenial(now), now)
  /\ tickets' = TicketsAt(now) /\ leases' = LeasesAt(now)
  /\ windows' = WindowsAt(now)
  /\ UNCHANGED <<sequence, tokenSequence>>

AdmitGranted(op, args, now) ==
  /\ Unthrottled(op, args, now, {"admit"})
  /\ Record(op, "admit_or_enqueue", args, Admitted(NextId, now + LeaseTTL), now)
  /\ GrantLease(now)
  /\ tickets' = TicketsAt(now) /\ UNCHANGED sequence

AdmitQueued(op, args, now) ==
  /\ Unthrottled(op, args, now, {"queue"})
  /\ Record(op, "admit_or_enqueue", args, Queued(NextId), now)
  /\ tickets' = Put(TicketsAt(now), NextId,
                    [expires |-> now + TicketTTL, sequence |-> sequence + 1,
                     polls |-> PollAttempts])
  /\ sequence' = sequence + 1 /\ tokenSequence' = NextId
  /\ leases' = LeasesAt(now) /\ windows' = WindowsAt(now)

AdmitOrEnqueue(op, ip, session, now) ==
  LET args == <<ip, session>>
  IN  /\ Enters(op, "admit_or_enqueue", args, now)
      /\ \/ AdmitReplayed(op, now)
         \/ AdmitThrottled(op, args, now)
         \/ AdmitRefused(op, args, now)
         \/ AdmitDenied(op, args, now)
         \/ AdmitGranted(op, args, now)
         \/ AdmitQueued(op, args, now)
-----------------------------------------------------------------------------
(* The calls that carry a handle.  Their _prune leaves the rates alone.    *)

Room(now, dTickets, dLeases, dWindows, dFuture) ==
  EnsureCapacity(rates, now, 0, dTickets, dLeases, dWindows, dFuture)

Replayed(op, now) == ~Fresh(op, now) /\ OnlyPrune(now) /\ UNCHANGED rates

\* A call that raises after the prune leaves no receipt.
Refused(op, now) == Fresh(op, now) /\ OnlyPrune(now) /\ UNCHANGED rates

-----------------------------------------------------------------------------
(* wait_for_admission                                                      *)

IsHead(id, now) ==
  \A i \in LiveTickets(now) : tickets[id].sequence <= tickets[i].sequence

\* Mutant: whichever ticket polls first takes a free lease.
PollBranchAnyTicket(h, now) ==
  IF h.id \notin LiveTickets(now) THEN "gone"
  ELSE IF ~h.fenced \/ tickets[h.id].polls = 0 THEN "invalid"
  ELSE IF Size(LeasesAt(now)) >= MaxActive THEN "pending"
  ELSE IF ~BudgetAvailable(now) THEN "budget"
  ELSE "admit"
PollBranch(h, now) ==
  IF h.id \notin LiveTickets(now) THEN "gone"
  ELSE IF ~h.fenced \/ tickets[h.id].polls = 0 THEN "invalid"
  ELSE IF ~IsHead(h.id, now) \/ Size(LeasesAt(now)) >= MaxActive THEN "pending"
  ELSE IF ~BudgetAvailable(now) THEN "budget"
  ELSE "admit"

\* The receipts the ticket of h had reserved.
Owed(h) == tickets[h.id].polls + 1

PollRoom(h, now) ==
  CASE PollBranch(h, now) = "gone" -> Room(now, 0, 0, 0, 0)
    [] PollBranch(h, now) = "pending" -> Room(now, 0, 0, 0, -1)
    [] PollBranch(h, now) = "budget" -> Room(now, -1, 0, 0, -Owed(h))
    [] PollBranch(h, now) = "admit" ->
         /\ CanIssue
         /\ Room(now, -1, 1, Cardinality(NewWindows(now)),
                 RenewalTicks + 1 - Owed(h))
    [] OTHER -> FALSE

PollRefused(op, h, now) == ~PollRoom(h, now) /\ Refused(op, now)

PollAnswered(op, h, now, branch, outcome) ==
  /\ Fresh(op, now) /\ PollBranch(h, now) = branch /\ PollRoom(h, now)
  /\ Record(op, "wait_for_admission", h, outcome, now)
  /\ UNCHANGED <<rates, sequence>>

PollGone(op, h, now) ==
  /\ PollAnswered(op, h, now, "gone", Denied("concurrency_limited"))
  /\ tickets' = TicketsAt(now) /\ leases' = LeasesAt(now)
  /\ windows' = WindowsAt(now) /\ UNCHANGED tokenSequence

PollPending(op, h, now) ==
  /\ PollAnswered(op, h, now, "pending", Pending(h.id))
  /\ tickets' = [TicketsAt(now) EXCEPT ![h.id].polls = @ - 1]
  /\ leases' = LeasesAt(now) /\ windows' = WindowsAt(now)
  /\ UNCHANGED tokenSequence

PollDenied(op, h, now) ==
  /\ PollAnswered(op, h, now, "budget", Denied("budget_exhausted"))
  /\ tickets' = Without(TicketsAt(now), h.id)
  /\ leases' = LeasesAt(now) /\ windows' = WindowsAt(now)
  /\ UNCHANGED tokenSequence

PollAdmitted(op, h, now) ==
  /\ PollAnswered(op, h, now, "admit", Admitted(NextId, now + LeaseTTL))
  /\ tickets' = Without(TicketsAt(now), h.id)
  /\ GrantLease(now)

WaitForAdmission(op, h, now) ==
  /\ Enters(op, "wait_for_admission", h, now)
  /\ \/ Replayed(op, now)
     \/ PollRefused(op, h, now)
     \/ PollGone(op, h, now)
     \/ PollPending(op, h, now)
     \/ PollDenied(op, h, now)
     \/ PollAdmitted(op, h, now)

-----------------------------------------------------------------------------
(* renew                                                                   *)

Renewable(h, now) ==
  h.id \in LiveLeases(now) /\ h.fenced /\ leases[h.id].renewals > 0
\* No such lease, or somebody else's token: the answer is Lost.
LostReason(h, now) ==
  IF h.id \in LiveLeases(now) THEN "fencing_lost" ELSE "lease_expired"

RenewRoom(h, now) ==
  IF h.id \in LiveLeases(now) /\ h.fenced
  THEN leases[h.id].renewals > 0 /\ Room(now, 0, 0, 0, -1)
  ELSE Room(now, 0, 0, 0, 0)

RenewRefused(op, h, now) == ~RenewRoom(h, now) /\ Refused(op, now)

RenewAnswered(op, h, outcome, now) ==
  /\ Fresh(op, now) /\ RenewRoom(h, now)
  /\ Record(op, "renew", h, outcome, now)
  /\ tickets' = TicketsAt(now) /\ windows' = WindowsAt(now)
  /\ UNCHANGED <<rates, sequence, tokenSequence>>

RenewLost(op, h, now) ==
  /\ ~Renewable(h, now)
  /\ RenewAnswered(op, h, Lost(LostReason(h, now)), now)
  /\ leases' = LeasesAt(now)

RenewGranted(op, h, now) ==
  /\ Renewable(h, now)
  /\ RenewAnswered(op, h, Renewed(now + LeaseTTL), now)
  /\ leases' = [LeasesAt(now) EXCEPT ![h.id].expires = now + LeaseTTL,
                                    ![h.id].renewals = @ - 1]

Renew(op, h, now) ==
  /\ Enters(op, "renew", h, now)
  /\ \/ Replayed(op, now)
     \/ RenewRefused(op, h, now)
     \/ RenewLost(op, h, now)
     \/ RenewGranted(op, h, now)

-----------------------------------------------------------------------------
(* finalize                                                                *)

FinalizeRoom(h, now) ==
  /\ h.id \in LiveLeases(now) /\ h.fenced
  /\ Room(now, 0, 0, 0, -(leases[h.id].renewals + 1))

FinalizeRefused(op, h, now) == ~FinalizeRoom(h, now) /\ Refused(op, now)

FinalizeSettled(op, h, charge, uncertain, now) ==
  /\ Fresh(op, now) /\ FinalizeRoom(h, now)
  /\ Record(op, "finalize", <<h, charge, uncertain>>, Finalized, now)
  /\ leases' = Without(LeasesAt(now), h.id)
  /\ windows' = [w \in DOMAIN WindowsAt(now) |->
                   IF w \in leases[h.id].windows
                   THEN Settle(w, WindowsAt(now)[w], 1, charge, uncertain)
                   ELSE WindowsAt(now)[w]]
  /\ tickets' = TicketsAt(now)
  /\ UNCHANGED <<rates, sequence, tokenSequence>>

Finalize(op, h, charge, uncertain, now) ==
  /\ Enters(op, "finalize", <<h, charge, uncertain>>, now)
  /\ \/ Replayed(op, now)
     \/ FinalizeRefused(op, h, now)
     \/ FinalizeSettled(op, h, charge, uncertain, now)

-----------------------------------------------------------------------------
(* cancel_ticket                                                           *)

CancelRoom(h, now) ==
  IF h.id \in LiveTickets(now)
  THEN h.fenced /\ Room(now, 0, 0, 0, -Owed(h))
  ELSE Room(now, 0, 0, 0, 0)

CancelRefused(op, h, now) == ~CancelRoom(h, now) /\ Refused(op, now)

CancelDone(op, h, now) ==
  /\ Fresh(op, now) /\ CancelRoom(h, now)
  /\ Record(op, "cancel_ticket", h, CancelledTicket, now)
  /\ tickets' = Without(TicketsAt(now), h.id)
  /\ leases' = LeasesAt(now) /\ windows' = WindowsAt(now)
  /\ UNCHANGED <<rates, sequence, tokenSequence>>

CancelTicket(op, h, now) ==
  /\ Enters(op, "cancel_ticket", h, now)
  /\ Replayed(op, now) \/ CancelRefused(op, h, now) \/ CancelDone(op, h, now)

-----------------------------------------------------------------------------
(* check_budget_readiness: prunes, then reads.                             *)

CheckBudgetReadiness(now) ==
  /\ now >= lastNow /\ lastNow' = now
  /\ OnlyPrune(now) /\ UNCHANGED rates

-----------------------------------------------------------------------------

\* Every handle a caller can hold, with the issued token or another one.
IssuedHandle == {h \in Handle : h.id <= tokenSequence}

CallByClient(op, now) ==
  \E ip \in Ip, session \in Session : AdmitOrEnqueue(op, ip, session, now)

CallByHolder(op, h, now) ==
  \/ WaitForAdmission(op, h, now)
  \/ Renew(op, h, now)
  \/ CancelTicket(op, h, now)
  \/ \E charge \in Charges, uncertain \in BOOLEAN :
       Finalize(op, h, charge, uncertain, now)

Next ==
  \E now \in Instant :
    \/ \E op \in OperationId :
         \/ CallByClient(op, now)
         \/ \E h \in IssuedHandle : CallByHolder(op, h, now)
    \/ CheckBudgetReadiness(now)

Spec == Init /\ [][Next]_vars
-----------------------------------------------------------------------------
(* Properties.                                                             *)

Functional(f, keys, Value) == DOMAIN f \subseteq keys /\ \A x \in DOMAIN f : f[x] \in Value

\* Every table holds well-formed records, and its bounds are the configured
\* ones: rate records cover [0, capacity] and were not written in the future.
TypeOK ==
  /\ lastNow \in Instant
  /\ Functional(rates, Ip \cup Session, [tokens : Nat, updated : Instant])
  /\ \A k \in DOMAIN rates : rates[k].tokens <= BucketCapacity(k)
                            /\ rates[k].updated <= lastNow
  /\ Functional(tickets, 1 .. tokenSequence, TicketRecord)
  /\ Functional(leases, 1 .. tokenSequence, LeaseRecord)
  /\ Functional(windows, Period \X Nat, WindowRecord)
  /\ DOMAIN receipts \subseteq OperationId
  /\ sequence \in 0 .. MaxSequence /\ tokenSequence \in 0 .. MaxPairs

\* "Capacity is reserved for live lifecycle receipts": whenever the clock is
\* next read, a live lease can be renewed (while ticks remain) and finalized,
\* and a live ticket can be polled to Pending and cancelled, without
\* store_capacity (_ensure_capacity and _future_receipt_reserve).
LifecycleNeverRefused ==
  \A now \in lastNow .. Horizon :
    /\ \A i \in LiveLeases(now) :
         /\ Room(now, 0, 0, 0, -(leases[i].renewals + 1))
         /\ leases[i].renewals > 0 => Room(now, 0, 0, 0, -1)
    /\ \A i \in LiveTickets(now) :
         /\ Room(now, 0, 0, 0, -(tickets[i].polls + 1))
         /\ tickets[i].polls > 0 => Room(now, 0, 0, 0, -1)

\* Each budget window reserves exactly one reservation per lease that was
\* granted in it and is still in the table, and no lease lost its windows:
\* _release_reservation can never find less than it has to give back.
LeasesIn(w) == {i \in DOMAIN leases : w \in leases[i].windows}
ReservationsBacked ==
  /\ \A i \in DOMAIN leases : leases[i].windows \subseteq DOMAIN windows
  /\ \A w \in DOMAIN windows :
       windows[w].reserved = Reserve * Cardinality(LeasesIn(w))

\* Until a charge above its reservation is reported, what is committed and
\* what is promised stay inside the hourly and the daily budget.
WithinBudget ==
  \A w \in DOMAIN windows :
    windows[w].overrun \/ windows[w].reserved + windows[w].committed <= Budget(w)

\* A grant in force is on record under exactly one operation id, however old
\* the receipt is: a late replay of that call cannot be granted twice.
GrantsOf(type, id) ==
  {op \in DOMAIN receipts : /\ receipts[op].outcome.type = type
                            /\ receipts[op].outcome.id = id}
GrantsOnRecord ==
  /\ \A i \in DOMAIN leases : Cardinality(GrantsOf("Admitted", i)) = 1
  /\ \A i \in DOMAIN tickets : Cardinality(GrantsOf("Queued", i)) = 1

\* The whole store fits in max_keys, and its windows in the structural share.
TablesBounded ==
  /\ Size(tickets) <= MaxQueued /\ Size(leases) <= MaxActive
  /\ Size(rates) <= 2 * (MaxActive + MaxQueued + 1)
  /\ Size(WindowsAt(lastNow)) <= 2 * (MaxActive + 1)
  /\ Size(rates) + Size(tickets) + Size(leases) + Size(WindowsAt(lastNow))
       + Size(receipts) <= MaxKeys

\* FIFO: when a lease is granted, either no ticket keeps waiting, or the grant
\* took an unexpired ticket older than every ticket that keeps waiting
\* (the empty-queue guard of admit_or_enqueue, the head rule of the poll).
NoOvertaking ==
  [][\A i \in DOMAIN leases' \ DOMAIN leases :
       LET waiting == DOMAIN tickets \cap DOMAIN tickets'
       IN  waiting # {} =>
             \E head \in DOMAIN tickets \ waiting :
               /\ tickets[head].expires > lastNow'
               /\ \A t \in waiting : tickets[head].sequence < tickets[t].sequence
    ]_vars

\* A window is not forgotten before it ends, its committed amount never
\* shrinks, it takes the full reservation of every lease that expires, and its
\* overrun and uncertainty marks stay (_prune, _release_reservation).
SpendingRemembered ==
  [][\A w \in DOMAIN windows : WindowEnd(w) > lastNow' =>
       /\ w \in DOMAIN windows'
       /\ windows'[w].committed >= windows[w].committed
            + Reserve * Cardinality(ExpiredIn(w, lastNow'))
       /\ windows[w].overrun => windows'[w].overrun
       /\ \/ windows[w].uncertain
          \/ ExpiredIn(w, lastNow') # {}
          => windows'[w].uncertain
    ]_vars

\* The tokens a client can spend change only by refill and by one token per
\* recorded admission decision that is not a rate denial: neither forgetting
\* an idle record nor a refusal nor a replay creates or loses a token.
SpentBy(k) ==
  \E op \in DOMAIN receipts' :
    /\ op \in DOMAIN receipts => receipts'[op] # receipts[op]
    /\ receipts'[op].kind = "admit_or_enqueue"
    /\ k \in {receipts'[op].args[1], receipts'[op].args[2]}
    /\ receipts'[op].outcome \notin
         {Denied("ip_rate_limited"), Denied("session_rate_limited")}
RateTokensConserved ==
  [][\A k \in Ip \cup Session, now \in Instant : now = lastNow' =>
       RateTokens(k, now)' =
         RateTokens(k, now) - (IF SpentBy(k) THEN TokenCost ELSE 0)]_vars
=============================================================================
