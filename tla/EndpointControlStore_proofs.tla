--------------------- MODULE EndpointControlStore_proofs ----------------------
(***************************************************************************)
(* Proofs about the admission store, for every configuration that          *)
(* ConfigAssumption allows: it keeps its types and bounds its tables, what *)
(* it has promised it has room for, budgets are kept and what was spent    *)
(* is remembered, the queue is served in order, and tokens are conserved.  *)
(***************************************************************************)
EXTENDS EndpointControlStore, FiniteSetTheorems, TLAPS

\* ConfigAssumption is always cited for the ranges of the settings.
USE DEF EndpointControlConfig

-----------------------------------------------------------------------------
(* Windows.                                                                *)

LEMMA PeriodLengthPositive ==
  ASSUME NEW p \in Period
  PROVE  PeriodLength(p) \in Nat \ {0}
BY ConfigAssumption, SMT DEF PeriodLength, Period

\* The index of the window an instant falls in.
LEMMA DivNat ==
  ASSUME NEW t \in Nat, NEW l \in Nat \ {0}
  PROVE  /\ t \div l \in Nat
         /\ l * (t \div l) <= t
         /\ t < l * ((t \div l) + 1)
BY Z3

LEMMA DivUnique ==
  ASSUME NEW t \in Nat, NEW l \in Nat \ {0}, NEW q \in Nat,
         l * q <= t, t < l * (q + 1)
  PROVE  t \div l = q
BY Z3

LEMMA WindowShape ==
  ASSUME NEW t \in Instant
  PROVE  /\ WindowsOf(t) \subseteq Period \X Nat
         /\ \A w \in WindowsOf(t) : /\ PeriodLength(w[1]) * w[2] <= t
                                   /\ t < WindowEnd(w)
         /\ \A w \in WindowsOf(t) : w = <<w[1], t \div PeriodLength(w[1])>>
<1>1. ASSUME NEW p \in Period
      PROVE  /\ t \div PeriodLength(p) \in Nat
             /\ PeriodLength(p) * (t \div PeriodLength(p)) <= t
             /\ t < ((t \div PeriodLength(p)) + 1) * PeriodLength(p)
  <2> DEFINE l == PeriodLength(p)
             d == t \div l
  <2>1. l \in Nat \ {0}
    BY PeriodLengthPositive
  <2>2. t \in Nat
    BY ConfigAssumption DEF Instant
  <2>3. d \in Nat /\ l * d <= t /\ t < l * (d + 1)
    BY <2>1, <2>2, DivNat
  <2>4. l * (d + 1) = (d + 1) * l
    BY <2>1, <2>3
  <2> QED BY <2>3, <2>4
<1>2. \A w \in WindowsOf(t) : \E p \in Period : w = <<p, t \div PeriodLength(p)>>
  BY DEF WindowsOf
<1>3. ASSUME NEW w \in WindowsOf(t)
      PROVE  /\ w \in Period \X Nat
             /\ PeriodLength(w[1]) * w[2] <= t
             /\ t < WindowEnd(w)
             /\ w = <<w[1], t \div PeriodLength(w[1])>>
  <2>1. PICK p \in Period : w = <<p, t \div PeriodLength(p)>>
    BY <1>2
  <2>2. w[1] = p /\ w[2] = t \div PeriodLength(p)
    BY <2>1
  <2>3. WindowEnd(w) = ((t \div PeriodLength(p)) + 1) * PeriodLength(p)
    BY <2>2 DEF WindowEnd
  <2> QED BY <1>1, <2>1, <2>2, <2>3
<1> QED BY <1>3

-----------------------------------------------------------------------------
(* The tables after a prune.                                               *)

\* The part of the invariant about leases and the windows they reserve in.
WindowInv == TypeOK /\ ReservationsBacked

\* The leases that survive a prune at now and were granted in window w.
SurvivorsIn(w, now) == {i \in LiveLeases(now) : w \in leases[i].windows}

LEMMA LeasesFinite ==
  ASSUME TypeOK, NEW now \in Instant, NEW w
  PROVE  /\ IsFiniteSet(DOMAIN leases) /\ IsFiniteSet(LiveLeases(now))
         /\ IsFiniteSet(LeasesIn(w)) /\ IsFiniteSet(ExpiredIn(w, now))
         /\ IsFiniteSet(SurvivorsIn(w, now))
         /\ Cardinality(ExpiredIn(w, now)) \in Nat
         /\ Cardinality(SurvivorsIn(w, now)) \in Nat
         /\ Cardinality(LeasesIn(w)) =
              Cardinality(ExpiredIn(w, now)) + Cardinality(SurvivorsIn(w, now))
<1>1. IsFiniteSet(1 .. tokenSequence)
  BY FS_Interval DEF TypeOK
<1>2. IsFiniteSet(DOMAIN leases)
  BY <1>1, FS_Subset DEF TypeOK, Functional
<1>3. /\ LiveLeases(now) \subseteq DOMAIN leases
      /\ LeasesIn(w) \subseteq DOMAIN leases
      /\ ExpiredIn(w, now) \subseteq DOMAIN leases
      /\ SurvivorsIn(w, now) \subseteq DOMAIN leases
  BY DEF LiveLeases, LeasesIn, ExpiredIn, SurvivorsIn
<1>4. /\ IsFiniteSet(LiveLeases(now)) /\ IsFiniteSet(LeasesIn(w))
      /\ IsFiniteSet(ExpiredIn(w, now)) /\ IsFiniteSet(SurvivorsIn(w, now))
  BY <1>2, <1>3, FS_Subset
<1>5. /\ Cardinality(ExpiredIn(w, now)) \in Nat
      /\ Cardinality(SurvivorsIn(w, now)) \in Nat
      /\ Cardinality(LeasesIn(w)) \in Nat
  BY <1>4, FS_CardinalityType
<1>6. /\ LeasesIn(w) = ExpiredIn(w, now) \cup SurvivorsIn(w, now)
      /\ ExpiredIn(w, now) \cap SurvivorsIn(w, now) = {}
  BY DEF LeasesIn, ExpiredIn, SurvivorsIn, LiveLeases
<1>7. Cardinality(LeasesIn(w)) =
        Cardinality(ExpiredIn(w, now)) + Cardinality(SurvivorsIn(w, now)) - 0
  BY <1>4, <1>6, FS_Union, FS_EmptySet, Zenon
<1> QED BY <1>2, <1>4, <1>5, <1>7

LEMMA LeasesAtOK ==
  ASSUME TypeOK, NEW now \in Instant
  PROVE  /\ Functional(LeasesAt(now), 1 .. tokenSequence, LeaseRecord)
         /\ Functional(TicketsAt(now), 1 .. tokenSequence, TicketRecord)
         /\ DOMAIN LeasesAt(now) = LiveLeases(now)
         /\ DOMAIN TicketsAt(now) = LiveTickets(now)
         /\ \A i \in LiveLeases(now) : LeasesAt(now)[i] = leases[i]
         /\ \A i \in LiveTickets(now) : TicketsAt(now)[i] = tickets[i]
         /\ LiveLeases(now) \subseteq DOMAIN leases
         /\ LiveTickets(now) \subseteq DOMAIN tickets
BY DEF TypeOK, Functional, LeasesAt, TicketsAt, LiveLeases, LiveTickets, Restrict

\* A prune leaves every window with one reservation per surviving lease.
LEMMA WindowsAtOK ==
  ASSUME WindowInv, NEW now \in Instant
  PROVE  /\ Functional(WindowsAt(now), Period \X Nat, WindowRecord)
         /\ \A i \in LiveLeases(now) : leases[i].windows \subseteq DOMAIN WindowsAt(now)
         /\ \A w \in DOMAIN WindowsAt(now) :
              WindowsAt(now)[w].reserved = Reserve * Cardinality(SurvivorsIn(w, now))
<1>1. DOMAIN WindowsAt(now) \subseteq DOMAIN windows
  BY DEF WindowsAt
<1>2. \A i \in LiveLeases(now) : leases[i].windows \subseteq DOMAIN WindowsAt(now)
  BY DEF WindowInv, ReservationsBacked, WindowsAt, WindowKept, LiveLeases
<1>3. ASSUME NEW w \in DOMAIN WindowsAt(now)
      PROVE  /\ WindowsAt(now)[w] \in WindowRecord
             /\ WindowsAt(now)[w].reserved = Reserve * Cardinality(SurvivorsIn(w, now))
  <2> DEFINE e == Cardinality(ExpiredIn(w, now))
             v == Cardinality(SurvivorsIn(w, now))
  <2>1. e \in Nat /\ v \in Nat /\ Cardinality(LeasesIn(w)) = e + v
    BY LeasesFinite DEF WindowInv
  <2>2. windows[w] \in WindowRecord /\ windows[w].reserved = Reserve * (e + v)
    BY <1>1, <2>1 DEF WindowInv, TypeOK, Functional, ReservationsBacked
  <2>3. WindowsAt(now)[w] = SettledWindow(w, now)
    BY DEF WindowsAt
  <2>4. CASE ExpiredIn(w, now) = {}
    <3>1. e = 0
      BY <2>4, FS_EmptySet
    <3>2. windows[w].reserved = Reserve * v
      BY <2>1, <2>2, <3>1, ConfigAssumption
    <3> QED BY <2>2, <2>3, <2>4, <3>2 DEF SettledWindow
  <2>5. CASE ExpiredIn(w, now) # {}
    <3> DEFINE s == Settle(w, windows[w], e, Reserve, TRUE)
    <3>1. WindowsAt(now)[w] = s
      BY <2>3, <2>5 DEF SettledWindow
    <3>2. s.reserved = Reserve * (e + v) - e * Reserve
      BY <2>2 DEF Settle
    <3>3. Reserve \in Nat /\ Reserve * (e + v) - e * Reserve = Reserve * v
      BY <2>1, ConfigAssumption
    <3>4. Reserve * v \in Nat /\ e * Reserve \in Nat
      BY <2>1, <3>3
    <3>5. windows[w].committed + e * Reserve \in Nat
      BY <2>2, <3>4 DEF WindowRecord
    <3>6. s \in WindowRecord
      BY <2>2, <3>2, <3>3, <3>4, <3>5 DEF Settle, WindowRecord
    <3> QED BY <3>1, <3>2, <3>3, <3>6
  <2> QED BY <2>4, <2>5
<1>4. DOMAIN WindowsAt(now) \subseteq Period \X Nat
  BY <1>1 DEF WindowInv, TypeOK, Functional
<1> QED BY <1>2, <1>3, <1>4 DEF Functional

-----------------------------------------------------------------------------
(* The effects a step can have, table by table.                            *)

Survive(now) ==
  /\ leases' = LeasesAt(now) /\ windows' = WindowsAt(now)
  /\ tokenSequence' \in tokenSequence .. MaxPairs
Extend(h, now) ==
  /\ Renewable(h, now)
  /\ leases' = [LeasesAt(now) EXCEPT ![h.id].expires = now + LeaseTTL,
                                    ![h.id].renewals = @ - 1]
  /\ windows' = WindowsAt(now) /\ UNCHANGED tokenSequence
Close(h, charge, uncertain, now) ==
  /\ h.id \in LiveLeases(now)
  /\ leases' = Without(LeasesAt(now), h.id)
  /\ windows' = [w \in DOMAIN WindowsAt(now) |->
                   IF w \in leases[h.id].windows
                   THEN Settle(w, WindowsAt(now)[w], 1, charge, uncertain)
                   ELSE WindowsAt(now)[w]]
  /\ UNCHANGED tokenSequence
\* When a lease may be granted: the budget has room, and nobody waits or the
\* oldest ticket is the one that goes.
Due(now) ==
  /\ BudgetAvailable(now)
  /\ \/ LiveTickets(now) = {}
     \/ \E h \in IssuedHandle :
          /\ h.id \in LiveTickets(now) /\ IsHead(h.id, now)
          /\ tickets' = Without(TicketsAt(now), h.id)
LeaseEffect(now) ==
  \/ Survive(now)
  \/ CanIssue /\ Due(now) /\ GrantLease(now)
  \/ \E h \in IssuedHandle : Extend(h, now)
  \/ \E h \in IssuedHandle, charge \in Charges, uncertain \in BOOLEAN :
       Close(h, charge, uncertain, now)

TicketEffect(now) ==
  \/ tickets' = TicketsAt(now) /\ UNCHANGED sequence
  \/ \E h \in IssuedHandle :
       tickets' = Without(TicketsAt(now), h.id) /\ UNCHANGED sequence
  \/ \E h \in IssuedHandle :
       /\ h.id \in LiveTickets(now) /\ tickets[h.id].polls # 0
       /\ tickets' = [TicketsAt(now) EXCEPT ![h.id].polls = @ - 1]
       /\ UNCHANGED sequence
  \/ /\ CanIssue /\ sequence < MaxSequence /\ sequence' = sequence + 1
     /\ tickets' = Put(TicketsAt(now), NextId,
                       [expires |-> now + TicketTTL, sequence |-> sequence + 1,
                        polls |-> PollAttempts])
     /\ tokenSequence' = NextId

RateEffect(now) ==
  \/ UNCHANGED rates
  \/ rates' = RatesAt(now)
  \/ \E ip \in Ip, session \in Session :
       ~Throttled(ip, session, now) /\ ConsumeRates(ip, session, now)

ReceiptEffect(now) ==
  \/ receipts' = ReceiptsAt(now)
  \/ \E op \in OperationId : \E record :
       /\ op \notin DOMAIN ReceiptsAt(now)
       /\ receipts' = Put(ReceiptsAt(now), op, record)

Effect(now) ==
  /\ now >= lastNow /\ lastNow' = now
  /\ LeaseEffect(now) /\ TicketEffect(now) /\ RateEffect(now) /\ ReceiptEffect(now)

LEMMA TokenBounds ==
  ASSUME TypeOK
  PROVE  /\ tokenSequence \in Nat /\ MaxPairs \in Nat
         /\ tokenSequence \in tokenSequence .. MaxPairs
         /\ CanIssue => NextId \in tokenSequence .. MaxPairs
<1>1. tokenSequence \in 0 .. MaxPairs
  BY DEF TypeOK
<1>2. MaxPairs \in Nat
  BY ConfigAssumption
<1> QED BY <1>1, <1>2 DEF CanIssue, NextId

LEMMA PruneEffect ==
  ASSUME TypeOK, NEW now \in Instant, OnlyPrune(now)
  PROVE  LeaseEffect(now) /\ TicketEffect(now) /\ ReceiptEffect(now)
<1>1. Survive(now)
  BY TokenBounds DEF OnlyPrune, Survive
<1>2. tickets' = TicketsAt(now) /\ UNCHANGED sequence /\ receipts' = ReceiptsAt(now)
  BY DEF OnlyPrune
<1> QED BY <1>1, <1>2 DEF LeaseEffect, TicketEffect, ReceiptEffect

LEMMA AdmitEffect ==
  ASSUME TypeOK, NEW now \in Instant, NEW op \in OperationId, NEW ip \in Ip,
         NEW session \in Session, AdmitOrEnqueue(op, ip, session, now)
  PROVE  Effect(now)
<1> DEFINE args == <<ip, session>>
<1>0. /\ now >= lastNow /\ lastNow' = now
      /\ \/ AdmitReplayed(op, now) \/ AdmitThrottled(op, args, now)
         \/ AdmitRefused(op, args, now) \/ AdmitDenied(op, args, now)
         \/ AdmitGranted(op, args, now) \/ AdmitQueued(op, args, now)
  BY DEF AdmitOrEnqueue, Enters
<1>1. args[1] = ip /\ args[2] = session
  OBVIOUS
<1> HIDE DEF args
<1>2. tokenSequence \in tokenSequence .. MaxPairs
  BY TokenBounds
<1>3. CASE AdmitReplayed(op, now) \/ AdmitRefused(op, args, now)
  <2>1. OnlyPrune(now) /\ rates' = RatesAt(now)
    BY <1>3 DEF AdmitReplayed, AdmitRefused
  <2> QED BY <1>0, <2>1, PruneEffect DEF Effect, RateEffect
<1>4. CASE AdmitThrottled(op, args, now)
  BY <1>0, <1>2, <1>4 DEF AdmitThrottled, Fresh, Effect, LeaseEffect, Survive,
     TicketEffect, RateEffect, ReceiptEffect, Record
<1>5. ASSUME NEW branch, Unthrottled(op, args, now, branch)
      PROVE  RateEffect(now) /\ Fresh(op, now)
             /\ AdmitBranch(now) \in branch /\ AdmitRoom(ip, session, now)
  BY <1>1, <1>5 DEF Unthrottled, RateEffect
<1>6. CASE AdmitDenied(op, args, now)
  BY <1>0, <1>2, <1>5, <1>6 DEF AdmitDenied, Fresh, Effect, LeaseEffect, Survive,
     TicketEffect, ReceiptEffect, Record
<1>7. CASE AdmitGranted(op, args, now)
  <2>1. /\ RateEffect(now) /\ Fresh(op, now) /\ AdmitBranch(now) = "admit"
        /\ AdmitRoom(ip, session, now)
    BY <1>5, <1>7 DEF AdmitGranted
  <2>2. CanIssue /\ Due(now)
    BY <2>1 DEF AdmitRoom, AdmitBranch, Due
  <2> QED BY <1>0, <1>7, <2>1, <2>2 DEF AdmitGranted, Fresh, Effect, LeaseEffect,
       TicketEffect, ReceiptEffect, Record
<1>8. CASE AdmitQueued(op, args, now)
  <2>1. /\ RateEffect(now) /\ Fresh(op, now) /\ AdmitBranch(now) = "queue"
        /\ AdmitRoom(ip, session, now)
    BY <1>5, <1>8 DEF AdmitQueued
  <2>2. CanIssue /\ sequence < MaxSequence
    BY <2>1 DEF AdmitRoom
  <2>3. NextId \in tokenSequence .. MaxPairs
    BY <2>2, TokenBounds
  <2>4. LeaseEffect(now)
    BY <1>8, <2>3 DEF AdmitQueued, LeaseEffect, Survive
  <2>5. TicketEffect(now)
    BY <1>8, <2>2 DEF AdmitQueued, TicketEffect
  <2> QED BY <1>0, <1>8, <2>1, <2>4, <2>5 DEF AdmitQueued, Fresh, Effect,
       ReceiptEffect, Record
<1> QED BY <1>0, <1>3, <1>4, <1>6, <1>7, <1>8

LEMMA RefusalEffect ==
  ASSUME TypeOK, NEW now \in Instant, NEW op, now >= lastNow, lastNow' = now,
         Replayed(op, now) \/ Refused(op, now)
  PROVE  Effect(now)
<1>1. OnlyPrune(now) /\ UNCHANGED rates
  BY DEF Replayed, Refused
<1> QED BY <1>1, PruneEffect DEF Effect, RateEffect

LEMMA RecordEffect ==
  ASSUME NEW now \in Instant, NEW op \in OperationId, NEW kind, NEW args,
         NEW outcome, Fresh(op, now), Record(op, kind, args, outcome, now)
  PROVE  ReceiptEffect(now)
BY DEF Fresh, Record, ReceiptEffect

LEMMA PollEffect ==
  ASSUME TypeOK, NEW now \in Instant, NEW op \in OperationId,
         NEW h \in IssuedHandle, WaitForAdmission(op, h, now)
  PROVE  Effect(now)
<1>0. /\ now >= lastNow /\ lastNow' = now
      /\ \/ Replayed(op, now) \/ PollRefused(op, h, now) \/ PollGone(op, h, now)
         \/ PollPending(op, h, now) \/ PollDenied(op, h, now)
         \/ PollAdmitted(op, h, now)
  BY DEF WaitForAdmission, Enters
<1>1. ASSUME NEW branch, NEW outcome, PollAnswered(op, h, now, branch, outcome)
      PROVE  /\ RateEffect(now) /\ ReceiptEffect(now) /\ UNCHANGED sequence
             /\ PollBranch(h, now) = branch /\ PollRoom(h, now)
  BY <1>1, RecordEffect DEF PollAnswered, RateEffect
<1>2. ASSUME leases' = LeasesAt(now), windows' = WindowsAt(now), UNCHANGED tokenSequence
      PROVE  LeaseEffect(now)
  BY <1>2, TokenBounds DEF LeaseEffect, Survive
<1>3. CASE Replayed(op, now) \/ PollRefused(op, h, now)
  BY <1>0, <1>3, RefusalEffect DEF PollRefused
<1>4. CASE PollGone(op, h, now)
  BY <1>0, <1>1, <1>2, <1>4 DEF PollGone, Effect, TicketEffect
<1>5. CASE PollPending(op, h, now)
  <2>1. /\ RateEffect(now) /\ ReceiptEffect(now) /\ UNCHANGED sequence
        /\ PollBranch(h, now) = "pending"
    BY <1>1, <1>5 DEF PollPending
  <2>2. h.id \in LiveTickets(now) /\ tickets[h.id].polls # 0
    BY <2>1 DEF PollBranch
  <2>3. TicketEffect(now)
    BY <1>5, <2>1, <2>2 DEF PollPending, TicketEffect
  <2> QED BY <1>0, <1>2, <1>5, <2>1, <2>3 DEF PollPending, Effect
<1>6. CASE PollDenied(op, h, now)
  BY <1>0, <1>1, <1>2, <1>6 DEF PollDenied, Effect, TicketEffect
<1>7. CASE PollAdmitted(op, h, now)
  <2>1. /\ RateEffect(now) /\ ReceiptEffect(now) /\ UNCHANGED sequence
        /\ PollBranch(h, now) = "admit" /\ PollRoom(h, now)
    BY <1>1, <1>7 DEF PollAdmitted
  <2>2. CanIssue
    BY <2>1 DEF PollRoom
  <2>3. Due(now)
    BY <1>7, <2>1 DEF PollAdmitted, PollBranch, Due
  <2>4. LeaseEffect(now)
    BY <1>7, <2>2, <2>3 DEF PollAdmitted, LeaseEffect
  <2> QED BY <1>0, <1>7, <2>1, <2>4 DEF PollAdmitted, Effect, TicketEffect
<1> QED BY <1>0, <1>3, <1>4, <1>5, <1>6, <1>7

LEMMA RenewEffect ==
  ASSUME TypeOK, NEW now \in Instant, NEW op \in OperationId,
         NEW h \in IssuedHandle, Renew(op, h, now)
  PROVE  Effect(now)
<1>0. /\ now >= lastNow /\ lastNow' = now
      /\ \/ Replayed(op, now) \/ RenewRefused(op, h, now)
         \/ RenewLost(op, h, now) \/ RenewGranted(op, h, now)
  BY DEF Renew, Enters
<1>1. ASSUME NEW outcome, RenewAnswered(op, h, outcome, now)
      PROVE  /\ RateEffect(now) /\ ReceiptEffect(now) /\ TicketEffect(now)
             /\ windows' = WindowsAt(now) /\ UNCHANGED tokenSequence
  BY <1>1, RecordEffect DEF RenewAnswered, RateEffect, TicketEffect
<1>2. CASE Replayed(op, now) \/ RenewRefused(op, h, now)
  BY <1>0, <1>2, RefusalEffect DEF RenewRefused
<1>3. CASE RenewLost(op, h, now)
  <2>1. LeaseEffect(now)
    BY <1>1, <1>3, TokenBounds DEF RenewLost, LeaseEffect, Survive
  <2> QED BY <1>0, <1>1, <1>3, <2>1 DEF RenewLost, Effect
<1>4. CASE RenewGranted(op, h, now)
  <2>1. LeaseEffect(now)
    BY <1>1, <1>4 DEF RenewGranted, LeaseEffect, Extend
  <2> QED BY <1>0, <1>1, <1>4, <2>1 DEF RenewGranted, Effect
<1> QED BY <1>0, <1>2, <1>3, <1>4

LEMMA FinalizeEffect ==
  ASSUME TypeOK, NEW now \in Instant, NEW op \in OperationId,
         NEW h \in IssuedHandle, NEW charge \in Charges, NEW uncertain \in BOOLEAN,
         Finalize(op, h, charge, uncertain, now)
  PROVE  Effect(now)
<1>0. /\ now >= lastNow /\ lastNow' = now
      /\ \/ Replayed(op, now) \/ FinalizeRefused(op, h, now)
         \/ FinalizeSettled(op, h, charge, uncertain, now)
  BY DEF Finalize, Enters
<1>1. CASE Replayed(op, now) \/ FinalizeRefused(op, h, now)
  BY <1>0, <1>1, RefusalEffect DEF FinalizeRefused
<1>2. CASE FinalizeSettled(op, h, charge, uncertain, now)
  <2>1. Close(h, charge, uncertain, now)
    BY <1>2 DEF FinalizeSettled, FinalizeRoom, Close
  <2>2. LeaseEffect(now)
    BY <2>1 DEF LeaseEffect
  <2>3. ReceiptEffect(now)
    BY <1>2, RecordEffect DEF FinalizeSettled
  <2> QED BY <1>0, <1>2, <2>2, <2>3 DEF FinalizeSettled, Effect, TicketEffect, RateEffect
<1> QED BY <1>0, <1>1, <1>2

LEMMA CancelEffect ==
  ASSUME TypeOK, NEW now \in Instant, NEW op \in OperationId,
         NEW h \in IssuedHandle, CancelTicket(op, h, now)
  PROVE  Effect(now)
<1>0. /\ now >= lastNow /\ lastNow' = now
      /\ Replayed(op, now) \/ CancelRefused(op, h, now) \/ CancelDone(op, h, now)
  BY DEF CancelTicket, Enters
<1>1. CASE Replayed(op, now) \/ CancelRefused(op, h, now)
  BY <1>0, <1>1, RefusalEffect DEF CancelRefused
<1>2. CASE CancelDone(op, h, now)
  <2>1. LeaseEffect(now)
    BY <1>2, TokenBounds DEF CancelDone, LeaseEffect, Survive
  <2>2. ReceiptEffect(now)
    BY <1>2, RecordEffect DEF CancelDone
  <2> QED BY <1>0, <1>2, <2>1, <2>2 DEF CancelDone, Effect, TicketEffect, RateEffect
<1> QED BY <1>0, <1>1, <1>2

LEMMA NextEffect ==
  ASSUME TypeOK, Next
  PROVE  \E now \in Instant : Effect(now)
<1>1. PICK now \in Instant :
        \/ \E op \in OperationId :
             \/ CallByClient(op, now)
             \/ \E h \in IssuedHandle : CallByHolder(op, h, now)
        \/ CheckBudgetReadiness(now)
  BY DEF Next
<1>2. CASE \E op \in OperationId : CallByClient(op, now)
  BY <1>2, AdmitEffect DEF CallByClient
<1>3. CASE \E op \in OperationId, h \in IssuedHandle : CallByHolder(op, h, now)
  BY <1>3, PollEffect, RenewEffect, FinalizeEffect, CancelEffect DEF CallByHolder
<1>4. CASE CheckBudgetReadiness(now)
  BY <1>4, PruneEffect DEF CheckBudgetReadiness, Effect, RateEffect
<1> QED BY <1>1, <1>2, <1>3, <1>4

-----------------------------------------------------------------------------
(* Leases and windows stay in step.                                        *)

\* What a step owes to WindowInv about the tables of leases and windows.
LeaseStepOK ==
  /\ tokenSequence' \in tokenSequence .. MaxPairs
  /\ Functional(leases', 1 .. tokenSequence', LeaseRecord)
  /\ Functional(windows', Period \X Nat, WindowRecord)
  /\ ReservationsBacked'

LEMMA SurviveInv ==
  ASSUME WindowInv, NEW now \in Instant, Survive(now)
  PROVE  LeaseStepOK
<1>1. Functional(leases', 1 .. tokenSequence', LeaseRecord)
  <2>1. Functional(LeasesAt(now), 1 .. tokenSequence, LeaseRecord)
    BY LeasesAtOK DEF WindowInv
  <2>2. 1 .. tokenSequence \subseteq 1 .. tokenSequence'
    BY TokenBounds DEF WindowInv, Survive
  <2> QED BY <2>1, <2>2 DEF Functional, Survive
<1>2. \A w : LeasesIn(w)' = SurvivorsIn(w, now)
  BY LeasesAtOK DEF WindowInv, LeasesIn, SurvivorsIn, Survive
<1>3. ReservationsBacked'
  BY <1>2, WindowsAtOK, LeasesAtOK DEF Survive, ReservationsBacked, WindowInv
<1> QED BY <1>1, <1>3, WindowsAtOK DEF LeaseStepOK, Survive

LEMMA GrantInv ==
  ASSUME WindowInv, NEW now \in Instant, CanIssue, GrantLease(now)
  PROVE  LeaseStepOK
<1> DEFINE new == [expires |-> now + LeaseTTL, windows |-> WindowsOf(now),
                   renewals |-> RenewalTicks]
<1>0. /\ tokenSequence \in Nat /\ NextId = tokenSequence + 1
      /\ tokenSequence' = NextId /\ NextId \in tokenSequence .. MaxPairs
  BY TokenBounds DEF WindowInv, GrantLease, NextId
<1>1. new \in LeaseRecord
  <2>1. now + LeaseTTL \in Nat /\ RenewalTicks \in 0 .. RenewalTicks
    BY ConfigAssumption DEF Instant
  <2> QED BY <2>1 DEF LeaseRecord
<1>2. NextId \notin DOMAIN leases
  BY <1>0 DEF WindowInv, TypeOK, Functional
<1>3. /\ DOMAIN leases' = LiveLeases(now) \cup {NextId}
      /\ leases'[NextId] = new
      /\ \A i \in LiveLeases(now) : leases'[i] = leases[i]
  BY <1>2, LeasesAtOK DEF WindowInv, GrantLease, Put
<1> HIDE DEF new
<1>4. Functional(leases', 1 .. tokenSequence', LeaseRecord)
  <2>1. /\ LiveLeases(now) \subseteq 1 .. tokenSequence
        /\ \A i \in LiveLeases(now) : leases[i] \in LeaseRecord
    BY LeasesAtOK DEF WindowInv, Functional
  <2> QED BY <1>0, <1>1, <1>3, <2>1 DEF Functional
<1>5. \A w : LeasesIn(w)' = IF w \in WindowsOf(now)
                            THEN SurvivorsIn(w, now) \cup {NextId}
                            ELSE SurvivorsIn(w, now)
  BY <1>3 DEF LeasesIn, SurvivorsIn, new
<1>6. /\ windows' = Reserved(now)
      /\ DOMAIN windows' = DOMAIN WindowsAt(now) \cup WindowsOf(now)
  BY DEF GrantLease, Reserved
<1>7. ASSUME NEW w \in DOMAIN windows'
      PROVE  /\ w \in Period \X Nat /\ windows'[w] \in WindowRecord
             /\ windows'[w].reserved = Reserve * Cardinality(LeasesIn(w)')
  <2> DEFINE n == Cardinality(SurvivorsIn(w, now))
  <2>0. n \in Nat /\ IsFiniteSet(SurvivorsIn(w, now)) /\ Reserve \in Nat
    BY LeasesFinite, ConfigAssumption DEF WindowInv
  <2>1. CASE w \notin WindowsOf(now)
    BY <1>5, <1>6, <2>1, WindowsAtOK DEF Reserved, Functional
  <2>2. CASE w \in WindowsOf(now)
    <3>1. WindowAt(w, now) \in WindowRecord /\ WindowAt(w, now).reserved = Reserve * n
      <4>1. CASE w \in DOMAIN WindowsAt(now)
        BY <4>1, WindowsAtOK DEF WindowAt, Functional
      <4>2. CASE w \notin DOMAIN WindowsAt(now)
        <5>1. SurvivorsIn(w, now) = {}
          BY <4>2, WindowsAtOK DEF SurvivorsIn
        <5>2. n = 0
          BY <5>1, FS_EmptySet
        <5> QED BY <4>2, <2>0, <5>2 DEF WindowAt, WindowRecord
      <4> QED BY <4>1, <4>2
    <3>2. windows'[w] = [WindowAt(w, now) EXCEPT !.reserved = @ + Reserve]
      BY <1>6, <2>2 DEF Reserved
    <3>3. /\ windows'[w] \in WindowRecord
          /\ windows'[w].reserved = Reserve * n + Reserve
      BY <2>0, <3>1, <3>2 DEF WindowRecord
    <3>4. NextId \notin SurvivorsIn(w, now)
      BY <1>2, LeasesAtOK DEF SurvivorsIn, WindowInv
    <3>5. Cardinality(LeasesIn(w)') = n + 1
      BY <1>5, <2>0, <2>2, <3>4, FS_AddElement
    <3>6. Reserve * n + Reserve = Reserve * (n + 1)
      BY <2>0
    <3>7. w \in Period \X Nat
      BY <2>2, WindowShape
    <3> QED BY <3>3, <3>5, <3>6, <3>7
  <2> QED BY <2>1, <2>2
<1>8. \A i \in DOMAIN leases' : leases'[i].windows \subseteq DOMAIN windows'
  BY <1>3, <1>6, WindowsAtOK DEF new
<1>9. ReservationsBacked'
  BY <1>7, <1>8 DEF ReservationsBacked
<1> QED BY <1>0, <1>4, <1>7, <1>9 DEF LeaseStepOK, Functional

LEMMA ExtendInv ==
  ASSUME WindowInv, NEW now \in Instant, NEW h \in IssuedHandle, Extend(h, now)
  PROVE  LeaseStepOK
<1>0. tokenSequence' = tokenSequence /\ tokenSequence' \in tokenSequence .. MaxPairs
  BY TokenBounds DEF WindowInv, Extend
<1>1. h.id \in LiveLeases(now) /\ leases[h.id].renewals > 0
  BY DEF Extend, Renewable
<1>2. /\ DOMAIN leases' = LiveLeases(now)
      /\ \A i \in LiveLeases(now) : leases'[i].windows = leases[i].windows
      /\ \A i \in LiveLeases(now) : leases'[i] \in LeaseRecord
  <2>1. \A i \in LiveLeases(now) : LeasesAt(now)[i] = leases[i] /\ leases[i] \in LeaseRecord
    BY LeasesAtOK DEF WindowInv, Functional
  <2>2. DOMAIN leases' = LiveLeases(now)
    BY LeasesAtOK DEF WindowInv, Extend
  <2>3. \A i \in LiveLeases(now) \ {h.id} : leases'[i] = leases[i]
    BY <2>1, LeasesAtOK DEF WindowInv, Extend
  <2>4. leases'[h.id] = [expires |-> now + LeaseTTL, windows |-> leases[h.id].windows,
                         renewals |-> leases[h.id].renewals - 1]
    BY <1>1, <2>1, LeasesAtOK DEF WindowInv, Extend, LeaseRecord
  <2>5. now + LeaseTTL \in Nat
    BY ConfigAssumption DEF Instant
  <2>6. /\ leases[h.id].windows \in {WindowsOf(t) : t \in Instant}
        /\ leases[h.id].renewals \in 0 .. RenewalTicks
    BY <1>1, <2>1 DEF LeaseRecord
  <2>7. leases[h.id].renewals - 1 \in 0 .. RenewalTicks
    BY <1>1, <2>6, ConfigAssumption
  <2>8. leases'[h.id] \in LeaseRecord /\ leases'[h.id].windows = leases[h.id].windows
    BY <2>4, <2>5, <2>6, <2>7 DEF LeaseRecord
  <2> QED BY <2>1, <2>2, <2>3, <2>8
<1>3. Functional(leases', 1 .. tokenSequence', LeaseRecord)
  BY <1>0, <1>2, LeasesAtOK DEF WindowInv, Functional
<1>4. \A w : LeasesIn(w)' = SurvivorsIn(w, now)
  BY <1>2 DEF LeasesIn, SurvivorsIn
<1>5. windows' = WindowsAt(now)
  BY DEF Extend
<1>6. ReservationsBacked'
  BY <1>2, <1>4, <1>5, WindowsAtOK DEF ReservationsBacked
<1> QED BY <1>0, <1>3, <1>5, <1>6, WindowsAtOK DEF LeaseStepOK

LEMMA CloseInv ==
  ASSUME WindowInv, NEW now \in Instant, NEW h \in IssuedHandle,
         NEW charge \in Charges, NEW uncertain \in BOOLEAN,
         Close(h, charge, uncertain, now)
  PROVE  LeaseStepOK
<1>0. tokenSequence' = tokenSequence /\ tokenSequence' \in tokenSequence .. MaxPairs
  BY TokenBounds DEF WindowInv, Close
<1>1. h.id \in LiveLeases(now)
  BY DEF Close
<1>2. /\ DOMAIN leases' = LiveLeases(now) \ {h.id}
      /\ \A i \in DOMAIN leases' : leases'[i] = leases[i]
  BY LeasesAtOK DEF WindowInv, Close, Without, Restrict
<1>3. Functional(leases', 1 .. tokenSequence', LeaseRecord)
  BY <1>0, <1>2, LeasesAtOK DEF WindowInv, Functional
<1>4. \A w : LeasesIn(w)' = SurvivorsIn(w, now) \ {h.id}
  BY <1>2 DEF LeasesIn, SurvivorsIn
<1>5. DOMAIN windows' = DOMAIN WindowsAt(now)
  BY DEF Close
<1>6. ASSUME NEW w \in DOMAIN windows'
      PROVE  /\ windows'[w] \in WindowRecord
             /\ windows'[w].reserved = Reserve * Cardinality(LeasesIn(w)')
  <2> DEFINE n == Cardinality(SurvivorsIn(w, now))
             old == WindowsAt(now)[w]
  <2>0. n \in Nat /\ IsFiniteSet(SurvivorsIn(w, now)) /\ Reserve \in Nat
        /\ charge \in Nat
    BY LeasesFinite, ConfigAssumption DEF WindowInv
  <2>1. old \in WindowRecord /\ old.reserved = Reserve * n
    BY <1>5, WindowsAtOK DEF Functional
  <2>2. CASE w \in leases[h.id].windows
    <3>1. Cardinality(LeasesIn(w)') = n - 1
      BY <1>1, <1>4, <2>0, <2>2, FS_RemoveElement DEF SurvivorsIn
    <3>2. n # 0
      BY <1>1, <2>0, <2>2, FS_EmptySet DEF SurvivorsIn
    <3>3. windows'[w] = Settle(w, old, 1, charge, uncertain)
      BY <1>5, <2>2 DEF Close
    <3>4. /\ Reserve * n - 1 * Reserve = Reserve * (n - 1)
          /\ Reserve * (n - 1) \in Nat /\ 1 * charge \in Nat
      BY <2>0, <3>2
    <3>5. /\ windows'[w].reserved = Reserve * (n - 1)
          /\ windows'[w] \in WindowRecord
      BY <2>1, <3>3, <3>4 DEF Settle, WindowRecord
    <3> QED BY <3>1, <3>5
  <2>3. CASE w \notin leases[h.id].windows
    <3>1. LeasesIn(w)' = SurvivorsIn(w, now)
      BY <1>4, <2>3 DEF SurvivorsIn
    <3>2. windows'[w] = old
      BY <1>5, <2>3 DEF Close
    <3> QED BY <2>1, <3>1, <3>2
  <2> QED BY <2>2, <2>3
<1>7. \A i \in DOMAIN leases' : leases'[i].windows \subseteq DOMAIN windows'
  BY <1>2, <1>5, WindowsAtOK
<1>8. ReservationsBacked'
  BY <1>6, <1>7 DEF ReservationsBacked
<1>9. Functional(windows', Period \X Nat, WindowRecord)
  BY <1>5, <1>6, WindowsAtOK DEF Functional
<1> QED BY <1>0, <1>3, <1>8, <1>9 DEF LeaseStepOK

LEMMA LeaseEffectInv ==
  ASSUME WindowInv, NEW now \in Instant, LeaseEffect(now)
  PROVE  LeaseStepOK
BY SurviveInv, GrantInv, ExtendInv, CloseInv DEF LeaseEffect

LEMMA TicketEffectInv ==
  ASSUME TypeOK, NEW now \in Instant, TicketEffect(now),
         tokenSequence' \in tokenSequence .. MaxPairs
  PROVE  /\ Functional(tickets', 1 .. tokenSequence', TicketRecord)
         /\ sequence' \in 0 .. MaxSequence
<1>0. /\ tokenSequence \in Nat /\ tokenSequence' \in Nat
      /\ tokenSequence <= tokenSequence'
      /\ sequence \in Nat /\ sequence <= MaxSequence /\ MaxSequence \in Nat
      /\ 1 .. tokenSequence \subseteq 1 .. tokenSequence'
  BY TokenBounds, ConfigAssumption DEF TypeOK
<1>1. /\ LiveTickets(now) \subseteq 1 .. tokenSequence'
      /\ \A i \in LiveTickets(now) : /\ TicketsAt(now)[i] = tickets[i]
                                    /\ tickets[i] \in TicketRecord
      /\ DOMAIN TicketsAt(now) = LiveTickets(now)
  BY <1>0, LeasesAtOK DEF Functional
<1>2. CASE tickets' = TicketsAt(now) /\ UNCHANGED sequence
  BY <1>0, <1>1, <1>2 DEF Functional
<1>3. CASE \E h \in IssuedHandle :
             tickets' = Without(TicketsAt(now), h.id) /\ UNCHANGED sequence
  BY <1>0, <1>1, <1>3 DEF Functional, Without, Restrict
<1>4. ASSUME NEW h \in IssuedHandle,
             h.id \in LiveTickets(now), tickets[h.id].polls # 0,
             tickets' = [TicketsAt(now) EXCEPT ![h.id].polls = @ - 1],
             UNCHANGED sequence
      PROVE  Functional(tickets', 1 .. tokenSequence', TicketRecord)
  <2>1. tickets[h.id].polls \in 0 .. PollAttempts
    BY <1>1, <1>4 DEF TicketRecord
  <2>2. tickets[h.id].polls - 1 \in 0 .. PollAttempts
    BY <1>4, <2>1, ConfigAssumption
  <2>3. /\ DOMAIN tickets' = LiveTickets(now)
        /\ \A i \in LiveTickets(now) \ {h.id} : tickets'[i] = tickets[i]
        /\ tickets'[h.id] = [tickets[h.id] EXCEPT !.polls = @ - 1]
    BY <1>1, <1>4
  <2>4. tickets'[h.id] \in TicketRecord
    BY <1>1, <1>4, <2>2, <2>3 DEF TicketRecord
  <2> QED BY <1>1, <2>3, <2>4 DEF Functional
<1>5. ASSUME CanIssue, sequence < MaxSequence, sequence' = sequence + 1,
             tickets' = Put(TicketsAt(now), NextId,
                       [expires |-> now + TicketTTL, sequence |-> sequence + 1,
                        polls |-> PollAttempts]),
             tokenSequence' = NextId
      PROVE  /\ Functional(tickets', 1 .. tokenSequence', TicketRecord)
             /\ sequence' \in 0 .. MaxSequence
  <2> DEFINE new == [expires |-> now + TicketTTL, sequence |-> sequence + 1,
                     polls |-> PollAttempts]
  <2>1. now + TicketTTL \in Nat /\ PollAttempts \in 0 .. PollAttempts
    BY ConfigAssumption DEF Instant
  <2>2. sequence + 1 \in 1 .. MaxSequence
    BY <1>0, <1>5
  <2>3. new \in TicketRecord
    BY <2>1, <2>2 DEF TicketRecord
  <2>4. tickets' = Put(TicketsAt(now), NextId, new)
    BY <1>5
  <2>5. NextId \in 1 .. tokenSequence'
    BY <1>0, <1>5 DEF NextId
  <2> HIDE DEF new
  <2>6. /\ DOMAIN tickets' = LiveTickets(now) \cup {NextId}
        /\ tickets'[NextId] = new
        /\ \A i \in LiveTickets(now) \ {NextId} : tickets'[i] = tickets[i]
    BY <1>1, <2>4 DEF Put
  <2> QED BY <1>0, <1>1, <1>5, <2>2, <2>3, <2>5, <2>6 DEF Functional
<1>6. UNCHANGED sequence => sequence' \in 0 .. MaxSequence
  BY <1>0
<1> QED BY <1>2, <1>3, <1>4, <1>5, <1>6 DEF TicketEffect

LEMMA RateTokensType ==
  ASSUME TypeOK, NEW now \in Instant, now >= lastNow, NEW k \in Ip \cup Session
  PROVE  RateTokens(k, now) \in Nat /\ RateTokens(k, now) <= BucketCapacity(k)
<1>1. BucketCapacity(k) \in Nat /\ RefillRate(k) \in Nat
  BY ConfigAssumption DEF BucketCapacity, RefillRate
<1>2. CASE k \in DOMAIN rates
  <2>1. rates[k].tokens \in Nat /\ rates[k].updated \in Nat /\ rates[k].updated <= lastNow
    BY <1>2, ConfigAssumption DEF TypeOK, Functional, Instant
  <2>2. now - rates[k].updated \in Nat
    <3>1. now \in Nat /\ lastNow \in Nat
      BY ConfigAssumption DEF Instant, TypeOK
    <3> QED BY <2>1, <3>1
  <2>3. (now - rates[k].updated) * RefillRate(k) \in Nat
    BY <1>1, <2>2
  <2> QED BY <1>1, <1>2, <2>1, <2>3 DEF RateTokens, Lesser
<1> QED BY <1>1, <1>2 DEF RateTokens

RatesOK(rts, now) ==
  /\ Functional(rts, Ip \cup Session, [tokens : Nat, updated : Instant])
  /\ \A k \in DOMAIN rts : rts[k].tokens <= BucketCapacity(k) /\ rts[k].updated <= now

LEMMA RateEffectInv ==
  ASSUME TypeOK, NEW now \in Instant, now >= lastNow, RateEffect(now)
  PROVE  RatesOK(rates', now)
<1>1. RatesOK(rates, now)
  <2>1. \A k \in DOMAIN rates : rates[k].updated \in Nat
    BY ConfigAssumption DEF TypeOK, Functional, Instant
  <2>2. lastNow \in Nat /\ now \in Nat
    BY ConfigAssumption DEF TypeOK, Instant
  <2> QED BY <2>1, <2>2 DEF TypeOK, RatesOK
<1>2. RatesOK(RatesAt(now), now)
  BY <1>1 DEF RatesOK, RatesAt, Restrict, Functional
<1>3. ASSUME NEW ip \in Ip, NEW session \in Session,
             ~Throttled(ip, session, now), ConsumeRates(ip, session, now)
      PROVE  RatesOK(rates', now)
  <2> DEFINE spent(k) == [tokens |-> RateTokens(k, now) - TokenCost, updated |-> now]
  <2>1. ASSUME NEW k \in {ip, session}
        PROVE  /\ k \in Ip \cup Session
               /\ spent(k) \in [tokens : Nat, updated : Instant]
               /\ spent(k).tokens <= BucketCapacity(k) /\ spent(k).updated <= now
    <3>1. /\ RateTokens(k, now) \in Nat /\ RateTokens(k, now) <= BucketCapacity(k)
          /\ BucketCapacity(k) \in Nat
      BY RateTokensType, ConfigAssumption DEF BucketCapacity
    <3>2. ~(RateTokens(k, now) < TokenCost)
      BY <1>3 DEF Throttled
    <3> QED BY <3>1, <3>2, ConfigAssumption DEF Instant
  <2>2. rates' = Put(Put(RatesAt(now), ip, spent(ip)), session, spent(session))
    BY <1>3 DEF ConsumeRates
  <2> HIDE DEF spent
  <2>3. /\ DOMAIN rates' = DOMAIN RatesAt(now) \cup {ip, session}
        /\ \A k \in {ip, session} : rates'[k] = spent(k)
        /\ \A k \in DOMAIN RatesAt(now) \ {ip, session} :
             rates'[k] = RatesAt(now)[k]
    BY <2>2 DEF Put
  <2> QED BY <1>2, <2>1, <2>3 DEF RatesOK, Functional
<1> QED BY <1>1, <1>2, <1>3 DEF RateEffect

-----------------------------------------------------------------------------
(* The theorems on types and reservations.                                 *)

LEMMA WindowInvInit == Init => WindowInv
<1> SUFFICES ASSUME Init PROVE WindowInv
  OBVIOUS
<1>1. /\ DOMAIN rates = {} /\ DOMAIN tickets = {} /\ DOMAIN leases = {}
      /\ DOMAIN windows = {} /\ DOMAIN receipts = {}
  BY DEF Init
<1>2. /\ lastNow \in Instant /\ sequence \in 0 .. MaxSequence
      /\ tokenSequence \in 0 .. MaxPairs
  BY ConfigAssumption DEF Init, Instant
<1> QED BY <1>1, <1>2 DEF WindowInv, TypeOK, Functional, ReservationsBacked

LEMMA WindowInvEffect ==
  ASSUME WindowInv, NEW now \in Instant, Effect(now)
  PROVE  WindowInv'
<1>1. LeaseStepOK
  BY LeaseEffectInv DEF Effect
<1>2. tokenSequence' \in 0 .. MaxPairs
  BY <1>1, TokenBounds DEF LeaseStepOK, WindowInv
<1>3. /\ Functional(tickets', 1 .. tokenSequence', TicketRecord)
      /\ sequence' \in 0 .. MaxSequence
  BY <1>1, TicketEffectInv DEF Effect, LeaseStepOK, WindowInv
<1>4. RatesOK(rates', now)
  BY RateEffectInv DEF Effect, WindowInv
<1>5. DOMAIN receipts' \subseteq OperationId
  <2>1. DOMAIN ReceiptsAt(now) \subseteq OperationId
    BY DEF WindowInv, TypeOK, ReceiptsAt, Restrict
  <2> QED BY <2>1 DEF Effect, ReceiptEffect, Put
<1>6. lastNow' = now
  BY DEF Effect
<1> QED BY <1>1, <1>2, <1>3, <1>4, <1>5, <1>6
     DEF WindowInv, TypeOK, LeaseStepOK, RatesOK, BucketCapacity

LEMMA WindowInvNext == WindowInv /\ [Next]_vars => WindowInv'
<1>1. ASSUME WindowInv, Next PROVE WindowInv'
  BY <1>1, NextEffect, WindowInvEffect DEF WindowInv
<1>2. ASSUME WindowInv, UNCHANGED vars PROVE WindowInv'
  BY <1>2 DEF WindowInv, TypeOK, ReservationsBacked, LeasesIn, vars
<1> QED BY <1>1, <1>2

\* Every table keeps well-formed records within its configured bounds, for
\* every configuration (InMemoryEndpointControlStore).
THEOREM TypeCorrect == Spec => []TypeOK
<1>1. WindowInv => TypeOK
  BY DEF WindowInv
<1> QED BY <1>1, WindowInvInit, WindowInvNext, PTL DEF Spec

\* Each budget window holds one reservation per lease granted in it that is
\* still in the table, so _release_reservation never finds less than it must
\* give back and never raises malformed_store.
THEOREM ReservationsAreBacked == Spec => []ReservationsBacked
<1>1. WindowInv => ReservationsBacked
  BY DEF WindowInv
<1> QED BY <1>1, WindowInvInit, WindowInvNext, PTL DEF Spec

-----------------------------------------------------------------------------
(* Counting the receipts a live record may still need.                     *)

LEMMA OwedFinite ==
  ASSUME NEW m, NEW most \in Nat, IsFiniteSet(DOMAIN m)
  PROVE  /\ IsFiniteSet(OwedReceipts(m, most))
         /\ Cardinality(OwedReceipts(m, most)) \in Nat
<1>0. IsFiniteSet(0 .. most)
  BY FS_Interval
<1>1. IsFiniteSet((DOMAIN m) \X (0 .. most))
  BY <1>0, FS_Product, Zenon
<1>2. OwedReceipts(m, most) \subseteq (DOMAIN m) \X (0 .. most)
  BY DEF OwedReceipts
<1> QED BY <1>1, <1>2, FS_Subset, FS_CardinalityType

\* The slots of one record, as a set of pairs.
LEMMA SlotCount ==
  ASSUME NEW i, NEW n \in Nat
  PROVE  /\ IsFiniteSet({i} \X (0 .. n))
         /\ Cardinality({i} \X (0 .. n)) = n + 1
<1>1. IsFiniteSet({i}) /\ Cardinality({i}) = 1
  BY FS_Singleton
<1>2. IsFiniteSet(0 .. n) /\ Cardinality(0 .. n) = n + 1
  BY FS_Interval
<1>3. /\ IsFiniteSet({i} \X (0 .. n))
      /\ Cardinality({i} \X (0 .. n)) = Cardinality({i}) * Cardinality(0 .. n)
  BY <1>1, <1>2, FS_Product, Zenon
<1>4. 1 * (n + 1) = n + 1
  OBVIOUS
<1> QED BY <1>1, <1>2, <1>3, <1>4, Zenon

LEMMA OwedShrinks ==
  ASSUME NEW m, NEW sub, NEW most \in Nat, IsFiniteSet(DOMAIN m),
         DOMAIN sub \subseteq DOMAIN m,
         \A i \in DOMAIN sub : sub[i] = m[i]
  PROVE  Cardinality(OwedReceipts(sub, most)) <= Cardinality(OwedReceipts(m, most))
<1>1. OwedReceipts(sub, most) \subseteq OwedReceipts(m, most)
  BY DEF OwedReceipts
<1> QED BY <1>1, OwedFinite, FS_Subset

LEMMA OwedGrows ==
  ASSUME NEW m, NEW g, NEW most \in Nat, IsFiniteSet(DOMAIN m), NEW i,
         DOMAIN g = DOMAIN m \cup {i}, \A j \in DOMAIN m : g[j] = m[j]
  PROVE  Cardinality(OwedReceipts(g, most))
           <= Cardinality(OwedReceipts(m, most)) + most + 1
<1> DEFINE S == OwedReceipts(m, most)
           T == {i} \X (0 .. most)
<1>1. OwedReceipts(g, most) \subseteq S \cup T
  BY DEF OwedReceipts
<1>2. IsFiniteSet(S) /\ IsFiniteSet(T) /\ Cardinality(T) = most + 1
  BY OwedFinite, SlotCount
<1>3. IsFiniteSet(S \cup T) /\ IsFiniteSet(S \cap T)
  BY <1>2, FS_Union, FS_Intersection
<1>4. Cardinality(S \cup T) = Cardinality(S) + Cardinality(T) - Cardinality(S \cap T)
  BY <1>2, FS_Union
<1>5. Cardinality(S) \in Nat /\ Cardinality(S \cap T) \in Nat /\ Cardinality(S \cup T) \in Nat
  BY <1>2, <1>3, FS_CardinalityType
<1>6. /\ Cardinality(OwedReceipts(g, most)) <= Cardinality(S \cup T)
      /\ Cardinality(OwedReceipts(g, most)) \in Nat
  BY <1>1, <1>3, FS_Subset, FS_CardinalityType
<1> QED BY <1>2, <1>4, <1>5, <1>6

LEMMA OwedWithout ==
  ASSUME NEW m, NEW g, NEW most \in Nat, IsFiniteSet(DOMAIN m), NEW i \in DOMAIN m,
         m[i] \in 0 .. most,
         DOMAIN g = DOMAIN m \ {i}, \A j \in DOMAIN g : g[j] = m[j]
  PROVE  Cardinality(OwedReceipts(g, most))
           = Cardinality(OwedReceipts(m, most)) - (m[i] + 1)
<1> DEFINE S == OwedReceipts(m, most)
           T == {i} \X (0 .. m[i])
<1>1. OwedReceipts(g, most) = S \ T /\ S \cap T = T
  BY DEF OwedReceipts
<1>0. m[i] \in Nat
  OBVIOUS
<1>2. IsFiniteSet(S) /\ Cardinality(T) = m[i] + 1
  BY <1>0, OwedFinite, SlotCount
<1>3. Cardinality(S \ T) = Cardinality(S) - Cardinality(S \cap T)
  BY <1>2, FS_Difference
<1> QED BY <1>1, <1>2, <1>3

LEMMA OwedDecrements ==
  ASSUME NEW m, NEW g, NEW most \in Nat, IsFiniteSet(DOMAIN m), NEW i \in DOMAIN m,
         m[i] \in 0 .. most, m[i] # 0, DOMAIN g = DOMAIN m, g[i] = m[i] - 1,
         \A j \in DOMAIN m \ {i} : g[j] = m[j]
  PROVE  Cardinality(OwedReceipts(g, most))
           = Cardinality(OwedReceipts(m, most)) - 1
<1> DEFINE S == OwedReceipts(m, most)
           x == <<i, m[i]>>
<1>1. x \in S
  BY DEF OwedReceipts
<1>2. OwedReceipts(g, most) = S \ {x}
  <2>1. ASSUME NEW s \in (DOMAIN m) \X (0 .. most)
        PROVE  s[2] <= g[s[1]] <=> s[2] <= m[s[1]] /\ s # x
    <3>1. CASE s[1] = i
      BY <2>1, <3>1
    <3>2. CASE s[1] # i
      BY <2>1, <3>2
    <3> QED BY <3>1, <3>2
  <2> QED BY <2>1 DEF OwedReceipts
<1> QED BY <1>1, <1>2, OwedFinite, FS_RemoveElement

-----------------------------------------------------------------------------
(* Capacity.                                                               *)

RateCap == 2 * (MaxActive + MaxQueued + 1)

\* The four tables and the reserved receipts fit their shares.
Fits(rts, tks, lss, rcs) ==
  /\ Size(rcs) + FutureReceiptReserve(tks, lss) <= ReceiptCapacity
  /\ Size(tks) <= MaxQueued /\ Size(lss) <= MaxActive /\ Size(rts) <= RateCap

WindowsStarted == \A w \in DOMAIN windows : PeriodLength(w[1]) * w[2] <= lastNow

CapacityInv == Fits(rates, tickets, leases, receipts) /\ WindowsStarted

LEMMA Settings ==
  /\ MaxActive \in Nat /\ MaxQueued \in Nat /\ PollAttempts \in Nat
  /\ RenewalTicks \in Nat /\ ReceiptCapacity \in Int /\ MaxKeys \in Nat
  /\ RateCap \in Nat /\ MaxKeys = ReceiptCapacity + 4 + 5 * MaxActive + 3 * MaxQueued
BY ConfigAssumption DEF ReceiptCapacity, StructuralReserve, RateCap

LEMMA TablesFinite ==
  ASSUME TypeOK
  PROVE  /\ IsFiniteSet(DOMAIN rates) /\ IsFiniteSet(DOMAIN tickets)
         /\ IsFiniteSet(DOMAIN leases) /\ IsFiniteSet(DOMAIN receipts)
<1>1. IsFiniteSet(1 .. tokenSequence) /\ IsFiniteSet(OperationId)
  <2>1. tokenSequence \in Int
    BY DEF TypeOK
  <2>2. IsFiniteSet(1 .. tokenSequence)
    BY <2>1, FS_Interval
  <2> QED BY <2>2, ConfigAssumption
<1>2. IsFiniteSet(Ip \cup Session)
  BY ConfigAssumption, FS_Union
<1> QED BY <1>1, <1>2, FS_Subset DEF TypeOK, Functional

LEMMA SubtableSize ==
  ASSUME NEW f, NEW g, IsFiniteSet(DOMAIN f), DOMAIN g \subseteq DOMAIN f
  PROVE  /\ IsFiniteSet(DOMAIN g) /\ Size(g) \in Nat /\ Size(f) \in Nat
         /\ Size(g) <= Size(f)
BY FS_Subset, FS_CardinalityType DEF Size

LEMMA ReserveNat ==
  ASSUME NEW tks, NEW lss, IsFiniteSet(DOMAIN tks), IsFiniteSet(DOMAIN lss)
  PROVE  /\ FutureReceiptReserve(tks, lss) \in Nat
         /\ Cardinality(OwedReceipts(PollsLeft(tks), PollAttempts)) \in Nat
         /\ Cardinality(OwedReceipts(RenewalsLeft(lss), RenewalTicks)) \in Nat
<1>1. DOMAIN PollsLeft(tks) = DOMAIN tks /\ DOMAIN RenewalsLeft(lss) = DOMAIN lss
  BY DEF PollsLeft, RenewalsLeft
<1> QED BY <1>1, OwedFinite, Settings DEF FutureReceiptReserve

\* A prune only makes room.
LEMMA PruneFits ==
  ASSUME TypeOK, NEW now \in Instant
  PROVE  /\ IsFiniteSet(DOMAIN ReceiptsAt(now)) /\ IsFiniteSet(DOMAIN TicketsAt(now))
         /\ IsFiniteSet(DOMAIN LeasesAt(now)) /\ IsFiniteSet(DOMAIN RatesAt(now))
         /\ IsFiniteSet(DOMAIN rates)
         /\ CapacityInv => /\ Fits(rates, TicketsAt(now), LeasesAt(now), ReceiptsAt(now))
                           /\ Fits(RatesAt(now), TicketsAt(now), LeasesAt(now),
                                   ReceiptsAt(now))
<1>1. /\ DOMAIN ReceiptsAt(now) \subseteq DOMAIN receipts
      /\ DOMAIN RatesAt(now) \subseteq DOMAIN rates
      /\ DOMAIN TicketsAt(now) \subseteq DOMAIN tickets
      /\ DOMAIN LeasesAt(now) \subseteq DOMAIN leases
  BY LeasesAtOK DEF ReceiptsAt, RatesAt, Restrict
<1>2. /\ IsFiniteSet(DOMAIN ReceiptsAt(now)) /\ IsFiniteSet(DOMAIN TicketsAt(now))
      /\ IsFiniteSet(DOMAIN LeasesAt(now)) /\ IsFiniteSet(DOMAIN RatesAt(now))
  BY <1>1, TablesFinite, FS_Subset
<1>3. /\ Size(ReceiptsAt(now)) <= Size(receipts) /\ Size(RatesAt(now)) <= Size(rates)
      /\ Size(TicketsAt(now)) <= Size(tickets) /\ Size(LeasesAt(now)) <= Size(leases)
      /\ {Size(ReceiptsAt(now)), Size(receipts), Size(RatesAt(now)), Size(rates),
          Size(TicketsAt(now)), Size(tickets), Size(LeasesAt(now)), Size(leases)}
         \subseteq Nat
  BY <1>1, TablesFinite, SubtableSize
<1>4. Cardinality(OwedReceipts(PollsLeft(TicketsAt(now)), PollAttempts))
        <= Cardinality(OwedReceipts(PollsLeft(tickets), PollAttempts))
  <2>1. /\ DOMAIN PollsLeft(TicketsAt(now)) \subseteq DOMAIN PollsLeft(tickets)
        /\ IsFiniteSet(DOMAIN PollsLeft(tickets))
        /\ \A i \in DOMAIN PollsLeft(TicketsAt(now)) :
             PollsLeft(TicketsAt(now))[i] = PollsLeft(tickets)[i]
    BY LeasesAtOK, TablesFinite DEF PollsLeft
  <2> QED BY <2>1, OwedShrinks, Settings
<1>5. Cardinality(OwedReceipts(RenewalsLeft(LeasesAt(now)), RenewalTicks))
        <= Cardinality(OwedReceipts(RenewalsLeft(leases), RenewalTicks))
  <2>1. /\ DOMAIN RenewalsLeft(LeasesAt(now)) \subseteq DOMAIN RenewalsLeft(leases)
        /\ IsFiniteSet(DOMAIN RenewalsLeft(leases))
        /\ \A i \in DOMAIN RenewalsLeft(LeasesAt(now)) :
             RenewalsLeft(LeasesAt(now))[i] = RenewalsLeft(leases)[i]
    BY LeasesAtOK, TablesFinite DEF RenewalsLeft
  <2> QED BY <2>1, OwedShrinks, Settings
<1>6. /\ FutureReceiptReserve(TicketsAt(now), LeasesAt(now))
           <= FutureReceiptReserve(tickets, leases)
      /\ FutureReceiptReserve(TicketsAt(now), LeasesAt(now)) \in Nat
      /\ FutureReceiptReserve(tickets, leases) \in Nat
  BY <1>2, <1>4, <1>5, TablesFinite, ReserveNat DEF FutureReceiptReserve
<1> QED BY <1>2, <1>3, <1>6, TablesFinite, Settings DEF CapacityInv, Fits

\* The receipts the tickets (the leases) of a table may still need.
PollReserve(tks) == Cardinality(OwedReceipts(PollsLeft(tks), PollAttempts))
RenewReserve(lss) == Cardinality(OwedReceipts(RenewalsLeft(lss), RenewalTicks))

LEMMA ReserveSum ==
  ASSUME NEW tks, NEW lss
  PROVE  FutureReceiptReserve(tks, lss) = PollReserve(tks) + RenewReserve(lss)
BY DEF FutureReceiptReserve, PollReserve, RenewReserve

\* What a prune leaves, as numbers.
LEMMA PruneCounts ==
  ASSUME TypeOK, NEW now \in Instant
  PROVE  /\ Size(ReceiptsAt(now)) \in Nat /\ Size(TicketsAt(now)) \in Nat
         /\ Size(LeasesAt(now)) \in Nat /\ Size(RatesAt(now)) \in Nat
         /\ Size(rates) \in Nat
         /\ PollReserve(TicketsAt(now)) \in Nat /\ RenewReserve(LeasesAt(now)) \in Nat
BY PruneFits, FS_CardinalityType, ReserveNat DEF Size, PollReserve, RenewReserve

LEMMA RecordSize ==
  ASSUME TypeOK, NEW now \in Instant, NEW op, NEW kind, NEW args, NEW outcome,
         Fresh(op, now), Record(op, kind, args, outcome, now)
  PROVE  Size(receipts') = Size(ReceiptsAt(now)) + 1
<1>1. /\ DOMAIN receipts' = DOMAIN ReceiptsAt(now) \cup {op}
      /\ op \notin DOMAIN ReceiptsAt(now)
  BY DEF Record, Put, Fresh
<1> QED BY <1>1, PruneFits, FS_AddElement DEF Size

LEMMA GrantSize ==
  ASSUME TypeOK, NEW now \in Instant, GrantLease(now)
  PROVE  /\ Size(leases') = Size(LeasesAt(now)) + 1
         /\ RenewReserve(leases') <= RenewReserve(LeasesAt(now)) + RenewalTicks + 1
         /\ RenewReserve(leases') \in Nat
<1>1. NextId \notin DOMAIN LeasesAt(now)
  BY LeasesAtOK, TokenBounds DEF Functional, NextId
<1>2. /\ DOMAIN leases' = DOMAIN LeasesAt(now) \cup {NextId}
      /\ \A i \in DOMAIN LeasesAt(now) : leases'[i] = LeasesAt(now)[i]
  BY <1>1 DEF GrantLease, Put
<1>3. IsFiniteSet(DOMAIN LeasesAt(now)) /\ IsFiniteSet(DOMAIN leases')
  BY <1>2, PruneFits, FS_AddElement
<1>4. Size(leases') = Size(LeasesAt(now)) + 1
  BY <1>1, <1>2, <1>3, FS_AddElement DEF Size
<1>5. /\ DOMAIN RenewalsLeft(leases') = DOMAIN RenewalsLeft(LeasesAt(now)) \cup {NextId}
      /\ IsFiniteSet(DOMAIN RenewalsLeft(LeasesAt(now)))
      /\ \A i \in DOMAIN RenewalsLeft(LeasesAt(now)) :
           RenewalsLeft(leases')[i] = RenewalsLeft(LeasesAt(now))[i]
  BY <1>2, <1>3 DEF RenewalsLeft
<1>6. RenewReserve(leases') <= RenewReserve(LeasesAt(now)) + RenewalTicks + 1
  BY <1>5, OwedGrows, Settings DEF RenewReserve
<1> QED BY <1>3, <1>4, <1>6, ReserveNat, FS_EmptySet DEF RenewReserve

LEMMA QueueSize ==
  ASSUME TypeOK, NEW now \in Instant, NEW rec,
         tickets' = Put(TicketsAt(now), NextId, rec)
  PROVE  /\ Size(tickets') = Size(TicketsAt(now)) + 1
         /\ PollReserve(tickets') <= PollReserve(TicketsAt(now)) + PollAttempts + 1
         /\ PollReserve(tickets') \in Nat
<1>1. NextId \notin DOMAIN TicketsAt(now)
  BY LeasesAtOK, TokenBounds DEF Functional, NextId
<1>2. /\ DOMAIN tickets' = DOMAIN TicketsAt(now) \cup {NextId}
      /\ \A i \in DOMAIN TicketsAt(now) : tickets'[i] = TicketsAt(now)[i]
  BY <1>1 DEF Put
<1>3. IsFiniteSet(DOMAIN TicketsAt(now)) /\ IsFiniteSet(DOMAIN tickets')
  BY <1>2, PruneFits, FS_AddElement
<1>4. Size(tickets') = Size(TicketsAt(now)) + 1
  BY <1>1, <1>2, <1>3, FS_AddElement DEF Size
<1>5. /\ DOMAIN PollsLeft(tickets') = DOMAIN PollsLeft(TicketsAt(now)) \cup {NextId}
      /\ IsFiniteSet(DOMAIN PollsLeft(TicketsAt(now)))
      /\ \A i \in DOMAIN PollsLeft(TicketsAt(now)) :
           PollsLeft(tickets')[i] = PollsLeft(TicketsAt(now))[i]
  BY <1>2, <1>3 DEF PollsLeft
<1>6. PollReserve(tickets') <= PollReserve(TicketsAt(now)) + PollAttempts + 1
  BY <1>5, OwedGrows, Settings DEF PollReserve
<1> QED BY <1>3, <1>4, <1>6, ReserveNat, FS_EmptySet DEF PollReserve

LEMMA LeaveSize ==
  ASSUME TypeOK, NEW now \in Instant, NEW i \in LiveTickets(now),
         tickets' = Without(TicketsAt(now), i)
  PROVE  /\ Size(tickets') = Size(TicketsAt(now)) - 1
         /\ PollReserve(tickets') = PollReserve(TicketsAt(now)) - (tickets[i].polls + 1)
<1>1. /\ DOMAIN tickets' = DOMAIN TicketsAt(now) \ {i} /\ i \in DOMAIN TicketsAt(now)
      /\ \A j \in DOMAIN tickets' : tickets'[j] = TicketsAt(now)[j]
      /\ TicketsAt(now)[i] = tickets[i] /\ tickets[i] \in TicketRecord
  BY LeasesAtOK DEF Without, Restrict, Functional
<1>2. IsFiniteSet(DOMAIN TicketsAt(now))
  BY PruneFits
<1>3. Size(tickets') = Size(TicketsAt(now)) - 1
  BY <1>1, <1>2, FS_RemoveElement DEF Size
<1> DEFINE m == PollsLeft(TicketsAt(now))
           g == PollsLeft(tickets')
<1>4. /\ IsFiniteSet(DOMAIN m) /\ i \in DOMAIN m /\ m[i] = tickets[i].polls
      /\ m[i] \in 0 .. PollAttempts
      /\ DOMAIN g = DOMAIN m \ {i} /\ \A j \in DOMAIN g : g[j] = m[j]
  BY <1>1, <1>2 DEF PollsLeft, TicketRecord
<1> HIDE DEF m, g
<1>5. Cardinality(OwedReceipts(g, PollAttempts))
        = Cardinality(OwedReceipts(m, PollAttempts)) - (m[i] + 1)
  BY <1>4, OwedWithout, Settings
<1> QED BY <1>3, <1>4, <1>5 DEF PollReserve, m, g

LEMMA PolledSize ==
  ASSUME TypeOK, NEW now \in Instant, NEW i \in LiveTickets(now), tickets[i].polls # 0,
         tickets' = [TicketsAt(now) EXCEPT ![i].polls = @ - 1]
  PROVE  /\ Size(tickets') = Size(TicketsAt(now))
         /\ PollReserve(tickets') = PollReserve(TicketsAt(now)) - 1
<1>1. /\ DOMAIN tickets' = DOMAIN TicketsAt(now) /\ i \in DOMAIN TicketsAt(now)
      /\ \A j \in DOMAIN tickets' \ {i} : tickets'[j] = TicketsAt(now)[j]
      /\ TicketsAt(now)[i] = tickets[i] /\ tickets[i] \in TicketRecord
      /\ tickets'[i] = [tickets[i] EXCEPT !.polls = @ - 1]
  BY LeasesAtOK DEF Functional
<1>2. tickets'[i].polls = tickets[i].polls - 1
  BY <1>1 DEF TicketRecord
<1> DEFINE m == PollsLeft(TicketsAt(now))
           g == PollsLeft(tickets')
<1>4. /\ IsFiniteSet(DOMAIN m) /\ i \in DOMAIN m /\ m[i] = tickets[i].polls
      /\ m[i] \in 0 .. PollAttempts /\ m[i] # 0 /\ g[i] = m[i] - 1
      /\ DOMAIN g = DOMAIN m /\ \A j \in DOMAIN m \ {i} : g[j] = m[j]
  BY <1>1, <1>2, PruneFits DEF PollsLeft, TicketRecord
<1> HIDE DEF m, g
<1>5. Cardinality(OwedReceipts(g, PollAttempts))
        = Cardinality(OwedReceipts(m, PollAttempts)) - 1
  BY <1>4, OwedDecrements, Settings
<1> QED BY <1>1, <1>5 DEF PollReserve, m, g, Size

LEMMA CloseSize ==
  ASSUME TypeOK, NEW now \in Instant, NEW i \in LiveLeases(now),
         leases' = Without(LeasesAt(now), i)
  PROVE  /\ Size(leases') = Size(LeasesAt(now)) - 1
         /\ RenewReserve(leases') = RenewReserve(LeasesAt(now)) - (leases[i].renewals + 1)
<1>1. /\ DOMAIN leases' = DOMAIN LeasesAt(now) \ {i} /\ i \in DOMAIN LeasesAt(now)
      /\ \A j \in DOMAIN leases' : leases'[j] = LeasesAt(now)[j]
      /\ LeasesAt(now)[i] = leases[i] /\ leases[i] \in LeaseRecord
  BY LeasesAtOK DEF Without, Restrict, Functional
<1>2. IsFiniteSet(DOMAIN LeasesAt(now))
  BY PruneFits
<1>3. Size(leases') = Size(LeasesAt(now)) - 1
  BY <1>1, <1>2, FS_RemoveElement DEF Size
<1> DEFINE m == RenewalsLeft(LeasesAt(now))
           g == RenewalsLeft(leases')
<1>4. /\ IsFiniteSet(DOMAIN m) /\ i \in DOMAIN m /\ m[i] = leases[i].renewals
      /\ m[i] \in 0 .. RenewalTicks
      /\ DOMAIN g = DOMAIN m \ {i} /\ \A j \in DOMAIN g : g[j] = m[j]
  BY <1>1, <1>2 DEF RenewalsLeft, LeaseRecord
<1> HIDE DEF m, g
<1>5. Cardinality(OwedReceipts(g, RenewalTicks))
        = Cardinality(OwedReceipts(m, RenewalTicks)) - (m[i] + 1)
  BY <1>4, OwedWithout, Settings
<1> QED BY <1>3, <1>4, <1>5 DEF RenewReserve, m, g

LEMMA ExtendSize ==
  ASSUME TypeOK, NEW now \in Instant, NEW h, Renewable(h, now),
         leases' = [LeasesAt(now) EXCEPT ![h.id].expires = now + LeaseTTL,
                                         ![h.id].renewals = @ - 1]
  PROVE  /\ Size(leases') = Size(LeasesAt(now))
         /\ RenewReserve(leases') = RenewReserve(LeasesAt(now)) - 1
<1> DEFINE i == h.id
<1>0. i \in LiveLeases(now) /\ leases[i].renewals > 0
  BY DEF Renewable
<1>1. /\ DOMAIN leases' = DOMAIN LeasesAt(now) /\ i \in DOMAIN LeasesAt(now)
      /\ \A j \in DOMAIN leases' \ {i} : leases'[j] = LeasesAt(now)[j]
      /\ LeasesAt(now)[i] = leases[i] /\ leases[i] \in LeaseRecord
  BY <1>0, LeasesAtOK DEF Functional
<1>2. leases'[i].renewals = leases[i].renewals - 1
  BY <1>0, <1>1 DEF LeaseRecord
<1>3. leases[i].renewals \in 0 .. RenewalTicks /\ leases[i].renewals # 0
  BY <1>0, <1>1, Settings DEF LeaseRecord
<1> DEFINE m == RenewalsLeft(LeasesAt(now))
           g == RenewalsLeft(leases')
<1>4. /\ IsFiniteSet(DOMAIN m) /\ i \in DOMAIN m /\ m[i] = leases[i].renewals
      /\ m[i] \in 0 .. RenewalTicks /\ m[i] # 0 /\ g[i] = m[i] - 1
      /\ DOMAIN g = DOMAIN m /\ \A j \in DOMAIN m \ {i} : g[j] = m[j]
  BY <1>1, <1>2, <1>3, PruneFits DEF RenewalsLeft
<1> HIDE DEF m, g, i
<1>5. Cardinality(OwedReceipts(g, RenewalTicks))
        = Cardinality(OwedReceipts(m, RenewalTicks)) - 1
  BY <1>4, OwedDecrements, Settings
<1> QED BY <1>1, <1>5 DEF RenewReserve, m, g, Size

-----------------------------------------------------------------------------
(* Every call leaves the tables within their shares.                       *)

FitsStep == Fits(rates', tickets', leases', receipts')

LEMMA PruneStepFits ==
  ASSUME TypeOK, CapacityInv, NEW now \in Instant, OnlyPrune(now),
         rates' = rates \/ rates' = RatesAt(now)
  PROVE  FitsStep
BY PruneFits DEF OnlyPrune, FitsStep

\* What _ensure_capacity granted is what the call used.
LEMMA GrantedRoomFits ==
  ASSUME TypeOK, NEW now \in Instant, NEW rts, Size(rts) \in Nat,
         NEW dr \in Int, NEW dt \in Int, NEW dl \in Int, NEW dw, NEW df \in Int,
         EnsureCapacity(rts, now, dr, dt, dl, dw, df),
         Size(receipts') = Size(ReceiptsAt(now)) + 1,
         Size(tickets') = Size(TicketsAt(now)) + dt,
         Size(leases') = Size(LeasesAt(now)) + dl,
         Size(rates') \in Int, Size(rates') <= Size(rts) + dr,
         PollReserve(tickets') \in Int, RenewReserve(leases') \in Int,
         PollReserve(tickets') + RenewReserve(leases')
           <= PollReserve(TicketsAt(now)) + RenewReserve(LeasesAt(now)) + df
  PROVE  FitsStep
<1>1. /\ Size(ReceiptsAt(now)) + 1
           + (PollReserve(TicketsAt(now)) + RenewReserve(LeasesAt(now))) + df
           <= ReceiptCapacity
      /\ Size(rts) + dr <= RateCap
      /\ Size(TicketsAt(now)) + dt <= MaxQueued
      /\ Size(LeasesAt(now)) + dl <= MaxActive
  BY ReserveSum DEF EnsureCapacity, RateCap
<1>2. FutureReceiptReserve(tickets', leases') = PollReserve(tickets') + RenewReserve(leases')
  BY ReserveSum
<1> QED BY <1>1, <1>2, PruneCounts, Settings DEF FitsStep, Fits

LEMMA ConsumedSize ==
  ASSUME TypeOK, NEW now \in Instant, NEW ip, NEW session, ConsumeRates(ip, session, now)
  PROVE  /\ Size(rates') = Size(RatesAt(now)) + NewRates(ip, session, now)
         /\ Size(rates') \in Nat /\ NewRates(ip, session, now) \in Nat
<1> DEFINE R == DOMAIN RatesAt(now)
           N == {ip, session} \ R
<1>1. DOMAIN rates' = R \cup N
  BY DEF ConsumeRates, Put
<1>2. IsFiniteSet(R)
  BY PruneFits
<1>3. IsFiniteSet({ip}) /\ IsFiniteSet({ip} \cup {session})
  BY FS_Singleton, FS_AddElement
<1>4. {ip, session} = {ip} \cup {session}
  OBVIOUS
<1>5. IsFiniteSet(N)
  BY <1>3, <1>4, FS_Difference
<1>6. Cardinality(R \cap N) = 0
  <2>1. R \cap N = {}
    OBVIOUS
  <2> QED BY <2>1, FS_EmptySet
<1>7. /\ IsFiniteSet(R \cup N)
      /\ Cardinality(R \cup N) = Cardinality(R) + Cardinality(N) - Cardinality(R \cap N)
  BY <1>2, <1>5, FS_Union
<1>8. Cardinality(R) \in Nat /\ Cardinality(N) \in Nat /\ Cardinality(R \cup N) \in Nat
  BY <1>2, <1>5, <1>7, FS_CardinalityType
<1>9. Cardinality(R \cup N) = Cardinality(R) + Cardinality(N)
  <2> HIDE DEF R, N
  <2> QED BY <1>6, <1>7, <1>8
<1>10. /\ Size(rates') = Cardinality(R \cup N) /\ Size(RatesAt(now)) = Cardinality(R)
       /\ NewRates(ip, session, now) = Cardinality(N)
  BY <1>1 DEF Size, NewRates
<1> HIDE DEF R, N
<1> QED BY <1>8, <1>9, <1>10

LEMMA AdmitFitsStep ==
  ASSUME TypeOK, CapacityInv, NEW now \in Instant, NEW op \in OperationId, NEW ip \in Ip,
         NEW session \in Session, AdmitOrEnqueue(op, ip, session, now)
  PROVE  FitsStep
<1> DEFINE args == <<ip, session>>
<1>0. \/ AdmitReplayed(op, now) \/ AdmitThrottled(op, args, now)
      \/ AdmitRefused(op, args, now) \/ AdmitDenied(op, args, now)
      \/ AdmitGranted(op, args, now) \/ AdmitQueued(op, args, now)
  BY DEF AdmitOrEnqueue
<1>1. args[1] = ip /\ args[2] = session
  OBVIOUS
<1> HIDE DEF args
<1>2. CASE AdmitReplayed(op, now) \/ AdmitRefused(op, args, now)
  BY <1>2, PruneStepFits DEF AdmitReplayed, AdmitRefused
<1>3. CASE AdmitThrottled(op, args, now)
  <2>1. /\ EnsureCapacity(RatesAt(now), now, 0, 0, 0, 0, 0)
        /\ Size(receipts') = Size(ReceiptsAt(now)) + 1
        /\ rates' = RatesAt(now) /\ tickets' = TicketsAt(now) /\ leases' = LeasesAt(now)
    BY <1>3, RecordSize DEF AdmitThrottled
  <2> QED BY <2>1, PruneCounts, GrantedRoomFits
<1>4. ASSUME NEW branch, Unthrottled(op, args, now, branch)
      PROVE  /\ Fresh(op, now) /\ AdmitBranch(now) \in branch
             /\ AdmitRoom(ip, session, now) /\ ConsumeRates(ip, session, now)
  BY <1>1, <1>4 DEF Unthrottled
<1> DEFINE room(dt, dl, dw, df) ==
      EnsureCapacity(RatesAt(now), now, NewRates(ip, session, now), dt, dl, dw, df)
<1>5. CASE AdmitDenied(op, args, now)
  <2>1. /\ Fresh(op, now) /\ AdmitBranch(now) \in {"budget", "busy"}
        /\ AdmitRoom(ip, session, now) /\ ConsumeRates(ip, session, now)
    BY <1>4, <1>5 DEF AdmitDenied
  <2>2. room(0, 0, 0, 0)
    BY <2>1 DEF AdmitRoom, AdmitFits
  <2>3. /\ Size(receipts') = Size(ReceiptsAt(now)) + 1
        /\ tickets' = TicketsAt(now) /\ leases' = LeasesAt(now)
    BY <1>5, <2>1, RecordSize DEF AdmitDenied
  <2> QED BY <2>1, <2>2, <2>3, PruneCounts, ConsumedSize, GrantedRoomFits
<1>6. CASE AdmitGranted(op, args, now)
  <2>1. /\ Fresh(op, now) /\ AdmitBranch(now) = "admit"
        /\ AdmitRoom(ip, session, now) /\ ConsumeRates(ip, session, now)
    BY <1>4, <1>6 DEF AdmitGranted
  <2>2. room(0, 1, Cardinality(NewWindows(now)), RenewalTicks + 1)
    BY <2>1 DEF AdmitRoom, AdmitFits
  <2>3. /\ Size(receipts') = Size(ReceiptsAt(now)) + 1
        /\ tickets' = TicketsAt(now) /\ GrantLease(now)
    BY <1>6, <2>1, RecordSize DEF AdmitGranted
  <2>4. RenewalTicks + 1 \in Int
    BY Settings
  <2> QED BY <2>1, <2>2, <2>3, <2>4, PruneCounts, ConsumedSize, GrantSize,
             GrantedRoomFits, Settings
<1>7. CASE AdmitQueued(op, args, now)
  <2>1. /\ Fresh(op, now) /\ AdmitBranch(now) = "queue"
        /\ AdmitRoom(ip, session, now) /\ ConsumeRates(ip, session, now)
    BY <1>4, <1>7 DEF AdmitQueued
  <2>2. room(1, 0, 0, PollAttempts + 1)
    BY <2>1 DEF AdmitRoom, AdmitFits
  <2>3. /\ Size(receipts') = Size(ReceiptsAt(now)) + 1
        /\ leases' = LeasesAt(now)
        /\ \E rec : tickets' = Put(TicketsAt(now), NextId, rec)
    BY <1>7, <2>1, RecordSize DEF AdmitQueued
  <2>4. PollAttempts + 1 \in Int
    BY Settings
  <2> QED BY <2>1, <2>2, <2>3, <2>4, PruneCounts, ConsumedSize, QueueSize,
             GrantedRoomFits, Settings
<1> QED BY <1>0, <1>2, <1>3, <1>5, <1>6, <1>7

LEMMA HandleNumbers ==
  ASSUME TypeOK, NEW now \in Instant
  PROVE  /\ \A i \in LiveTickets(now) : tickets[i].polls \in Nat
         /\ \A i \in LiveLeases(now) : leases[i].renewals \in Nat
BY LeasesAtOK, Settings DEF Functional, TicketRecord, LeaseRecord

LEMMA PollFitsStep ==
  ASSUME TypeOK, CapacityInv, NEW now \in Instant, NEW op \in OperationId,
         NEW h, WaitForAdmission(op, h, now)
  PROVE  FitsStep
<1>0. \/ Replayed(op, now) \/ PollRefused(op, h, now) \/ PollGone(op, h, now)
      \/ PollPending(op, h, now) \/ PollDenied(op, h, now)
      \/ PollAdmitted(op, h, now)
  BY DEF WaitForAdmission
<1>1. ASSUME NEW branch, NEW outcome, PollAnswered(op, h, now, branch, outcome)
      PROVE  /\ rates' = rates /\ Size(receipts') = Size(ReceiptsAt(now)) + 1
             /\ PollBranch(h, now) = branch /\ PollRoom(h, now)
  BY <1>1, RecordSize DEF PollAnswered
<1>2. CASE Replayed(op, now) \/ PollRefused(op, h, now)
  BY <1>2, PruneStepFits DEF PollRefused, Replayed, Refused
<1>3. CASE PollGone(op, h, now)
  <2>1. /\ rates' = rates /\ Size(receipts') = Size(ReceiptsAt(now)) + 1
        /\ PollBranch(h, now) = "gone" /\ PollRoom(h, now)
        /\ tickets' = TicketsAt(now) /\ leases' = LeasesAt(now)
    BY <1>1, <1>3 DEF PollGone
  <2>2. EnsureCapacity(rates, now, 0, 0, 0, 0, 0)
    BY <2>1 DEF PollRoom, Room
  <2> QED BY <2>1, <2>2, PruneCounts, GrantedRoomFits
<1>4. CASE PollPending(op, h, now)
  <2>1. /\ rates' = rates /\ Size(receipts') = Size(ReceiptsAt(now)) + 1
        /\ PollBranch(h, now) = "pending" /\ PollRoom(h, now)
        /\ tickets' = [TicketsAt(now) EXCEPT ![h.id].polls = @ - 1]
        /\ leases' = LeasesAt(now)
    BY <1>1, <1>4 DEF PollPending
  <2>2. h.id \in LiveTickets(now) /\ tickets[h.id].polls # 0
    BY <2>1 DEF PollBranch
  <2>3. EnsureCapacity(rates, now, 0, 0, 0, 0, -1)
    BY <2>1 DEF PollRoom, Room
  <2>4. /\ Size(tickets') = Size(TicketsAt(now))
        /\ PollReserve(tickets') = PollReserve(TicketsAt(now)) - 1
    BY <2>1, <2>2, PolledSize
  <2>5. /\ -1 \in Int /\ PollReserve(tickets') \in Int /\ RenewReserve(leases') \in Int
        /\ PollReserve(tickets') + RenewReserve(leases')
             <= PollReserve(TicketsAt(now)) + RenewReserve(LeasesAt(now)) + (-1)
    BY <2>1, <2>4, PruneCounts
  <2>6. /\ Size(tickets') = Size(TicketsAt(now)) + 0
        /\ Size(leases') = Size(LeasesAt(now)) + 0
        /\ Size(rates') <= Size(rates) + 0 /\ Size(rates) \in Nat
        /\ Size(rates') \in Int /\ 0 \in Int
    BY <2>1, <2>4, PruneCounts
  <2> DEFINE net == -1
  <2> HIDE DEF net
  <2>7. /\ net \in Int /\ EnsureCapacity(rates, now, 0, 0, 0, 0, net)
        /\ PollReserve(tickets') + RenewReserve(leases')
             <= PollReserve(TicketsAt(now)) + RenewReserve(LeasesAt(now)) + net
    BY <2>3, <2>5 DEF net
  <2> QED BY <2>1, <2>5, <2>6, <2>7, GrantedRoomFits
<1>5. ASSUME NEW dl \in Int, NEW dw, NEW df \in Int, NEW net \in Int,
             net = df - Owed(h), h.id \in LiveTickets(now),
             rates' = rates, Size(receipts') = Size(ReceiptsAt(now)) + 1,
             tickets' = Without(TicketsAt(now), h.id),
             Size(leases') = Size(LeasesAt(now)) + dl,
             RenewReserve(leases') \in Nat,
             RenewReserve(leases') <= RenewReserve(LeasesAt(now)) + df,
             EnsureCapacity(rates, now, 0, -1, dl, dw, net)
      PROVE  FitsStep
  <2>1. /\ Size(tickets') = Size(TicketsAt(now)) + (-1)
        /\ PollReserve(tickets') = PollReserve(TicketsAt(now)) - Owed(h)
    BY <1>5, LeaveSize, PruneCounts DEF Owed
  <2>2. Owed(h) \in Nat
    BY <1>5, HandleNumbers DEF Owed
  <2>3. -1 \in Int /\ PollReserve(tickets') \in Int
    BY <1>5, <2>1, <2>2, PruneCounts
  <2>4. PollReserve(tickets') + RenewReserve(leases')
          <= PollReserve(TicketsAt(now)) + RenewReserve(LeasesAt(now)) + net
    BY <1>5, <2>1, <2>2, PruneCounts
  <2> QED BY <1>5, <2>1, <2>3, <2>4, PruneCounts, GrantedRoomFits
<1>6. CASE PollDenied(op, h, now)
  <2>1. /\ rates' = rates /\ Size(receipts') = Size(ReceiptsAt(now)) + 1
        /\ PollBranch(h, now) = "budget" /\ PollRoom(h, now)
        /\ tickets' = Without(TicketsAt(now), h.id) /\ leases' = LeasesAt(now)
    BY <1>1, <1>6 DEF PollDenied
  <2>2. h.id \in LiveTickets(now)
    BY <2>1 DEF PollBranch
  <2>3. EnsureCapacity(rates, now, 0, -1, 0, 0, -Owed(h)) /\ Owed(h) \in Nat
    BY <2>1, <2>2, HandleNumbers DEF PollRoom, Room, Owed
  <2>4. -Owed(h) = 0 - Owed(h) /\ -Owed(h) \in Int
    BY <2>3
  <2> QED BY <1>5, <2>1, <2>2, <2>3, <2>4, PruneCounts
<1>7. CASE PollAdmitted(op, h, now)
  <2>1. /\ rates' = rates /\ Size(receipts') = Size(ReceiptsAt(now)) + 1
        /\ PollBranch(h, now) = "admit" /\ PollRoom(h, now)
        /\ tickets' = Without(TicketsAt(now), h.id) /\ GrantLease(now)
    BY <1>1, <1>7 DEF PollAdmitted
  <2>2. h.id \in LiveTickets(now)
    BY <2>1 DEF PollBranch
  <2>3. EnsureCapacity(rates, now, 0, -1, 1, Cardinality(NewWindows(now)),
                       RenewalTicks + 1 - Owed(h))
    BY <2>1 DEF PollRoom, Room
  <2>4. RenewalTicks + 1 \in Int /\ RenewalTicks + 1 - Owed(h) \in Int
    BY <2>2, HandleNumbers, Settings DEF Owed
  <2>5. /\ Size(leases') = Size(LeasesAt(now)) + 1 /\ RenewReserve(leases') \in Nat
        /\ RenewReserve(leases') <= RenewReserve(LeasesAt(now)) + (RenewalTicks + 1)
    BY <2>1, GrantSize, PruneCounts, Settings
  <2> DEFINE df == RenewalTicks + 1
             net == RenewalTicks + 1 - Owed(h)
             dw == Cardinality(NewWindows(now))
  <2>6. /\ df \in Int /\ net \in Int /\ net = df - Owed(h)
        /\ EnsureCapacity(rates, now, 0, -1, 1, dw, net)
        /\ RenewReserve(leases') <= RenewReserve(LeasesAt(now)) + df
    <3>1. df \in Int /\ net \in Int
      BY <2>4
    <3>2. net = df - Owed(h)
      BY <2>2, HandleNumbers, Settings DEF Owed
    <3>3. EnsureCapacity(rates, now, 0, -1, 1, dw, net)
      BY <2>3
    <3>4. RenewReserve(leases') <= RenewReserve(LeasesAt(now)) + df
      BY <2>5
    <3> QED BY <3>1, <3>2, <3>3, <3>4
  <2> HIDE DEF df, net, dw
  <2>7. 1 \in Int
    OBVIOUS
  <2> QED BY <1>5, <2>1, <2>2, <2>5, <2>6, <2>7
<1> QED BY <1>0, <1>2, <1>3, <1>4, <1>6, <1>7

LEMMA RenewFitsStep ==
  ASSUME TypeOK, CapacityInv, NEW now \in Instant, NEW op \in OperationId,
         NEW h, Renew(op, h, now)
  PROVE  FitsStep
<1>0. \/ Replayed(op, now) \/ RenewRefused(op, h, now)
      \/ RenewLost(op, h, now) \/ RenewGranted(op, h, now)
  BY DEF Renew
<1>1. ASSUME NEW outcome, RenewAnswered(op, h, outcome, now)
      PROVE  /\ rates' = rates /\ Size(receipts') = Size(ReceiptsAt(now)) + 1
             /\ RenewRoom(h, now) /\ tickets' = TicketsAt(now)
  BY <1>1, RecordSize DEF RenewAnswered
<1>2. CASE Replayed(op, now) \/ RenewRefused(op, h, now)
  BY <1>2, PruneStepFits DEF RenewRefused, Replayed, Refused
<1>3. CASE RenewLost(op, h, now)
  <2>1. /\ rates' = rates /\ Size(receipts') = Size(ReceiptsAt(now)) + 1
        /\ RenewRoom(h, now) /\ tickets' = TicketsAt(now) /\ leases' = LeasesAt(now)
    BY <1>1, <1>3 DEF RenewLost
  <2>2. ~(h.id \in LiveLeases(now) /\ h.fenced)
    BY <1>3, <2>1 DEF RenewLost, Renewable, RenewRoom
  <2>3. EnsureCapacity(rates, now, 0, 0, 0, 0, 0)
    BY <2>1, <2>2 DEF RenewRoom, Room
  <2> QED BY <2>1, <2>3, PruneCounts, GrantedRoomFits
<1>4. CASE RenewGranted(op, h, now)
  <2>1. /\ rates' = rates /\ Size(receipts') = Size(ReceiptsAt(now)) + 1
        /\ RenewRoom(h, now) /\ tickets' = TicketsAt(now) /\ Renewable(h, now)
    BY <1>1, <1>4 DEF RenewGranted
  <2>2. EnsureCapacity(rates, now, 0, 0, 0, 0, -1)
    BY <2>1 DEF RenewRoom, Room, Renewable
  <2>3. /\ Size(leases') = Size(LeasesAt(now))
        /\ RenewReserve(leases') = RenewReserve(LeasesAt(now)) - 1
    BY <1>4, <2>1, ExtendSize DEF RenewGranted
  <2> QED BY <2>1, <2>2, <2>3, PruneCounts, GrantedRoomFits
<1> QED BY <1>0, <1>2, <1>3, <1>4

LEMMA FinalizeFitsStep ==
  ASSUME TypeOK, CapacityInv, NEW now \in Instant, NEW op \in OperationId, NEW h,
         NEW charge, NEW uncertain, Finalize(op, h, charge, uncertain, now)
  PROVE  FitsStep
<1>0. \/ Replayed(op, now) \/ FinalizeRefused(op, h, now)
      \/ FinalizeSettled(op, h, charge, uncertain, now)
  BY DEF Finalize
<1>1. CASE Replayed(op, now) \/ FinalizeRefused(op, h, now)
  BY <1>1, PruneStepFits DEF FinalizeRefused, Replayed, Refused
<1>2. CASE FinalizeSettled(op, h, charge, uncertain, now)
  <2> DEFINE owed == leases[h.id].renewals + 1
  <2>1. /\ rates' = rates /\ Size(receipts') = Size(ReceiptsAt(now)) + 1
        /\ tickets' = TicketsAt(now) /\ leases' = Without(LeasesAt(now), h.id)
        /\ h.id \in LiveLeases(now) /\ EnsureCapacity(rates, now, 0, 0, 0, 0, -owed)
    BY <1>2, RecordSize DEF FinalizeSettled, FinalizeRoom, Room
  <2>2. owed \in Nat /\ -owed \in Int
    BY <2>1, HandleNumbers
  <2>3. /\ Size(leases') = Size(LeasesAt(now)) - 1
        /\ RenewReserve(leases') = RenewReserve(LeasesAt(now)) - owed
    BY <2>1, CloseSize
  <2> HIDE DEF owed
  <2>4. /\ Size(ReceiptsAt(now)) + 1
             + (PollReserve(TicketsAt(now)) + RenewReserve(LeasesAt(now))) + (-owed)
             <= ReceiptCapacity
        /\ Size(rates) + 0 <= RateCap
        /\ Size(TicketsAt(now)) + 0 <= MaxQueued /\ Size(LeasesAt(now)) + 0 <= MaxActive
    BY <2>1, ReserveSum DEF EnsureCapacity, RateCap
  <2>5. FutureReceiptReserve(tickets', leases') =
          PollReserve(TicketsAt(now)) + (RenewReserve(LeasesAt(now)) - owed)
    BY <2>1, <2>3, ReserveSum
  <2> QED BY <2>1, <2>2, <2>3, <2>4, <2>5, PruneCounts, Settings DEF FitsStep, Fits
<1> QED BY <1>0, <1>1, <1>2

LEMMA CancelFitsStep ==
  ASSUME TypeOK, CapacityInv, NEW now \in Instant, NEW op \in OperationId,
         NEW h, CancelTicket(op, h, now)
  PROVE  FitsStep
<1>0. Replayed(op, now) \/ CancelRefused(op, h, now) \/ CancelDone(op, h, now)
  BY DEF CancelTicket
<1>1. CASE Replayed(op, now) \/ CancelRefused(op, h, now)
  BY <1>1, PruneStepFits DEF CancelRefused, Replayed, Refused
<1>2. CASE CancelDone(op, h, now)
  <2>1. /\ rates' = rates /\ Size(receipts') = Size(ReceiptsAt(now)) + 1
        /\ CancelRoom(h, now) /\ tickets' = Without(TicketsAt(now), h.id)
        /\ leases' = LeasesAt(now)
    BY <1>2, RecordSize DEF CancelDone
  <2>2. CASE h.id \notin LiveTickets(now)
    <3>1. tickets' = TicketsAt(now)
      BY <2>1, <2>2, LeasesAtOK DEF Without, Restrict, TicketsAt
    <3>2. EnsureCapacity(rates, now, 0, 0, 0, 0, 0)
      BY <2>1, <2>2 DEF CancelRoom, Room
    <3> QED BY <2>1, <3>1, <3>2, PruneCounts, GrantedRoomFits
  <2>3. CASE h.id \in LiveTickets(now)
    <3>1. EnsureCapacity(rates, now, 0, 0, 0, 0, -Owed(h))
      BY <2>1, <2>3 DEF CancelRoom, Room
    <3>2. /\ Size(tickets') = Size(TicketsAt(now)) - 1
          /\ PollReserve(tickets') = PollReserve(TicketsAt(now)) - Owed(h)
      BY <2>1, <2>3, LeaveSize DEF Owed
    <3>3. Owed(h) \in Nat
      BY <2>3, HandleNumbers DEF Owed
    <3>4. /\ Size(ReceiptsAt(now)) + 1
               + (PollReserve(TicketsAt(now)) + RenewReserve(LeasesAt(now))) + (-Owed(h))
               <= ReceiptCapacity
          /\ Size(rates) + 0 <= RateCap
          /\ Size(TicketsAt(now)) + 0 <= MaxQueued /\ Size(LeasesAt(now)) + 0 <= MaxActive
      BY <3>1, ReserveSum DEF EnsureCapacity, RateCap
    <3>5. FutureReceiptReserve(tickets', leases') =
            (PollReserve(TicketsAt(now)) - Owed(h)) + RenewReserve(LeasesAt(now))
      BY <2>1, <3>2, ReserveSum
    <3> QED BY <2>1, <3>2, <3>3, <3>4, <3>5, PruneCounts, Settings DEF FitsStep, Fits
  <2> QED BY <2>2, <2>3
<1> QED BY <1>0, <1>1, <1>2

LEMMA FitsNext ==
  ASSUME TypeOK, CapacityInv, Next
  PROVE  FitsStep
<1>1. PICK now \in Instant :
        \/ \E op \in OperationId :
             \/ CallByClient(op, now)
             \/ \E h \in IssuedHandle : CallByHolder(op, h, now)
        \/ CheckBudgetReadiness(now)
  BY DEF Next
<1>2. CASE \E op \in OperationId : CallByClient(op, now)
  BY <1>2, AdmitFitsStep DEF CallByClient
<1>3. CASE \E op \in OperationId, h \in IssuedHandle : CallByHolder(op, h, now)
  BY <1>3, PollFitsStep, RenewFitsStep, FinalizeFitsStep, CancelFitsStep DEF CallByHolder
<1>4. CASE CheckBudgetReadiness(now)
  BY <1>4, PruneStepFits DEF CheckBudgetReadiness
<1> QED BY <1>1, <1>2, <1>3, <1>4
-----------------------------------------------------------------------------
(* The capacity invariant is inductive.                                    *)

LEMMA CapacityInvInit == Init => CapacityInv
<1> SUFFICES ASSUME Init PROVE CapacityInv
  OBVIOUS
<1>1. /\ DOMAIN rates = {} /\ DOMAIN tickets = {} /\ DOMAIN leases = {}
      /\ DOMAIN windows = {} /\ DOMAIN receipts = {}
  BY DEF Init
<1>2. FutureReceiptReserve(tickets, leases) = 0
  <2>1. /\ OwedReceipts(PollsLeft(tickets), PollAttempts) = {}
        /\ OwedReceipts(RenewalsLeft(leases), RenewalTicks) = {}
    BY <1>1 DEF OwedReceipts, PollsLeft, RenewalsLeft
  <2> QED BY <2>1, FS_EmptySet DEF FutureReceiptReserve
<1>3. /\ Size(rates) = 0 /\ Size(tickets) = 0 /\ Size(leases) = 0 /\ Size(receipts) = 0
  BY <1>1, FS_EmptySet DEF Size
<1>4. ReceiptCapacity >= 0
  <2>1. MinimumReceipts \in Nat
    <3>1. /\ MaxActive * (RenewalTicks + 2) \in Nat
          /\ MaxQueued * (PollAttempts + 2) \in Nat
      BY Settings
    <3> QED BY <3>1 DEF MinimumReceipts
  <2>2. StructuralReserve \in Nat
    BY Settings DEF StructuralReserve
  <2> QED BY <2>1, <2>2, ConfigAssumption DEF ReceiptCapacity
<1> QED BY <1>1, <1>2, <1>3, <1>4, Settings DEF CapacityInv, Fits, WindowsStarted

\* A window is created only by a lease granted in it.
LEMMA WindowsStartedStep ==
  ASSUME TypeOK, WindowsStarted, NEW now \in Instant, Effect(now)
  PROVE  WindowsStarted'
<1>1. lastNow' = now /\ now >= lastNow /\ LeaseEffect(now)
  BY DEF Effect
<1>2. DOMAIN windows' \subseteq DOMAIN windows \cup WindowsOf(now)
  <2>1. DOMAIN WindowsAt(now) \subseteq DOMAIN windows
    BY DEF WindowsAt
  <2>2. CASE Survive(now)
    BY <2>1, <2>2 DEF Survive
  <2>3. CASE GrantLease(now)
    BY <2>1, <2>3 DEF GrantLease, Reserved
  <2>4. CASE \E h \in IssuedHandle : Extend(h, now)
    BY <2>1, <2>4 DEF Extend
  <2>5. CASE \E h \in IssuedHandle, charge \in Charges, uncertain \in BOOLEAN :
               Close(h, charge, uncertain, now)
    BY <2>1, <2>5 DEF Close
  <2> QED BY <1>1, <2>2, <2>3, <2>4, <2>5 DEF LeaseEffect
<1>3. ASSUME NEW w \in DOMAIN windows
      PROVE  PeriodLength(w[1]) * w[2] <= now
  <2>1. w[1] \in Period /\ w[2] \in Nat
    BY DEF TypeOK, Functional
  <2>2. PeriodLength(w[1]) * w[2] \in Nat
    BY <2>1, PeriodLengthPositive
  <2>3. PeriodLength(w[1]) * w[2] <= lastNow
    BY DEF WindowsStarted
  <2>4. lastNow \in Nat /\ now \in Nat
    BY ConfigAssumption DEF TypeOK, Instant
  <2> QED BY <1>1, <2>2, <2>3, <2>4
<1>4. \A w \in WindowsOf(now) : PeriodLength(w[1]) * w[2] <= now
  BY WindowShape
<1> QED BY <1>1, <1>2, <1>3, <1>4 DEF WindowsStarted

LEMMA CapacityInvNext ==
  ASSUME TypeOK, CapacityInv, [Next]_vars
  PROVE  CapacityInv'
<1>1. CASE Next
  <2>1. PICK now \in Instant : Effect(now)
    BY <1>1, NextEffect
  <2>2. WindowsStarted'
    BY <2>1, WindowsStartedStep DEF CapacityInv
  <2>3. FitsStep
    BY <1>1, FitsNext
  <2> QED BY <2>2, <2>3 DEF FitsStep, CapacityInv
<1>2. CASE UNCHANGED vars
  BY <1>2 DEF vars, CapacityInv, WindowsStarted
<1> QED BY <1>1, <1>2

\* A prune leaves the two current windows and those of the live leases.
LEMMA WindowsFew ==
  ASSUME TypeOK, WindowsStarted, NEW now \in Instant, now >= lastNow
  PROVE  /\ Size(WindowsAt(now)) \in Nat
         /\ Size(WindowsAt(now)) <= 2 * (Size(LeasesAt(now)) + 1)
<1> DEFINE K == LiveLeases(now) \cup {0}
           F == [x \in K \X Period |->
                   IF x[1] = 0 THEN <<x[2], now \div PeriodLength(x[2])>>
                   ELSE CHOOSE w \in leases[x[1]].windows : w[1] = x[2]]
           T == {F[x] : x \in K \X Period}
<1>1. 0 \notin LiveLeases(now)
  BY DEF TypeOK, Functional, LiveLeases
<1>2. DOMAIN WindowsAt(now) \subseteq T
  <2> SUFFICES ASSUME NEW w \in DOMAIN WindowsAt(now)
               PROVE  \E x \in K \X Period : F[x] = w
    OBVIOUS
  <2>1. w \in DOMAIN windows /\ WindowKept(w, now)
    BY DEF WindowsAt
  <2>2. w[1] \in Period /\ w[2] \in Nat /\ w = <<w[1], w[2]>>
    BY <2>1 DEF TypeOK, Functional
  <2>3. CASE WindowEnd(w) > now
    <3> DEFINE l == PeriodLength(w[1])
               q == w[2]
    <3>1. l \in Nat \ {0} /\ q \in Nat /\ now \in Nat /\ lastNow \in Nat
      BY <2>2, PeriodLengthPositive, ConfigAssumption DEF TypeOK, Instant
    <3>2. l * q <= lastNow /\ (q + 1) * l > now
      BY <2>1, <2>3 DEF WindowsStarted, WindowEnd
    <3> HIDE DEF l, q
    <3>3. l * q \in Nat /\ (q + 1) * l = l * (q + 1)
      BY <3>1
    <3>4. l * q <= now /\ now < l * (q + 1)
      BY <3>1, <3>2, <3>3
    <3>5. now \div l = q
      BY <3>1, <3>4, DivUnique
    <3>6. <<0, w[1]>> \in K \X Period /\ F[<<0, w[1]>>] = <<w[1], now \div PeriodLength(w[1])>>
      BY <2>2
    <3> QED BY <2>2, <3>5, <3>6 DEF l, q
  <2>4. CASE \E i \in LiveLeases(now) : w \in leases[i].windows
    <3>1. PICK i \in LiveLeases(now) : w \in leases[i].windows
      BY <2>4
    <3>2. i \in DOMAIN leases /\ leases[i] \in LeaseRecord
      BY DEF LiveLeases, TypeOK, Functional
    <3>3. PICK t \in Instant : leases[i].windows = WindowsOf(t)
      BY <3>2 DEF LeaseRecord
    <3>4. \A v \in leases[i].windows : v[1] = w[1] => v = w
      BY <3>1, <3>3, WindowShape
    <3>5. (CHOOSE v \in leases[i].windows : v[1] = w[1]) = w
      BY <3>1, <3>4
    <3>6. <<i, w[1]>> \in K \X Period /\ i # 0
      BY <1>1, <2>2
    <3> QED BY <3>5, <3>6
  <2> QED BY <2>1, <2>3, <2>4 DEF WindowKept
<1>3. IsFiniteSet(LiveLeases(now)) /\ Cardinality(LiveLeases(now)) \in Nat
  BY LeasesFinite, FS_CardinalityType
<1>4. IsFiniteSet(K) /\ Cardinality(K) = Cardinality(LiveLeases(now)) + 1
  BY <1>1, <1>3, FS_AddElement
<1>5. IsFiniteSet(Period) /\ Cardinality(Period) = 2
  <2>1. IsFiniteSet({"hour"}) /\ Cardinality({"hour"}) = 1
    BY FS_Singleton
  <2>2. Period = {"hour"} \cup {"day"} /\ "day" \notin {"hour"}
    BY DEF Period
  <2> QED BY <2>1, <2>2, FS_AddElement
<1>6. /\ IsFiniteSet(K \X Period)
      /\ Cardinality(K \X Period) = Cardinality(K) * Cardinality(Period)
  BY <1>4, <1>5, FS_Product, Zenon
<1>7. F \in Surjection(K \X Period, T)
  BY DEF Surjection
<1> HIDE DEF F, T, K
<1>8. IsFiniteSet(T) /\ Cardinality(T) <= Cardinality(K \X Period)
  BY <1>6, <1>7, FS_Surjection
<1>9. /\ IsFiniteSet(DOMAIN WindowsAt(now))
      /\ Cardinality(DOMAIN WindowsAt(now)) <= Cardinality(T)
  BY <1>2, <1>8, FS_Subset
<1>10. Cardinality(DOMAIN WindowsAt(now)) \in Nat /\ Cardinality(T) \in Nat
  BY <1>8, <1>9, FS_CardinalityType
<1>11. DOMAIN LeasesAt(now) = LiveLeases(now)
  BY LeasesAtOK
<1> DEFINE n == Cardinality(LiveLeases(now))
<1>12. Cardinality(K \X Period) = 2 * (n + 1)
  <2>1. n \in Nat /\ Cardinality(K \X Period) = (n + 1) * 2
    BY <1>3, <1>4, <1>5, <1>6
  <2> QED BY <2>1
<1> QED BY <1>3, <1>8, <1>9, <1>10, <1>11, <1>12 DEF Size

\* The reserve holds one receipt for every call a live record may still need,
\* the closing one included; k of them are what the call at hand gives back.
LEMMA LifecycleRoom ==
  ASSUME TypeOK, CapacityInv, NEW now \in Instant, now >= lastNow,
         NEW k \in Nat \ {0}, NEW j \in Int, j = -k,
         FutureReceiptReserve(TicketsAt(now), LeasesAt(now)) >= 1
  PROVE  Room(now, 0, 0, 0, j)
<1>1. Fits(rates, TicketsAt(now), LeasesAt(now), ReceiptsAt(now))
  BY PruneFits
<1>2. /\ Size(WindowsAt(now)) \in Nat
      /\ Size(WindowsAt(now)) <= 2 * (Size(LeasesAt(now)) + 1)
  BY WindowsFew DEF CapacityInv
<1>3. FutureReceiptReserve(TicketsAt(now), LeasesAt(now)) \in Nat
  BY PruneFits, ReserveNat
<1>4. /\ Size(ReceiptsAt(now)) \in Nat /\ Size(TicketsAt(now)) \in Nat
      /\ Size(LeasesAt(now)) \in Nat /\ Size(rates) \in Nat
  BY PruneCounts
<1>5. Size(WindowsAt(now)) <= 2 * (MaxActive + 1)
  BY <1>1, <1>2, <1>4, Settings DEF Fits
<1>6. Size(ReceiptsAt(now)) + 1
        + FutureReceiptReserve(TicketsAt(now), LeasesAt(now)) + j <= ReceiptCapacity
  BY <1>1, <1>3, <1>4, Settings DEF Fits
<1>7. Count(rates, now) + 0 + 0 + 0 + 0 + 1 <= MaxKeys
  BY <1>1, <1>2, <1>3, <1>4, <1>5, Settings DEF Fits, Count, RateCap
<1> QED BY <1>1, <1>2, <1>4, <1>5, <1>6, <1>7, Settings
     DEF Room, EnsureCapacity, Fits, RateCap

LEMMA LifecycleHasRoom ==
  ASSUME TypeOK, CapacityInv
  PROVE  LifecycleNeverRefused
<1> SUFFICES ASSUME NEW now \in lastNow .. Horizon
             PROVE  /\ \A i \in LiveLeases(now) :
                         /\ Room(now, 0, 0, 0, -(leases[i].renewals + 1))
                         /\ leases[i].renewals > 0 => Room(now, 0, 0, 0, -1)
                    /\ \A i \in LiveTickets(now) :
                         /\ Room(now, 0, 0, 0, -(tickets[i].polls + 1))
                         /\ tickets[i].polls > 0 => Room(now, 0, 0, 0, -1)
  BY DEF LifecycleNeverRefused
<1>1. now \in Instant /\ now >= lastNow
  BY ConfigAssumption DEF TypeOK, Instant
<1> DEFINE P == OwedReceipts(PollsLeft(TicketsAt(now)), PollAttempts)
           R == OwedReceipts(RenewalsLeft(LeasesAt(now)), RenewalTicks)
<1>2. /\ IsFiniteSet(P) /\ IsFiniteSet(R)
      /\ Cardinality(P) \in Nat /\ Cardinality(R) \in Nat
  <2>1. /\ IsFiniteSet(DOMAIN PollsLeft(TicketsAt(now)))
        /\ IsFiniteSet(DOMAIN RenewalsLeft(LeasesAt(now)))
    BY <1>1, PruneFits DEF PollsLeft, RenewalsLeft
  <2> QED BY <2>1, OwedFinite, Settings
<1>3. FutureReceiptReserve(TicketsAt(now), LeasesAt(now)) = Cardinality(P) + Cardinality(R)
  BY DEF FutureReceiptReserve
<1>4. ASSUME NEW k \in Nat \ {0},
             P # {} \/ R # {}
      PROVE  Room(now, 0, 0, 0, -k)
  <2> HIDE DEF P, R
  <2>1. Cardinality(P) # 0 \/ Cardinality(R) # 0
    BY <1>2, <1>4, FS_EmptySet
  <2>2. FutureReceiptReserve(TicketsAt(now), LeasesAt(now)) >= 1
    BY <1>2, <1>3, <2>1
  <2>3. -k \in Int
    OBVIOUS
  <2> QED BY <1>1, <2>2, <2>3, LifecycleRoom
<1>5. ASSUME NEW i \in LiveLeases(now)
      PROVE  /\ Room(now, 0, 0, 0, -(leases[i].renewals + 1))
             /\ Room(now, 0, 0, 0, -1)
  <2>1. /\ leases[i].renewals \in 0 .. RenewalTicks /\ i \in DOMAIN LeasesAt(now)
        /\ LeasesAt(now)[i] = leases[i]
    BY <1>1, LeasesAtOK DEF Functional, LeaseRecord
  <2>2. <<i, 0>> \in R
    BY <2>1, Settings DEF OwedReceipts, RenewalsLeft
  <2>3. leases[i].renewals + 1 \in Nat \ {0} /\ 1 \in Nat \ {0}
    BY <2>1, Settings
  <2> HIDE DEF P, R
  <2> QED BY <1>4, <2>2, <2>3
<1>6. ASSUME NEW i \in LiveTickets(now)
      PROVE  /\ Room(now, 0, 0, 0, -(tickets[i].polls + 1))
             /\ Room(now, 0, 0, 0, -1)
  <2>1. /\ tickets[i].polls \in 0 .. PollAttempts /\ i \in DOMAIN TicketsAt(now)
        /\ TicketsAt(now)[i] = tickets[i]
    BY <1>1, LeasesAtOK DEF Functional, TicketRecord
  <2>2. <<i, 0>> \in P
    BY <2>1, Settings DEF OwedReceipts, PollsLeft
  <2>3. tickets[i].polls + 1 \in Nat \ {0} /\ 1 \in Nat \ {0}
    BY <2>1, Settings
  <2> HIDE DEF P, R
  <2> QED BY <1>4, <2>2, <2>3
<1> QED BY <1>5, <1>6

\* "Capacity is reserved for live lifecycle receipts": for every sizing that
\* EndpointControlConfig accepts, no schedule of calls and clock readings makes
\* a renewal, finalization, pending poll or cancellation of a live record fail
\* with store_capacity.
THEOREM CapacityReserved == Spec => []LifecycleNeverRefused
<1>1. Init => WindowInv /\ CapacityInv
  BY WindowInvInit, CapacityInvInit
<1>2. WindowInv /\ CapacityInv /\ [Next]_vars => (WindowInv /\ CapacityInv)'
  BY WindowInvNext, CapacityInvNext DEF WindowInv
<1>3. WindowInv /\ CapacityInv => LifecycleNeverRefused
  BY LifecycleHasRoom DEF WindowInv
<1> QED BY <1>1, <1>2, <1>3, PTL DEF Spec
\* The whole store stays within max_keys and each table within its share, so
\* nothing ever has to be evicted to make room.
THEOREM TablesStayBounded == Spec => []TablesBounded
<1>1. Init => WindowInv /\ CapacityInv
  BY WindowInvInit, CapacityInvInit
<1>2. WindowInv /\ CapacityInv /\ [Next]_vars => (WindowInv /\ CapacityInv)'
  BY WindowInvNext, CapacityInvNext DEF WindowInv
<1>3. WindowInv /\ CapacityInv => TablesBounded
  <2> SUFFICES ASSUME TypeOK, CapacityInv PROVE TablesBounded
    BY DEF WindowInv
  <2>1. lastNow \in Instant /\ lastNow >= lastNow
    BY ConfigAssumption DEF TypeOK, Instant
  <2>2. /\ Size(WindowsAt(lastNow)) \in Nat
        /\ Size(WindowsAt(lastNow)) <= 2 * (Size(LeasesAt(lastNow)) + 1)
    BY <2>1, WindowsFew DEF CapacityInv
  <2>3. DOMAIN LeasesAt(lastNow) \subseteq DOMAIN leases
    BY <2>1, LeasesAtOK
  <2>4. /\ Size(LeasesAt(lastNow)) \in Nat /\ Size(LeasesAt(lastNow)) <= Size(leases)
        /\ Size(leases) \in Nat
    BY <2>3, TablesFinite, SubtableSize
  <2>5. /\ Size(rates) \in Nat /\ Size(tickets) \in Nat /\ Size(receipts) \in Nat
        /\ FutureReceiptReserve(tickets, leases) \in Nat
    BY TablesFinite, ReserveNat, FS_CardinalityType DEF Size
  <2>6. Size(WindowsAt(lastNow)) <= 2 * (MaxActive + 1)
    BY <2>2, <2>4, Settings DEF CapacityInv, Fits
  <2> QED BY <2>2, <2>4, <2>5, <2>6, Settings DEF TablesBounded, CapacityInv, Fits, RateCap
<1> QED BY <1>1, <1>2, <1>3, PTL DEF Spec

-----------------------------------------------------------------------------
(* First come, first served.                                               *)

\* Sequence numbers tell tickets apart, and none is ahead of the counter.
QueueInv ==
  \A i \in DOMAIN tickets :
    /\ tickets[i].sequence <= sequence
    /\ \A j \in DOMAIN tickets : tickets[i].sequence = tickets[j].sequence => i = j

LEMMA QueueInvEffect ==
  ASSUME TypeOK, QueueInv, NEW now \in Instant, TicketEffect(now)
  PROVE  QueueInv'
<1>0. /\ DOMAIN TicketsAt(now) = LiveTickets(now)
      /\ LiveTickets(now) \subseteq DOMAIN tickets
      /\ \A i \in LiveTickets(now) : TicketsAt(now)[i] = tickets[i]
      /\ sequence \in Nat
      /\ \A i \in DOMAIN tickets : tickets[i].sequence \in Nat
  BY LeasesAtOK, ConfigAssumption DEF TypeOK, Functional, TicketRecord
<1>1. CASE tickets' = TicketsAt(now) /\ UNCHANGED sequence
  BY <1>0, <1>1 DEF QueueInv
<1>2. ASSUME NEW h \in IssuedHandle,
             tickets' = Without(TicketsAt(now), h.id), UNCHANGED sequence
      PROVE  QueueInv'
  BY <1>0, <1>2 DEF QueueInv, Without, Restrict
<1>3. ASSUME NEW h \in IssuedHandle,
             h.id \in LiveTickets(now),
             tickets' = [TicketsAt(now) EXCEPT ![h.id].polls = @ - 1],
             UNCHANGED sequence
      PROVE  QueueInv'
  <2>1. /\ DOMAIN tickets' = LiveTickets(now)
        /\ \A i \in LiveTickets(now) : tickets'[i].sequence = tickets[i].sequence
    <3>1. tickets[h.id] \in TicketRecord
      BY <1>0, <1>3 DEF TypeOK, Functional
    <3>2. /\ DOMAIN tickets' = LiveTickets(now)
          /\ \A i \in LiveTickets(now) \ {h.id} : tickets'[i] = tickets[i]
          /\ tickets'[h.id] = [tickets[h.id] EXCEPT !.polls = @ - 1]
      BY <1>0, <1>3
    <3> QED BY <3>1, <3>2 DEF TicketRecord
  <2> QED BY <1>0, <1>3, <2>1 DEF QueueInv
<1>4. ASSUME sequence' = sequence + 1,
             tickets' = Put(TicketsAt(now), NextId,
                       [expires |-> now + TicketTTL, sequence |-> sequence + 1,
                        polls |-> PollAttempts])
      PROVE  QueueInv'
  <2>1. /\ DOMAIN tickets' = LiveTickets(now) \cup {NextId}
        /\ tickets'[NextId].sequence = sequence + 1
        /\ \A i \in LiveTickets(now) \ {NextId} : tickets'[i] = tickets[i]
    BY <1>0, <1>4 DEF Put
  <2>2. \A i \in LiveTickets(now) \ {NextId} :
          tickets'[i].sequence \in Nat /\ tickets'[i].sequence <= sequence
    BY <1>0, <2>1 DEF QueueInv
  <2> QED BY <1>0, <1>4, <2>1, <2>2 DEF QueueInv
<1> QED BY <1>1, <1>2, <1>3, <1>4 DEF TicketEffect

\* A step that adds a lease grants it, and a grant is due.
LEMMA NewLeaseIsDue ==
  ASSUME TypeOK, NEW now \in Instant, LeaseEffect(now),
         NEW i \in DOMAIN leases' \ DOMAIN leases
  PROVE  CanIssue /\ Due(now) /\ GrantLease(now)
<1>1. DOMAIN LeasesAt(now) \subseteq DOMAIN leases
  BY LeasesAtOK
<1>2. ~ Survive(now)
  BY <1>1 DEF Survive
<1>3. ASSUME NEW h \in IssuedHandle, Extend(h, now) PROVE FALSE
  BY <1>1, <1>3 DEF Extend
<1>4. ASSUME NEW h \in IssuedHandle, NEW charge, NEW uncertain,
             Close(h, charge, uncertain, now)
      PROVE  FALSE
  BY <1>1, <1>4 DEF Close, Without, Restrict
<1> QED BY <1>2, <1>3, <1>4 DEF LeaseEffect

LEMMA GrantInTurn ==
  ASSUME TypeOK, QueueInv, NEW now \in Instant, Effect(now),
         NEW i \in DOMAIN leases' \ DOMAIN leases,
         DOMAIN tickets \cap DOMAIN tickets' # {}
  PROVE  \E head \in DOMAIN tickets \ (DOMAIN tickets \cap DOMAIN tickets') :
           /\ tickets[head].expires > lastNow'
           /\ \A t \in DOMAIN tickets \cap DOMAIN tickets' :
                tickets[head].sequence < tickets[t].sequence
<1>0. lastNow' = now /\ Due(now) /\ TicketEffect(now)
  BY NewLeaseIsDue DEF Effect
<1>1. /\ DOMAIN TicketsAt(now) = LiveTickets(now)
      /\ LiveTickets(now) \subseteq DOMAIN tickets
      /\ \A t \in LiveTickets(now) : tickets[t].expires > now
      /\ \A t \in DOMAIN tickets : tickets[t].sequence \in Nat
      /\ NextId \notin DOMAIN tickets
  <2>1. \A t \in DOMAIN tickets : t \in 1 .. tokenSequence /\ tickets[t] \in TicketRecord
    BY DEF TypeOK, Functional
  <2>2. \A t \in DOMAIN tickets : tickets[t].sequence \in Nat
    BY <2>1, ConfigAssumption DEF TicketRecord
  <2>3. NextId \notin DOMAIN tickets
    BY <2>1, TokenBounds DEF NextId
  <2> QED BY <2>2, <2>3, LeasesAtOK DEF LiveTickets
<1>2. DOMAIN tickets \cap DOMAIN tickets' \subseteq LiveTickets(now)
  <2>1. DOMAIN tickets' \subseteq LiveTickets(now) \cup {NextId}
    BY <1>0, <1>1 DEF TicketEffect, Without, Restrict, Put
  <2> QED BY <1>1, <2>1
<1>3. PICK h \in IssuedHandle :
        /\ h.id \in LiveTickets(now) /\ IsHead(h.id, now)
        /\ tickets' = Without(TicketsAt(now), h.id)
  BY <1>0, <1>2 DEF Due
<1>4. h.id \notin DOMAIN tickets'
  BY <1>3 DEF Without, Restrict
<1>5. ASSUME NEW t \in DOMAIN tickets \cap DOMAIN tickets'
      PROVE  tickets[h.id].sequence < tickets[t].sequence
  <2>1. t \in LiveTickets(now) /\ t # h.id
    BY <1>2, <1>4
  <2>2. tickets[h.id].sequence <= tickets[t].sequence
    BY <1>3, <2>1 DEF IsHead
  <2>3. tickets[h.id].sequence # tickets[t].sequence
    BY <1>1, <1>3, <2>1 DEF QueueInv
  <2> QED BY <1>1, <1>3, <2>1, <2>2, <2>3
<1> QED BY <1>0, <1>1, <1>3, <1>4, <1>5

LEMMA QueueInvInit == Init => QueueInv
BY DEF Init, QueueInv

LEMMA QueueInvNext == WindowInv /\ QueueInv /\ [Next]_vars => QueueInv'
<1>1. ASSUME WindowInv, QueueInv, Next PROVE QueueInv'
  BY <1>1, NextEffect, QueueInvEffect DEF WindowInv, Effect
<1>2. ASSUME QueueInv, UNCHANGED vars PROVE QueueInv'
  BY <1>2 DEF QueueInv, vars
<1> QED BY <1>1, <1>2

\* A lease goes to the oldest ticket that has not expired, or to a newcomer
\* when nobody waits, for every bound of the queue and every schedule
\* (admit_or_enqueue, wait_for_admission).
THEOREM FirstComeFirstServed == Spec => NoOvertaking
<1>1. WindowInv /\ QueueInv /\ [Next]_vars =>
        [\A i \in DOMAIN leases' \ DOMAIN leases :
           LET waiting == DOMAIN tickets \cap DOMAIN tickets'
           IN  waiting # {} =>
                 \E head \in DOMAIN tickets \ waiting :
                   /\ tickets[head].expires > lastNow'
                   /\ \A t \in waiting : tickets[head].sequence < tickets[t].sequence
        ]_vars
  <2> SUFFICES ASSUME WindowInv, QueueInv, Next,
                      NEW i \in DOMAIN leases' \ DOMAIN leases,
                      DOMAIN tickets \cap DOMAIN tickets' # {}
               PROVE  \E head \in DOMAIN tickets \ (DOMAIN tickets \cap DOMAIN tickets') :
                        /\ tickets[head].expires > lastNow'
                        /\ \A t \in DOMAIN tickets \cap DOMAIN tickets' :
                             tickets[head].sequence < tickets[t].sequence
    OBVIOUS
  <2>1. PICK now \in Instant : Effect(now)
    BY NextEffect DEF WindowInv
  <2> QED BY <2>1, GrantInTurn DEF WindowInv
<1> QED BY <1>1, WindowInvInit, WindowInvNext, QueueInvInit, QueueInvNext, PTL
     DEF Spec, NoOvertaking

-----------------------------------------------------------------------------
(* Spending.                                                               *)

\* What is promised and what is spent in the windows of f fit the budget.
Fitting(f) ==
  \A w \in DOMAIN f : f[w].overrun \/ f[w].reserved + f[w].committed <= Budget(w)

LEMMA BudgetNat ==
  ASSUME NEW w PROVE Budget(w) \in Nat
BY ConfigAssumption DEF Budget

LEMMA SettleFits ==
  ASSUME NEW w, NEW window \in WindowRecord, NEW n \in Nat, NEW charge \in Nat,
         NEW uncertain \in BOOLEAN
  PROVE  /\ \/ Settle(w, window, n, charge, uncertain).overrun
            \/ Settle(w, window, n, charge, uncertain).reserved
                 + Settle(w, window, n, charge, uncertain).committed <= Budget(w)
         /\ Settle(w, window, n, charge, uncertain).committed = window.committed + n * charge
         /\ Settle(w, window, n, charge, uncertain).committed >= window.committed
         /\ window.overrun => Settle(w, window, n, charge, uncertain).overrun
         /\ window.uncertain => Settle(w, window, n, charge, uncertain).uncertain
         /\ uncertain => Settle(w, window, n, charge, uncertain).uncertain
<1> DEFINE spent == n * charge
           back == n * Reserve
<1>1. spent \in Nat /\ back \in Nat
  BY ConfigAssumption
<1>2. window.reserved \in Nat /\ window.committed \in Nat
  BY DEF WindowRecord
<1> HIDE DEF spent, back
<1>3. Settle(w, window, n, charge, uncertain) =
        [reserved |-> window.reserved - back, committed |-> window.committed + spent,
         uncertain |-> window.uncertain \/ uncertain,
         overrun |-> \/ window.overrun \/ charge > Reserve
                     \/ window.committed + spent + (window.reserved - back) > Budget(w)]
  BY DEF Settle, spent, back
<1>4. \/ window.committed + spent + (window.reserved - back) > Budget(w)
      \/ (window.reserved - back) + (window.committed + spent) <= Budget(w)
  BY <1>1, <1>2, BudgetNat
<1> DEFINE s == Settle(w, window, n, charge, uncertain)
<1>5. /\ s.reserved = window.reserved - back
      /\ s.committed = window.committed + spent
      /\ s.uncertain = (window.uncertain \/ uncertain)
      /\ s.overrun = (\/ window.overrun \/ charge > Reserve
                      \/ window.committed + spent + (window.reserved - back) > Budget(w))
  BY <1>3
<1>6. s.overrun \/ s.reserved + s.committed <= Budget(w)
  BY <1>4, <1>5
<1>8. s.committed >= window.committed
  BY <1>1, <1>2, <1>5
<1>7. window.overrun => s.overrun
  BY <1>5
<1>9. (window.uncertain => s.uncertain) /\ (uncertain => s.uncertain)
  BY <1>5
<1> QED BY <1>5, <1>6, <1>7, <1>8, <1>9 DEF spent

\* What a prune leaves of a window: what it had spent, and the reservations of
\* the leases that expired.
LEMMA PruneSpends ==
  ASSUME WindowInv, NEW now \in Instant, NEW w \in DOMAIN WindowsAt(now)
  PROVE  /\ w \in DOMAIN windows
         /\ WindowsAt(now)[w].committed =
              windows[w].committed + Reserve * Cardinality(ExpiredIn(w, now))
         /\ windows[w].overrun => WindowsAt(now)[w].overrun
         /\ windows[w].uncertain \/ ExpiredIn(w, now) # {} => WindowsAt(now)[w].uncertain
         /\ WithinBudget =>
              \/ WindowsAt(now)[w].overrun
              \/ WindowsAt(now)[w].reserved + WindowsAt(now)[w].committed <= Budget(w)
<1>1. w \in DOMAIN windows /\ WindowsAt(now)[w] = SettledWindow(w, now)
  BY DEF WindowsAt
<1>2. windows[w] \in WindowRecord /\ Reserve \in Nat
  BY <1>1, ConfigAssumption DEF WindowInv, TypeOK, Functional
<1>3. Cardinality(ExpiredIn(w, now)) \in Nat
  BY LeasesFinite DEF WindowInv
<1>4. CASE ExpiredIn(w, now) = {}
  <2>1. WindowsAt(now)[w] = windows[w] /\ Reserve * Cardinality(ExpiredIn(w, now)) = 0
    BY <1>1, <1>2, <1>4, FS_EmptySet DEF SettledWindow
  <2> QED BY <1>1, <1>2, <1>4, <2>1 DEF WithinBudget, WindowRecord
<1>5. CASE ExpiredIn(w, now) # {}
  <2>1. WindowsAt(now)[w] =
          Settle(w, windows[w], Cardinality(ExpiredIn(w, now)), Reserve, TRUE)
    BY <1>1, <1>5 DEF SettledWindow
  <2>2. Cardinality(ExpiredIn(w, now)) * Reserve = Reserve * Cardinality(ExpiredIn(w, now))
    BY <1>2, <1>3
  <2> DEFINE s == Settle(w, windows[w], Cardinality(ExpiredIn(w, now)), Reserve, TRUE)
  <2>3. /\ s.overrun \/ s.reserved + s.committed <= Budget(w)
        /\ s.committed = windows[w].committed + Cardinality(ExpiredIn(w, now)) * Reserve
        /\ windows[w].overrun => s.overrun
        /\ s.uncertain
    BY <1>2, <1>3, SettleFits
  <2> QED BY <1>1, <2>1, <2>2, <2>3
<1> QED BY <1>4, <1>5

LEMMA ChargeNat ==
  ASSUME NEW charge \in Charges PROVE charge \in Nat
BY ConfigAssumption

LEMMA WithinBudgetEffect ==
  ASSUME WindowInv, WithinBudget, NEW now \in Instant, LeaseEffect(now)
  PROVE  WithinBudget'
<1>1. Fitting(WindowsAt(now))
  BY PruneSpends DEF Fitting
<1>2. Functional(WindowsAt(now), Period \X Nat, WindowRecord)
  BY WindowsAtOK
<1>3. CASE windows' = WindowsAt(now)
  BY <1>1, <1>3, BudgetNat DEF Fitting, WithinBudget, Budget
<1>4. CASE Due(now) /\ GrantLease(now)
  <2>1. windows' = Reserved(now)
    BY <1>4 DEF GrantLease
  <2>2. ASSUME NEW w \in DOMAIN windows'
        PROVE  windows'[w].overrun \/ windows'[w].reserved + windows'[w].committed <= Budget(w)
    <3>1. CASE w \notin WindowsOf(now)
      BY <1>1, <2>1, <2>2, <3>1 DEF Reserved, Fitting
    <3>2. CASE w \in WindowsOf(now)
      <4>1. windows'[w] = [WindowAt(w, now) EXCEPT !.reserved = @ + Reserve]
        BY <2>1, <3>2 DEF Reserved
      <4>2. WindowAt(w, now).reserved + WindowAt(w, now).committed + Reserve <= Budget(w)
        BY <1>4, <3>2 DEF Due, BudgetAvailable
      <4>3. WindowAt(w, now) \in WindowRecord
        BY <1>2 DEF WindowAt, Functional, WindowRecord
      <4>4. /\ windows'[w].reserved = WindowAt(w, now).reserved + Reserve
            /\ windows'[w].committed = WindowAt(w, now).committed
        BY <4>1, <4>3 DEF WindowRecord
      <4> QED BY <4>2, <4>3, <4>4, BudgetNat, ConfigAssumption DEF WindowRecord
    <3> QED BY <3>1, <3>2
  <2> QED BY <2>2 DEF WithinBudget, Budget
<1>5. ASSUME NEW h \in IssuedHandle, NEW charge \in Charges, NEW uncertain \in BOOLEAN,
             Close(h, charge, uncertain, now)
      PROVE  WithinBudget'
  <2>1. ASSUME NEW w \in DOMAIN windows'
        PROVE  windows'[w].overrun \/ windows'[w].reserved + windows'[w].committed <= Budget(w)
    <3>1. /\ w \in DOMAIN WindowsAt(now)
          /\ windows'[w] = IF w \in leases[h.id].windows
                           THEN Settle(w, WindowsAt(now)[w], 1, charge, uncertain)
                           ELSE WindowsAt(now)[w]
      BY <1>5, <2>1 DEF Close
    <3>2. WindowsAt(now)[w] \in WindowRecord
      BY <1>2, <3>1 DEF Functional
    <3> QED BY <1>1, <3>1, <3>2, SettleFits, ChargeNat DEF Fitting
  <2> QED BY <2>1 DEF WithinBudget, Budget
<1> QED BY <1>3, <1>4, <1>5 DEF LeaseEffect, Survive, Extend

\* What is spent and what is promised stay inside the hourly and the daily
\* budget, unless a settlement above its reservation marked the window
\* (_budget_available, _release_reservation).
THEOREM BudgetKept == Spec => []WithinBudget
<1>1. Init => WithinBudget
  BY DEF Init, WithinBudget
<1>2. WindowInv /\ WithinBudget /\ [Next]_vars => WithinBudget'
  <2>1. ASSUME WindowInv, WithinBudget, Next PROVE WithinBudget'
    BY <2>1, NextEffect, WithinBudgetEffect DEF WindowInv, Effect
  <2>2. ASSUME WithinBudget, UNCHANGED vars PROVE WithinBudget'
    BY <2>2 DEF WithinBudget, Budget, vars
  <2> QED BY <2>1, <2>2
<1> QED BY <1>1, <1>2, WindowInvInit, WindowInvNext, PTL DEF Spec

\* What a table of windows keeps of window w at a prune.
Remembers(f, w, now) ==
  /\ w \in DOMAIN f
  /\ f[w].committed >= windows[w].committed + Reserve * Cardinality(ExpiredIn(w, now))
  /\ windows[w].overrun => f[w].overrun
  /\ windows[w].uncertain \/ ExpiredIn(w, now) # {} => f[w].uncertain

LEMMA RememberedStep ==
  ASSUME WindowInv, NEW now \in Instant, LeaseEffect(now),
         NEW w \in DOMAIN windows, WindowEnd(w) > now
  PROVE  Remembers(windows', w, now)
<1>1. w \in DOMAIN WindowsAt(now)
  BY DEF WindowsAt, WindowKept
<1>2. WindowsAt(now)[w] \in WindowRecord
  BY <1>1, WindowsAtOK DEF Functional
<1>3. /\ WindowsAt(now)[w].committed =
           windows[w].committed + Reserve * Cardinality(ExpiredIn(w, now))
      /\ windows[w].overrun => WindowsAt(now)[w].overrun
      /\ windows[w].uncertain \/ ExpiredIn(w, now) # {} => WindowsAt(now)[w].uncertain
  BY <1>1, PruneSpends
<1>4. WindowsAt(now)[w].committed \in Nat
  BY <1>2 DEF WindowRecord
<1>5. CASE windows' = WindowsAt(now)
  BY <1>1, <1>3, <1>4, <1>5 DEF Remembers
<1>6. CASE GrantLease(now)
  <2>1. /\ w \in DOMAIN windows'
        /\ windows'[w] = IF w \in WindowsOf(now)
                         THEN [WindowsAt(now)[w] EXCEPT !.reserved = @ + Reserve]
                         ELSE WindowsAt(now)[w]
    BY <1>1, <1>6 DEF GrantLease, Reserved, WindowAt
  <2>2. /\ windows'[w].committed = WindowsAt(now)[w].committed
        /\ windows'[w].overrun = WindowsAt(now)[w].overrun
        /\ windows'[w].uncertain = WindowsAt(now)[w].uncertain
    BY <1>2, <2>1 DEF WindowRecord
  <2> QED BY <1>3, <1>4, <2>1, <2>2 DEF Remembers
<1>7. ASSUME NEW h \in IssuedHandle, NEW charge \in Charges, NEW uncertain \in BOOLEAN,
             Close(h, charge, uncertain, now)
      PROVE  Remembers(windows', w, now)
  <2>1. /\ w \in DOMAIN windows'
        /\ windows'[w] = IF w \in leases[h.id].windows
                         THEN Settle(w, WindowsAt(now)[w], 1, charge, uncertain)
                         ELSE WindowsAt(now)[w]
    BY <1>1, <1>7 DEF Close
  <2>2. CASE w \notin leases[h.id].windows
    BY <1>3, <1>4, <2>1, <2>2 DEF Remembers
  <2>3. CASE w \in leases[h.id].windows
    <3>1. /\ windows'[w] = Settle(w, WindowsAt(now)[w], 1, charge, uncertain)
          /\ charge \in Nat /\ 1 \in Nat
      BY <2>1, <2>3, ChargeNat
    <3>2. /\ windows'[w].committed >= WindowsAt(now)[w].committed
          /\ WindowsAt(now)[w].overrun => windows'[w].overrun
          /\ WindowsAt(now)[w].uncertain => windows'[w].uncertain
      BY <1>2, <3>1, SettleFits
    <3>3. windows'[w].committed \in Int
      BY <1>4, <3>1 DEF Settle
    <3> QED BY <1>3, <1>4, <2>1, <3>2, <3>3 DEF Remembers
  <2> QED BY <2>2, <2>3
<1> QED BY <1>5, <1>6, <1>7 DEF LeaseEffect, Survive, Extend

\* A window is not forgotten before it ends, what it has spent never shrinks,
\* it takes the full reservation of every lease that expires, and its marks
\* stay (_prune, _release_reservation).
THEOREM SpendingStays == Spec => SpendingRemembered
<1>1. WindowInv /\ [Next]_vars =>
        [\A w \in DOMAIN windows : WindowEnd(w) > lastNow' =>
           /\ w \in DOMAIN windows'
           /\ windows'[w].committed >= windows[w].committed
                + Reserve * Cardinality(ExpiredIn(w, lastNow'))
           /\ windows[w].overrun => windows'[w].overrun
           /\ \/ windows[w].uncertain
              \/ ExpiredIn(w, lastNow') # {}
              => windows'[w].uncertain
        ]_vars
  <2> SUFFICES ASSUME WindowInv, Next, NEW w \in DOMAIN windows, WindowEnd(w) > lastNow'
               PROVE  Remembers(windows', w, lastNow')
    BY DEF Remembers
  <2>1. PICK now \in Instant : Effect(now)
    BY NextEffect DEF WindowInv
  <2>2. lastNow' = now /\ LeaseEffect(now)
    BY <2>1 DEF Effect
  <2> QED BY <2>2, RememberedStep
<1> QED BY <1>1, WindowInvInit, WindowInvNext, PTL DEF Spec, SpendingRemembered

-----------------------------------------------------------------------------
(* Grants on record.                                                       *)

Grant == {"Admitted", "Queued"}

\* A step records a grant under the id that it issues, or grants nothing.
GrantStep(now) ==
  \/ /\ \/ receipts' = ReceiptsAt(now)
        \/ \E op \in OperationId : \E record :
             /\ op \notin DOMAIN ReceiptsAt(now)
             /\ receipts' = Put(ReceiptsAt(now), op, record)
             /\ record.outcome.type \notin Grant
     /\ DOMAIN leases' \subseteq LiveLeases(now)
     /\ DOMAIN tickets' \subseteq LiveTickets(now)
     /\ UNCHANGED tokenSequence
  \/ \E op \in OperationId : \E record :
       /\ op \notin DOMAIN ReceiptsAt(now)
       /\ receipts' = Put(ReceiptsAt(now), op, record)
       /\ record.outcome.type \in Grant /\ record.outcome.id = NextId
       /\ DOMAIN leases' \subseteq LiveLeases(now)
            \cup (IF record.outcome.type = "Admitted" THEN {NextId} ELSE {})
       /\ DOMAIN tickets' \subseteq LiveTickets(now)
            \cup (IF record.outcome.type = "Queued" THEN {NextId} ELSE {})
       /\ tokenSequence' = NextId

LEMMA PruneGrants ==
  ASSUME TypeOK, NEW now \in Instant, OnlyPrune(now)
  PROVE  GrantStep(now)
BY LeasesAtOK DEF OnlyPrune, GrantStep

LEMMA OtherGrants ==
  ASSUME TypeOK, NEW now \in Instant, NEW op \in OperationId, NEW kind, NEW args,
         NEW outcome, Fresh(op, now), Record(op, kind, args, outcome, now),
         outcome.type \notin Grant,
         DOMAIN leases' \subseteq LiveLeases(now),
         DOMAIN tickets' \subseteq LiveTickets(now), UNCHANGED tokenSequence
  PROVE  GrantStep(now)
<1> DEFINE record == [kind |-> kind, args |-> args, outcome |-> outcome,
                      expires |-> now + ReceiptTTL]
<1>1. op \notin DOMAIN ReceiptsAt(now) /\ receipts' = Put(ReceiptsAt(now), op, record)
  BY DEF Fresh, Record
<1>2. record.outcome.type \notin Grant
  OBVIOUS
<1> HIDE DEF record
<1> QED BY <1>1, <1>2 DEF GrantStep

LEMMA NewGrants ==
  ASSUME TypeOK, NEW now \in Instant, NEW op \in OperationId, NEW kind, NEW args,
         NEW outcome, Fresh(op, now), Record(op, kind, args, outcome, now),
         outcome.type \in Grant, outcome.id = NextId, tokenSequence' = NextId,
         DOMAIN leases' \subseteq LiveLeases(now)
           \cup (IF outcome.type = "Admitted" THEN {NextId} ELSE {}),
         DOMAIN tickets' \subseteq LiveTickets(now)
           \cup (IF outcome.type = "Queued" THEN {NextId} ELSE {})
  PROVE  GrantStep(now)
<1> DEFINE record == [kind |-> kind, args |-> args, outcome |-> outcome,
                      expires |-> now + ReceiptTTL]
<1>1. op \notin DOMAIN ReceiptsAt(now) /\ receipts' = Put(ReceiptsAt(now), op, record)
  BY DEF Fresh, Record
<1>2. record.outcome = outcome
  OBVIOUS
<1> HIDE DEF record
<1> QED BY <1>1, <1>2 DEF GrantStep

LEMMA AdmitGrants ==
  ASSUME TypeOK, NEW now \in Instant, NEW op \in OperationId, NEW ip \in Ip,
         NEW session \in Session, AdmitOrEnqueue(op, ip, session, now)
  PROVE  GrantStep(now)
<1> DEFINE args == <<ip, session>>
<1>0. \/ AdmitReplayed(op, now) \/ AdmitThrottled(op, args, now)
      \/ AdmitRefused(op, args, now) \/ AdmitDenied(op, args, now)
      \/ AdmitGranted(op, args, now) \/ AdmitQueued(op, args, now)
  BY DEF AdmitOrEnqueue
<1> HIDE DEF args
<1>1. CASE AdmitReplayed(op, now) \/ AdmitRefused(op, args, now)
  BY <1>1, PruneGrants DEF AdmitReplayed, AdmitRefused
<1>2. CASE AdmitThrottled(op, args, now)
  <2> DEFINE outcome == Denied(ThrottleReason(args[1], now))
  <2>1. outcome.type \notin Grant
    BY DEF Denied, Grant
  <2>2. /\ Fresh(op, now) /\ Record(op, "admit_or_enqueue", args, outcome, now)
        /\ tickets' = TicketsAt(now) /\ leases' = LeasesAt(now)
        /\ UNCHANGED tokenSequence
    BY <1>2 DEF AdmitThrottled
  <2> HIDE DEF outcome
  <2> QED BY <2>1, <2>2, OtherGrants, LeasesAtOK
<1>3. CASE AdmitDenied(op, args, now)
  <2> DEFINE outcome == AdmitDenial(now)
  <2>1. /\ Fresh(op, now) /\ Record(op, "admit_or_enqueue", args, outcome, now)
        /\ tickets' = TicketsAt(now) /\ leases' = LeasesAt(now)
        /\ AdmitBranch(now) \in {"budget", "busy"} /\ UNCHANGED tokenSequence
    BY <1>3 DEF AdmitDenied, Unthrottled
  <2>2. outcome.type \notin Grant
    BY <2>1 DEF AdmitDenial, Denied, Grant
  <2> HIDE DEF outcome
  <2> QED BY <2>1, <2>2, OtherGrants, LeasesAtOK
<1>4. CASE AdmitGranted(op, args, now)
  <2> DEFINE outcome == Admitted(NextId, now + LeaseTTL)
  <2>1. outcome.type = "Admitted" /\ outcome.id = NextId
    BY DEF Admitted
  <2>2. /\ Fresh(op, now) /\ Record(op, "admit_or_enqueue", args, outcome, now)
        /\ tickets' = TicketsAt(now) /\ GrantLease(now)
    BY <1>4 DEF AdmitGranted, Unthrottled
  <2>3. /\ DOMAIN leases' \subseteq LiveLeases(now) \cup {NextId}
        /\ DOMAIN tickets' \subseteq LiveTickets(now) /\ tokenSequence' = NextId
    BY <2>2, LeasesAtOK DEF GrantLease, Put
  <2> HIDE DEF outcome
  <2> QED BY <2>1, <2>2, <2>3, NewGrants DEF Grant
<1>5. CASE AdmitQueued(op, args, now)
  <2> DEFINE outcome == Queued(NextId)
  <2>1. outcome.type = "Queued" /\ outcome.id = NextId
    BY DEF Queued
  <2>2. /\ Fresh(op, now) /\ Record(op, "admit_or_enqueue", args, outcome, now)
        /\ leases' = LeasesAt(now) /\ tokenSequence' = NextId
        /\ DOMAIN tickets' = DOMAIN TicketsAt(now) \cup {NextId}
    BY <1>5 DEF AdmitQueued, Unthrottled, Put
  <2> HIDE DEF outcome
  <2> QED BY <2>1, <2>2, NewGrants, LeasesAtOK DEF Grant
<1> QED BY <1>0, <1>1, <1>2, <1>3, <1>4, <1>5

LEMMA PollGrants ==
  ASSUME TypeOK, NEW now \in Instant, NEW op \in OperationId,
         NEW h \in IssuedHandle, WaitForAdmission(op, h, now)
  PROVE  GrantStep(now)
<1>0. \/ Replayed(op, now) \/ PollRefused(op, h, now) \/ PollGone(op, h, now)
      \/ PollPending(op, h, now) \/ PollDenied(op, h, now)
      \/ PollAdmitted(op, h, now)
  BY DEF WaitForAdmission
<1>1. ASSUME NEW branch, NEW outcome, PollAnswered(op, h, now, branch, outcome)
      PROVE  Fresh(op, now) /\ Record(op, "wait_for_admission", h, outcome, now)
  BY <1>1 DEF PollAnswered
<1>2. /\ DOMAIN TicketsAt(now) = LiveTickets(now)
      /\ DOMAIN LeasesAt(now) = LiveLeases(now)
      /\ DOMAIN Without(TicketsAt(now), h.id) \subseteq LiveTickets(now)
  BY LeasesAtOK DEF Without, Restrict
<1>3. CASE Replayed(op, now) \/ PollRefused(op, h, now)
  BY <1>3, PruneGrants DEF PollRefused, Replayed, Refused
<1>4. CASE PollGone(op, h, now) \/ PollDenied(op, h, now)
  <2>1. PICK reason :
          /\ Fresh(op, now) /\ Record(op, "wait_for_admission", h, Denied(reason), now)
          /\ DOMAIN leases' \subseteq LiveLeases(now)
          /\ DOMAIN tickets' \subseteq LiveTickets(now) /\ UNCHANGED tokenSequence
    BY <1>1, <1>2, <1>4 DEF PollGone, PollDenied
  <2>2. Denied(reason).type \notin Grant
    BY DEF Denied, Grant
  <2> QED BY <2>1, <2>2, OtherGrants
<1>5. CASE PollPending(op, h, now)
  <2>1. /\ Fresh(op, now) /\ Record(op, "wait_for_admission", h, Pending(h.id), now)
        /\ leases' = LeasesAt(now) /\ DOMAIN tickets' = DOMAIN TicketsAt(now)
        /\ UNCHANGED tokenSequence
    BY <1>1, <1>5 DEF PollPending
  <2>2. Pending(h.id).type \notin Grant
    BY DEF Pending, Grant
  <2> QED BY <1>2, <2>1, <2>2, OtherGrants
<1>6. CASE PollAdmitted(op, h, now)
  <2> DEFINE outcome == Admitted(NextId, now + LeaseTTL)
  <2>1. outcome.type = "Admitted" /\ outcome.id = NextId
    BY DEF Admitted
  <2>2. /\ Fresh(op, now) /\ Record(op, "wait_for_admission", h, outcome, now)
        /\ tickets' = Without(TicketsAt(now), h.id) /\ GrantLease(now)
    BY <1>1, <1>6 DEF PollAdmitted
  <2>3. /\ DOMAIN leases' \subseteq LiveLeases(now) \cup {NextId}
        /\ DOMAIN tickets' \subseteq LiveTickets(now) /\ tokenSequence' = NextId
    BY <1>2, <2>2 DEF GrantLease, Put
  <2> HIDE DEF outcome
  <2> QED BY <2>1, <2>2, <2>3, NewGrants DEF Grant
<1> QED BY <1>0, <1>3, <1>4, <1>5, <1>6

LEMMA HolderGrants ==
  ASSUME TypeOK, NEW now \in Instant, NEW op \in OperationId,
         NEW h \in IssuedHandle, CallByHolder(op, h, now)
  PROVE  GrantStep(now)
<1>0. ASSUME Replayed(op, now) \/ Refused(op, now) PROVE GrantStep(now)
  BY <1>0, PruneGrants DEF Replayed, Refused
<1>1. /\ DOMAIN TicketsAt(now) = LiveTickets(now)
      /\ DOMAIN LeasesAt(now) = LiveLeases(now)
      /\ DOMAIN Without(TicketsAt(now), h.id) \subseteq LiveTickets(now)
      /\ DOMAIN Without(LeasesAt(now), h.id) \subseteq LiveLeases(now)
  BY LeasesAtOK DEF Without, Restrict
<1>2. ASSUME NEW outcome, RenewAnswered(op, h, outcome, now), outcome.type \notin Grant,
             DOMAIN leases' = DOMAIN LeasesAt(now)
      PROVE  GrantStep(now)
  BY <1>1, <1>2, OtherGrants DEF RenewAnswered
<1>3. CASE Renew(op, h, now)
  <2>1. CASE RenewLost(op, h, now)
    <3>1. Lost(LostReason(h, now)).type \notin Grant
      BY DEF Lost, Grant
    <3> QED BY <1>2, <2>1, <3>1 DEF RenewLost
  <2>2. CASE RenewGranted(op, h, now)
    <3>1. Renewed(now + LeaseTTL).type \notin Grant
      BY DEF Renewed, Grant
    <3> QED BY <1>2, <2>2, <3>1 DEF RenewGranted
  <2> QED BY <1>0, <1>3, <2>1, <2>2 DEF Renew, RenewRefused
<1>4. CASE CancelTicket(op, h, now)
  <2>1. CASE CancelDone(op, h, now)
    <3>1. CancelledTicket.type \notin Grant
      BY DEF CancelledTicket, Grant
    <3> QED BY <1>1, <2>1, <3>1, OtherGrants DEF CancelDone
  <2> QED BY <1>0, <1>4, <2>1 DEF CancelTicket, CancelRefused
<1>5. ASSUME NEW charge \in Charges, NEW uncertain \in BOOLEAN,
             Finalize(op, h, charge, uncertain, now)
      PROVE  GrantStep(now)
  <2>1. CASE FinalizeSettled(op, h, charge, uncertain, now)
    <3>1. Finalized.type \notin Grant
      BY DEF Finalized, Grant
    <3> QED BY <1>1, <2>1, <3>1, OtherGrants DEF FinalizeSettled
  <2> QED BY <1>0, <1>5, <2>1 DEF Finalize, FinalizeRefused
<1> QED BY <1>3, <1>4, <1>5, PollGrants DEF CallByHolder

LEMMA NextGrants ==
  ASSUME TypeOK, Next
  PROVE  \E now \in Instant : GrantStep(now)
<1>1. PICK now \in Instant :
        \/ \E op \in OperationId :
             \/ CallByClient(op, now)
             \/ \E h \in IssuedHandle : CallByHolder(op, h, now)
        \/ CheckBudgetReadiness(now)
  BY DEF Next
<1> QED BY <1>1, AdmitGrants, HolderGrants, PruneGrants DEF CallByClient, CheckBudgetReadiness

\* A grant is on record under one operation, and no receipt names an id that
\* has yet to be issued.
OnRecord(type, id) == \E op \in DOMAIN receipts : GrantsOf(type, id) = {op}
GrantsInv ==
  /\ \A i \in DOMAIN leases : OnRecord("Admitted", i)
  /\ \A i \in DOMAIN tickets : OnRecord("Queued", i)
  /\ \A op \in DOMAIN receipts :
       receipts[op].outcome.type \in Grant => receipts[op].outcome.id \in 1 .. tokenSequence

\* The receipt of a live grant survives the prune, and is still the only one.
LEMMA PrunedOnRecord ==
  ASSUME NEW now \in Instant, NEW type \in Grant, NEW i,
         \/ type = "Admitted" /\ i \in LiveLeases(now)
         \/ type = "Queued" /\ i \in LiveTickets(now),
         OnRecord(type, i)
  PROVE  \E op \in DOMAIN ReceiptsAt(now) :
           \A o \in DOMAIN ReceiptsAt(now) :
             o = op <=> /\ ReceiptsAt(now)[o].outcome.type = type
                        /\ ReceiptsAt(now)[o].outcome.id = i
<1>1. PICK op \in DOMAIN receipts : GrantsOf(type, i) = {op}
  BY DEF OnRecord
<1>2. receipts[op].outcome.type = type /\ receipts[op].outcome.id = i
  BY <1>1 DEF GrantsOf
<1>3. /\ DOMAIN ReceiptsAt(now) \subseteq DOMAIN receipts
      /\ \A o \in DOMAIN ReceiptsAt(now) : ReceiptsAt(now)[o] = receipts[o]
  BY DEF ReceiptsAt, Restrict
<1>4. op \in DOMAIN ReceiptsAt(now)
  BY <1>2 DEF ReceiptsAt, Restrict, Mentions
<1>5. \A o \in DOMAIN receipts :
        receipts[o].outcome.type = type /\ receipts[o].outcome.id = i => o = op
  BY <1>1 DEF GrantsOf
<1> QED BY <1>2, <1>3, <1>4, <1>5

LEMMA GrantsInvStep ==
  ASSUME TypeOK, GrantsInv, NEW now \in Instant, GrantStep(now)
  PROVE  GrantsInv'
<1>0. /\ tokenSequence \in Nat /\ NextId = tokenSequence + 1
      /\ LiveLeases(now) \subseteq DOMAIN leases
      /\ LiveTickets(now) \subseteq DOMAIN tickets
      /\ DOMAIN leases \subseteq 1 .. tokenSequence
      /\ DOMAIN tickets \subseteq 1 .. tokenSequence
  BY TokenBounds, LeasesAtOK DEF TypeOK, Functional, NextId
<1>1. /\ DOMAIN ReceiptsAt(now) \subseteq DOMAIN receipts
      /\ \A o \in DOMAIN ReceiptsAt(now) : ReceiptsAt(now)[o] = receipts[o]
  BY DEF ReceiptsAt, Restrict
<1>2. \A o \in DOMAIN ReceiptsAt(now) :
        ReceiptsAt(now)[o].outcome.type \in Grant =>
          ReceiptsAt(now)[o].outcome.id \in 1 .. tokenSequence
  BY <1>1 DEF GrantsInv
<1>3. ASSUME NEW type \in Grant, NEW i,
             \/ type = "Admitted" /\ i \in LiveLeases(now)
             \/ type = "Queued" /\ i \in LiveTickets(now),
             \/ receipts' = ReceiptsAt(now)
             \/ \E op, record : /\ op \notin DOMAIN ReceiptsAt(now)
                                /\ receipts' = Put(ReceiptsAt(now), op, record)
                                /\ \/ record.outcome.type \notin Grant
                                   \/ record.outcome.id = NextId
      PROVE  OnRecord(type, i)'
  <2>1. OnRecord(type, i) /\ i \in 1 .. tokenSequence
    BY <1>0, <1>3 DEF GrantsInv
  <2>2. PICK op \in DOMAIN ReceiptsAt(now) :
          \A o \in DOMAIN ReceiptsAt(now) :
            o = op <=> /\ ReceiptsAt(now)[o].outcome.type = type
                       /\ ReceiptsAt(now)[o].outcome.id = i
    BY <1>3, <2>1, PrunedOnRecord
  <2>3. CASE receipts' = ReceiptsAt(now)
    <3>1. GrantsOf(type, i)' = {op}
      BY <2>2, <2>3 DEF GrantsOf
    <3> QED BY <2>3, <3>1 DEF OnRecord
  <2>4. ASSUME NEW new, NEW record, new \notin DOMAIN ReceiptsAt(now),
               receipts' = Put(ReceiptsAt(now), new, record),
               record.outcome.type \notin Grant \/ record.outcome.id = NextId
        PROVE  OnRecord(type, i)'
    <3>1. /\ DOMAIN receipts' = DOMAIN ReceiptsAt(now) \cup {new}
          /\ receipts'[new] = record
          /\ \A o \in DOMAIN ReceiptsAt(now) : receipts'[o] = ReceiptsAt(now)[o]
      BY <2>4 DEF Put
    <3>2. ~ (record.outcome.type = type /\ record.outcome.id = i)
      BY <1>0, <1>3, <2>1, <2>4
    <3>3. GrantsOf(type, i)' = {op}
      BY <2>2, <2>4, <3>1, <3>2 DEF GrantsOf
    <3> QED BY <3>1, <3>3 DEF OnRecord
  <2> QED BY <1>3, <2>3, <2>4
<1>4. CASE /\ \/ receipts' = ReceiptsAt(now)
              \/ \E op \in OperationId : \E record :
                   /\ op \notin DOMAIN ReceiptsAt(now)
                   /\ receipts' = Put(ReceiptsAt(now), op, record)
                   /\ record.outcome.type \notin Grant
           /\ DOMAIN leases' \subseteq LiveLeases(now)
           /\ DOMAIN tickets' \subseteq LiveTickets(now)
           /\ UNCHANGED tokenSequence
  <2>1. /\ \A i \in DOMAIN leases' : OnRecord("Admitted", i)'
        /\ \A i \in DOMAIN tickets' : OnRecord("Queued", i)'
    BY <1>3, <1>4 DEF Grant
  <2>2. \A o \in DOMAIN receipts' :
          receipts'[o].outcome.type \in Grant => receipts'[o].outcome.id \in 1 .. tokenSequence
    BY <1>2, <1>4 DEF Put
  <2> QED BY <1>4, <2>1, <2>2 DEF GrantsInv
<1>5. ASSUME NEW op \in OperationId, NEW record,
             op \notin DOMAIN ReceiptsAt(now),
             receipts' = Put(ReceiptsAt(now), op, record),
             record.outcome.type \in Grant, record.outcome.id = NextId,
             DOMAIN leases' \subseteq LiveLeases(now)
               \cup (IF record.outcome.type = "Admitted" THEN {NextId} ELSE {}),
             DOMAIN tickets' \subseteq LiveTickets(now)
               \cup (IF record.outcome.type = "Queued" THEN {NextId} ELSE {}),
             tokenSequence' = NextId
      PROVE  GrantsInv'
  <2>1. /\ DOMAIN receipts' = DOMAIN ReceiptsAt(now) \cup {op}
        /\ receipts'[op] = record
        /\ \A o \in DOMAIN ReceiptsAt(now) : receipts'[o] = ReceiptsAt(now)[o]
    BY <1>5 DEF Put
  <2>2. OnRecord(record.outcome.type, record.outcome.id)'
    <3>1. \A o \in DOMAIN ReceiptsAt(now) :
            ~ (ReceiptsAt(now)[o].outcome.type \in Grant
                 /\ ReceiptsAt(now)[o].outcome.id = NextId)
      BY <1>0, <1>2
    <3>2. \A o \in DOMAIN receipts' :
            o = op <=> /\ receipts'[o].outcome.type = record.outcome.type
                       /\ receipts'[o].outcome.id = record.outcome.id
      BY <1>5, <2>1, <3>1
    <3>3. {o \in DOMAIN receipts' : /\ receipts'[o].outcome.type = record.outcome.type
                                    /\ receipts'[o].outcome.id = record.outcome.id} = {op}
      BY <2>1, <3>2
    <3> QED BY <2>1, <3>3 DEF OnRecord, GrantsOf
  <2>3. /\ \A i \in LiveLeases(now) : OnRecord("Admitted", i)'
        /\ \A i \in LiveTickets(now) : OnRecord("Queued", i)'
    BY <1>3, <1>5 DEF Grant
  <2>4. ASSUME NEW i \in DOMAIN leases' PROVE OnRecord("Admitted", i)'
    <3>1. i \in LiveLeases(now) \/ (record.outcome.type = "Admitted" /\ i = record.outcome.id)
      BY <1>5, <2>4
    <3> QED BY <2>2, <2>3, <3>1
  <2>5. ASSUME NEW i \in DOMAIN tickets' PROVE OnRecord("Queued", i)'
    <3>1. i \in LiveTickets(now) \/ (record.outcome.type = "Queued" /\ i = record.outcome.id)
      BY <1>5, <2>5
    <3> QED BY <2>2, <2>3, <3>1
  <2>6. \A o \in DOMAIN receipts' :
          receipts'[o].outcome.type \in Grant => receipts'[o].outcome.id \in 1 .. tokenSequence'
    BY <1>0, <1>2, <1>5, <2>1
  <2> QED BY <2>4, <2>5, <2>6 DEF GrantsInv
<1> QED BY <1>4, <1>5 DEF GrantStep

LEMMA GrantsInvNext == WindowInv /\ GrantsInv /\ [Next]_vars => GrantsInv'
<1>1. ASSUME WindowInv, GrantsInv, Next PROVE GrantsInv'
  BY <1>1, NextGrants, GrantsInvStep DEF WindowInv
<1>2. ASSUME GrantsInv, UNCHANGED vars PROVE GrantsInv'
  BY <1>2 DEF GrantsInv, OnRecord, GrantsOf, vars
<1> QED BY <1>1, <1>2

\* A grant in force is on record under exactly one operation id, however old
\* its receipt is: a late replay is answered from it and not granted twice
\* (_prune, _replay).
THEOREM GrantsStayOnRecord == Spec => []GrantsOnRecord
<1>1. Init => GrantsInv
  BY DEF Init, GrantsInv
<1>2. GrantsInv => GrantsOnRecord
  <2> SUFFICES ASSUME GrantsInv PROVE GrantsOnRecord
    OBVIOUS
  <2>1. ASSUME NEW type, NEW i, OnRecord(type, i)
        PROVE  Cardinality(GrantsOf(type, i)) = 1
    BY <2>1, FS_Singleton DEF OnRecord
  <2> QED BY <2>1 DEF GrantsInv, GrantsOnRecord
<1> QED BY <1>1, <1>2, WindowInvInit, WindowInvNext, GrantsInvNext, PTL DEF Spec

-----------------------------------------------------------------------------
(* Rate tokens.                                                            *)

RateDenials == {Denied("ip_rate_limited"), Denied("session_rate_limited")}

\* A receipt of an admission that was not refused for its rate.
Spends(record) ==
  record.kind = "admit_or_enqueue" /\ record.outcome \notin RateDenials

\* A step spends the tokens of the pair whose admission it records, or none.
RateStep(now) ==
  \/ /\ rates' \in {rates, RatesAt(now)}
     /\ \A o \in DOMAIN receipts' :
          \/ o \in DOMAIN receipts /\ receipts'[o] = receipts[o]
          \/ ~ Spends(receipts'[o])
  \/ \E op \in OperationId, ip \in Ip, session \in Session : \E record :
       /\ ~Throttled(ip, session, now) /\ ConsumeRates(ip, session, now)
       /\ op \notin DOMAIN ReceiptsAt(now)
       /\ receipts' = Put(ReceiptsAt(now), op, record)
       /\ Spends(record) /\ record.args = <<ip, session>>
       /\ record.expires = now + ReceiptTTL

LEMMA ReceiptsKept ==
  ASSUME NEW now
  PROVE  /\ DOMAIN ReceiptsAt(now) \subseteq DOMAIN receipts
         /\ \A o \in DOMAIN ReceiptsAt(now) : ReceiptsAt(now)[o] = receipts[o]
BY DEF ReceiptsAt, Restrict

LEMMA PruneRates ==
  ASSUME NEW now \in Instant, OnlyPrune(now), rates' \in {rates, RatesAt(now)}
  PROVE  RateStep(now)
BY ReceiptsKept DEF OnlyPrune, RateStep

LEMMA OtherRates ==
  ASSUME NEW now \in Instant, NEW op, NEW kind, NEW args, NEW outcome,
         Record(op, kind, args, outcome, now), rates' \in {rates, RatesAt(now)},
         kind # "admit_or_enqueue" \/ outcome \in RateDenials
  PROVE  RateStep(now)
<1> DEFINE record == [kind |-> kind, args |-> args, outcome |-> outcome,
                      expires |-> now + ReceiptTTL]
<1>1. receipts' = Put(ReceiptsAt(now), op, record)
  BY DEF Record
<1>2. ~ Spends(record)
  BY DEF Spends
<1> HIDE DEF record
<1>3. \A o \in DOMAIN receipts' :
        \/ o \in DOMAIN receipts /\ receipts'[o] = receipts[o]
        \/ ~ Spends(receipts'[o])
  BY <1>1, <1>2, ReceiptsKept DEF Put
<1> QED BY <1>3 DEF RateStep

LEMMA AdmitRates ==
  ASSUME NEW now \in Instant, NEW op \in OperationId, NEW ip \in Ip,
         NEW session \in Session, AdmitOrEnqueue(op, ip, session, now)
  PROVE  RateStep(now)
<1> DEFINE args == <<ip, session>>
<1>0. \/ AdmitReplayed(op, now) \/ AdmitThrottled(op, args, now)
      \/ AdmitRefused(op, args, now) \/ AdmitDenied(op, args, now)
      \/ AdmitGranted(op, args, now) \/ AdmitQueued(op, args, now)
  BY DEF AdmitOrEnqueue
<1>1. args[1] = ip /\ args[2] = session /\ args = <<ip, session>>
  OBVIOUS
<1> HIDE DEF args
<1>2. CASE AdmitReplayed(op, now) \/ AdmitRefused(op, args, now)
  BY <1>2, PruneRates DEF AdmitReplayed, AdmitRefused
<1>3. CASE AdmitThrottled(op, args, now)
  <2> DEFINE outcome == Denied(ThrottleReason(args[1], now))
  <2>1. Record(op, "admit_or_enqueue", args, outcome, now) /\ rates' = RatesAt(now)
    BY <1>3 DEF AdmitThrottled
  <2>2. outcome \in RateDenials
    BY DEF ThrottleReason, RateDenials
  <2> HIDE DEF outcome
  <2> QED BY <2>1, <2>2, OtherRates
<1>4. ASSUME NEW branch, NEW outcome, Unthrottled(op, args, now, branch),
             Record(op, "admit_or_enqueue", args, outcome, now),
             outcome \notin RateDenials
      PROVE  RateStep(now)
  <2> DEFINE record == [kind |-> "admit_or_enqueue", args |-> args,
                        outcome |-> outcome, expires |-> now + ReceiptTTL]
  <2>1. receipts' = Put(ReceiptsAt(now), op, record)
    BY <1>4 DEF Record
  <2>2. /\ ~Throttled(ip, session, now) /\ ConsumeRates(ip, session, now)
        /\ op \notin DOMAIN ReceiptsAt(now)
    BY <1>1, <1>4 DEF Unthrottled, Fresh
  <2>3. Spends(record) /\ record.args = <<ip, session>> /\ record.expires = now + ReceiptTTL
    BY <1>1, <1>4 DEF Spends
  <2> HIDE DEF record
  <2> QED BY <2>1, <2>2, <2>3 DEF RateStep
<1>5. CASE AdmitDenied(op, args, now)
  <2>1. AdmitDenial(now) \notin RateDenials
    BY <1>5 DEF AdmitDenied, Unthrottled, AdmitDenial, RateDenials, Denied
  <2> QED BY <1>4, <1>5, <2>1 DEF AdmitDenied
<1>6. CASE AdmitGranted(op, args, now)
  <2>1. Admitted(NextId, now + LeaseTTL) \notin RateDenials
    <3>1. Admitted(NextId, now + LeaseTTL).type # Denied("ip_rate_limited").type
      BY DEF Admitted, Denied
    <3>2. Admitted(NextId, now + LeaseTTL).type # Denied("session_rate_limited").type
      BY DEF Admitted, Denied
    <3> QED BY <3>1, <3>2 DEF RateDenials
  <2> QED BY <1>4, <1>6, <2>1 DEF AdmitGranted
<1>7. CASE AdmitQueued(op, args, now)
  <2>1. Queued(NextId) \notin RateDenials
    <3>1. Queued(NextId).type # Denied("ip_rate_limited").type
      BY DEF Queued, Denied
    <3>2. Queued(NextId).type # Denied("session_rate_limited").type
      BY DEF Queued, Denied
    <3> QED BY <3>1, <3>2 DEF RateDenials
  <2> QED BY <1>4, <1>7, <2>1 DEF AdmitQueued
<1> QED BY <1>0, <1>2, <1>3, <1>5, <1>6, <1>7

LEMMA HolderRates ==
  ASSUME NEW now \in Instant, NEW op \in OperationId,
         NEW h \in IssuedHandle, CallByHolder(op, h, now)
  PROVE  RateStep(now)
<1>1. ASSUME Replayed(op, now) \/ Refused(op, now) PROVE RateStep(now)
  BY <1>1, PruneRates DEF Replayed, Refused
<1>2. ASSUME NEW kind, NEW args, NEW outcome,
             Record(op, kind, args, outcome, now), UNCHANGED rates,
             kind # "admit_or_enqueue"
      PROVE  RateStep(now)
  BY <1>2, OtherRates
<1>3. CASE WaitForAdmission(op, h, now)
  <2>1. ASSUME NEW branch, NEW outcome, PollAnswered(op, h, now, branch, outcome)
        PROVE  RateStep(now)
    BY <1>2, <2>1 DEF PollAnswered
  <2> QED BY <1>1, <1>3, <2>1 DEF WaitForAdmission, PollRefused, PollGone,
       PollPending, PollDenied, PollAdmitted
<1>4. CASE Renew(op, h, now)
  <2>1. ASSUME NEW outcome, RenewAnswered(op, h, outcome, now) PROVE RateStep(now)
    BY <1>2, <2>1 DEF RenewAnswered
  <2> QED BY <1>1, <1>4, <2>1 DEF Renew, RenewRefused, RenewLost, RenewGranted
<1>5. CASE CancelTicket(op, h, now)
  <2>1. CASE CancelDone(op, h, now)
    BY <1>2, <2>1 DEF CancelDone
  <2> QED BY <1>1, <1>5, <2>1 DEF CancelTicket, CancelRefused
<1>6. ASSUME NEW charge \in Charges, NEW uncertain \in BOOLEAN,
             Finalize(op, h, charge, uncertain, now)
      PROVE  RateStep(now)
  <2>1. CASE FinalizeSettled(op, h, charge, uncertain, now)
    BY <1>2, <2>1 DEF FinalizeSettled
  <2> QED BY <1>1, <1>6, <2>1 DEF Finalize, FinalizeRefused
<1> QED BY <1>3, <1>4, <1>5, <1>6 DEF CallByHolder

LEMMA NextRates ==
  ASSUME Next
  PROVE  \E now \in Instant : now >= lastNow /\ lastNow' = now /\ RateStep(now)
<1>1. PICK now \in Instant :
        \/ \E op \in OperationId :
             \/ CallByClient(op, now)
             \/ \E h \in IssuedHandle : CallByHolder(op, h, now)
        \/ CheckBudgetReadiness(now)
  BY DEF Next
<1>2. CASE \E op \in OperationId : CallByClient(op, now)
  BY <1>2, AdmitRates DEF CallByClient, AdmitOrEnqueue, Enters
<1>3. CASE \E op \in OperationId, h \in IssuedHandle : CallByHolder(op, h, now)
  BY <1>3, HolderRates DEF CallByHolder, WaitForAdmission, Renew, CancelTicket,
     Finalize, Enters
<1>4. CASE CheckBudgetReadiness(now)
  BY <1>4, PruneRates DEF CheckBudgetReadiness
<1> QED BY <1>1, <1>2, <1>3, <1>4

\* Forgetting a full record changes nothing: a key without one is full.
LEMMA PrunedTokens ==
  ASSUME NEW now \in Instant, NEW k \in Ip \cup Session
  PROVE  IF k \in DOMAIN RatesAt(now)
         THEN k \in DOMAIN rates /\ RatesAt(now)[k] = rates[k]
         ELSE RateTokens(k, now) = BucketCapacity(k)
BY DEF RatesAt, Restrict, RateTokens

LEMMA RatesConserved ==
  ASSUME TypeOK, NEW now \in Instant, now >= lastNow, RateStep(now),
         NEW k \in Ip \cup Session
  PROVE  RateTokens(k, now)' = RateTokens(k, now) - (IF SpentBy(k) THEN TokenCost ELSE 0)
<1>0. /\ RateTokens(k, now) \in Nat /\ RateTokens(k, now) <= BucketCapacity(k)
      /\ BucketCapacity(k) \in Nat /\ RefillRate(k) \in Nat /\ TokenCost \in Nat
      /\ now \in Nat
  BY RateTokensType, ConfigAssumption DEF BucketCapacity, RefillRate, Instant
<1>1. ASSUME k \in DOMAIN rates' <=> k \in DOMAIN RatesAt(now),
             k \in DOMAIN rates' => rates'[k] = RatesAt(now)[k]
      PROVE  RateTokens(k, now)' = RateTokens(k, now)
  <2>1. CASE k \in DOMAIN RatesAt(now)
    BY <1>1, <2>1, PrunedTokens DEF RateTokens, BucketCapacity, RefillRate
  <2>2. CASE k \notin DOMAIN RatesAt(now)
    BY <1>1, <2>2, PrunedTokens DEF RateTokens, BucketCapacity, RefillRate
  <2> QED BY <2>1, <2>2
<1>2. CASE /\ rates' \in {rates, RatesAt(now)}
           /\ \A o \in DOMAIN receipts' :
                \/ o \in DOMAIN receipts /\ receipts'[o] = receipts[o]
                \/ ~ Spends(receipts'[o])
  <2>1. ~ SpentBy(k)
    BY <1>2 DEF SpentBy, Spends, RateDenials
  <2>2. RateTokens(k, now)' = RateTokens(k, now)
    <3>1. CASE rates' = rates
      BY <3>1 DEF RateTokens, BucketCapacity, RefillRate
    <3>2. CASE rates' = RatesAt(now)
      BY <1>1, <3>2
    <3> QED BY <1>2, <3>1, <3>2
  <2> QED BY <1>0, <2>1, <2>2
<1>3. ASSUME NEW op \in OperationId, NEW ip \in Ip, NEW session \in Session, NEW record,
             ~Throttled(ip, session, now), ConsumeRates(ip, session, now),
             op \notin DOMAIN ReceiptsAt(now),
             receipts' = Put(ReceiptsAt(now), op, record),
             Spends(record), record.args = <<ip, session>>,
             record.expires = now + ReceiptTTL
      PROVE  RateTokens(k, now)' = RateTokens(k, now) - (IF SpentBy(k) THEN TokenCost ELSE 0)
  <2> DEFINE spent(x) == [tokens |-> RateTokens(x, now) - TokenCost, updated |-> now]
  <2>1. /\ DOMAIN receipts' = DOMAIN ReceiptsAt(now) \cup {op}
        /\ receipts'[op] = record
        /\ \A o \in DOMAIN ReceiptsAt(now) : receipts'[o] = ReceiptsAt(now)[o]
    BY <1>3 DEF Put
  <2>2. \A o \in DOMAIN receipts' :
          o # op => o \in DOMAIN receipts /\ receipts'[o] = receipts[o]
    BY <2>1, ReceiptsKept
  <2>3. op \in DOMAIN receipts => receipts'[op] # receipts[op]
    <3>1. op \in DOMAIN receipts => ~ (receipts[op].expires > now)
      BY <1>3 DEF ReceiptsAt, Restrict
    <3>2. record.expires > now
      BY <1>0, <1>3, ConfigAssumption
    <3> QED BY <2>1, <3>1, <3>2
  <2>4. SpentBy(k) <=> k \in {ip, session}
    BY <1>3, <2>1, <2>2, <2>3 DEF SpentBy, Spends, RateDenials
  <2>5. rates' = Put(Put(RatesAt(now), ip, spent(ip)), session, spent(session))
    BY <1>3 DEF ConsumeRates
  <2>6. CASE k \in {ip, session}
    <3>1. k \in DOMAIN rates' /\ rates'[k] = spent(k)
      BY <2>5, <2>6 DEF Put
    <3>2. rates'[k].tokens = RateTokens(k, now) - TokenCost /\ rates'[k].updated = now
      BY <3>1
    <3>3. RateTokens(k, now)' =
            Lesser(BucketCapacity(k),
                   (RateTokens(k, now) - TokenCost) + (now - now) * RefillRate(k))
      BY <3>1, <3>2 DEF RateTokens, BucketCapacity, RefillRate, Lesser
    <3>4. (now - now) * RefillRate(k) = 0
      BY <1>0
    <3>5. RateTokens(k, now)' = RateTokens(k, now) - TokenCost
      BY <1>0, <3>3, <3>4 DEF Lesser
    <3> QED BY <2>4, <2>6, <3>5
  <2>7. CASE k \notin {ip, session}
    <3> HIDE DEF spent
    <3>1. /\ k \in DOMAIN rates' <=> k \in DOMAIN RatesAt(now)
          /\ k \in DOMAIN rates' => rates'[k] = RatesAt(now)[k]
      BY <2>5, <2>7 DEF Put
    <3> QED BY <1>0, <1>1, <2>4, <2>7, <3>1
  <2> QED BY <2>6, <2>7
<1> QED BY <1>2, <1>3 DEF RateStep

\* The tokens of a bucket change by the refill, and by the cost of each
\* admission decided on it that is not a rate denial: forgetting an idle record,
\* a refusal or a replay neither creates nor loses one (_prune_rates,
\* _consume_rates).
THEOREM TokensConserved == Spec => RateTokensConserved
<1>1. WindowInv /\ [Next]_vars =>
        [\A k \in Ip \cup Session, now \in Instant : now = lastNow' =>
           RateTokens(k, now)' =
             RateTokens(k, now) - (IF SpentBy(k) THEN TokenCost ELSE 0)]_vars
  <2> SUFFICES ASSUME WindowInv, Next, NEW k \in Ip \cup Session, NEW now \in Instant,
                      now = lastNow'
               PROVE  RateTokens(k, now)' =
                        RateTokens(k, now) - (IF SpentBy(k) THEN TokenCost ELSE 0)
    OBVIOUS
  <2>1. now >= lastNow /\ RateStep(now)
    BY NextRates
  <2> QED BY <2>1, RatesConserved DEF WindowInv
<1> QED BY <1>1, WindowInvInit, WindowInvNext, PTL DEF Spec, RateTokensConserved
=============================================================================
