-------------------------- MODULE MCControlledChat --------------------------
(* Small instances of controlled chat requests for TLC.                    *)
EXTENDS ControlledChat, TLC

Operations == Request \X (1 .. MaxCalls)

\* Requests are only compared with one another.
RequestSymmetry == Permutations(Request)

(***************************************************************************)
(* What the rest of a behaviour can depend on, in instances whose rate     *)
(* buckets and MaxKeys never bind and whose receipts outlive the horizon:  *)
(* tickets and leases are as the next call will prune them, a receipt      *)
(* matters while its operation may still be sent, a timer while its phase  *)
(* waits for it.  Windows, and those of lapsed leases, are kept as they    *)
(* are: properties read them before that prune.                            *)
(***************************************************************************)
\* A late message whose call is on record, and awaited by no one, changes nothing.
Effective ==
  {m \in messages : m.op \notin DOMAIN receipts \/ \E r \in Request : Expects(m, r)}
Sendable ==
  {m.op : m \in Effective} \cup {call[r].op : r \in {x \in Request : phase[x] \in Waiting}}
Call(r) == IF phase[r] = "done" THEN NoReply ELSE call[r]
Kept(f, phases) == [r \in Request |-> IF phase[r] \in phases THEN f[r] ELSE 0]
\* Of a request that is over, its charge is all that properties still read; of
\* one that has no attempt left, whether it may start another one is nothing.
Remembered(r) ==
  IF phase[r] \in {"settling", "done"}
  THEN <<work[r].due, Covered(r), work[r].lease, work[r].windows>>
  ELSE IF work[r].state = "ready" /\ work[r].attempts = MaxAttempts
  THEN [work[r] EXCEPT !.state = "over"] ELSE work[r]
Observable ==
  <<clock, phase, ticket, lease, authority, Effective,
    [r \in Request |-> Call(r)], [r \in Request |-> Remembered(r)],
    Kept(ticks, Phase \ {"settling", "done"}),
    Kept(wake, {"queued", "polling", "streaming", "sending"}),
    Kept(waitEnd, {"queued", "polling"}),
    TicketsAt(clock), LeasesAt(clock), [i \in DOMAIN leases |-> leases[i].windows],
    tokenSequence, windows,
    [o \in DOMAIN receipts \cap Sendable |-> receipts[o].outcome]>>
=============================================================================
