----------------------- MODULE MCEndpointControlStore -----------------------
(* Small instances of the admission store for TLC.                         *)
EXTENDS EndpointControlStore, TLC

\* Operation ids, addresses and sessions are only compared with one another.
Symmetry == Permutations(OperationId) \cup Permutations(Ip) \cup Permutations(Session)

(***************************************************************************)
(* What the rest of a behaviour can depend on, in instances whose budget   *)
(* and rate buckets never bind: how many receipts there are of each        *)
(* expiry, grant and table pruned by their replay, and which windows, but  *)
(* not what was spent in them.  A receipt whose grant is over mentions     *)
(* nothing, as one of a settlement does.                                   *)
(***************************************************************************)
Outlook(o) ==
  LET outcome == receipts[o].outcome
      names == /\ outcome.type \in {"Admitted", "Queued", "Pending"}
               /\ outcome.id \in DOMAIN tickets \cup DOMAIN leases
  IN  <<receipts[o].expires, receipts[o].kind = "admit_or_enqueue",
        IF names THEN outcome ELSE Finalized>>
QueueView ==
  <<lastNow, tickets, leases, DOMAIN windows, sequence, tokenSequence,
    [k \in DOMAIN rates |-> rates[k].updated],
    {<<v, Cardinality({o \in DOMAIN receipts : Outlook(o) = v})>> :
       v \in {Outlook(o) : o \in DOMAIN receipts}}>>
=============================================================================
