-------------------------- MODULE ImmutableCandidate --------------------------
(***************************************************************************)
(* What the candidate collections promise: one exact corpus version is     *)
(* given to one plan for good, it holds nothing but records of that plan,  *)
(* it is attested once and only when every record of the plan is there,    *)
(* and whoever is told that it is there was told the truth.                *)
(***************************************************************************)
CONSTANTS Plan, Signer, None, RecordsOf(_)

VARIABLES holder, stored, attestedBy, receipts

Complete == holder # None /\ stored = RecordsOf(holder)

Init == holder = None /\ stored = {} /\ attestedBy = None /\ receipts = {}

Reserve ==
  /\ holder = None
  /\ holder' \in Plan
  /\ UNCHANGED <<stored, attestedBy, receipts>>

Add ==
  /\ holder # None
  /\ stored' \in SUBSET RecordsOf(holder)
  /\ stored \subseteq stored'
  /\ UNCHANGED <<holder, attestedBy, receipts>>

Attest ==
  /\ Complete /\ attestedBy = None
  /\ attestedBy' \in Signer
  /\ UNCHANGED <<holder, stored, receipts>>

\* A receipt, or the evidence of a verification, names the plan and the signer.
Tell(r) ==
  /\ Complete /\ attestedBy # None
  /\ r.plan = holder /\ r.signer = attestedBy
  /\ receipts' = receipts \union {r}
  /\ UNCHANGED <<holder, stored, attestedBy>>

Next == Reserve \/ Add \/ Attest \/ \E r \in receipts' : Tell(r)

Spec == Init /\ [][Next]_<<holder, stored, attestedBy, receipts>>
=============================================================================
