--------------------------- MODULE CandidateBatches ---------------------------
(***************************************************************************)
(* How the records of a candidate are split into create batches: in order, *)
(* greedily, each within a number of records and an encoded size.  A       *)
(* record is its key and what it adds to the encoded size of a batch.      *)
(***************************************************************************)
EXTENDS Integers, Sequences, SequencesExt

CONSTANTS
  MaxRecords,  \* CANDIDATE_WRITE_BATCH_MAX_RECORDS
  MaxBytes,    \* CANDIDATE_WRITE_BATCH_MAX_BYTES
  MaxDocument, \* FIRESTORE_DOCUMENT_MAX_BYTES
  BaseSize     \* encoded size of an empty batch

ASSUME BatchBoundsAssumption ==
  /\ MaxRecords \in Nat \ {0}
  /\ MaxBytes \in Nat /\ MaxDocument \in Nat /\ BaseSize \in Nat

Exceeded == <<"store_bounds_exceeded">>

EncodedSize(batch) == FoldLeft(LAMBDA n, r : n + r.size, BaseSize, batch)

\* A record too large to be stored at all, or alone in a batch.
Oversized(r) == r.size > MaxDocument \/ BaseSize + r.size > MaxBytes

Fits(batch, r) ==
  /\ Len(batch) < MaxRecords
  /\ EncodedSize(batch) + r.size <= MaxBytes

Place(batches, r) ==
  IF batches # <<>> /\ Fits(Last(batches), r)
  THEN [batches EXCEPT ![Len(batches)] = Append(@, r)]
  ELSE Append(batches, <<r>>)

PlanBatches(records) ==
  IF \E i \in DOMAIN records : Oversized(records[i]) THEN Exceeded
  ELSE FoldLeft(Place, <<>>, records)

=============================================================================
