------------------------ MODULE MCCandidatePersistence ------------------------
(* Two plans of one version that share a chunk, split into batches as the   *)
(* workflow splits them, and the split itself over short sequences.         *)
EXTENDS CandidatePersistence, CandidateBatches, TLC

CONSTANTS p1, p2

-----------------------------------------------------------------------------
(* The split.                                                              *)

\* Records that fill a batch, that only fit one alone, and that fit none.
Sequences(length) ==
  {[i \in DOMAIN sizes |-> [key |-> i, size |-> sizes[i]]] :
     sizes \in BoundedSeq({1, 3, 7, 8}, length)}

\* The batches are the records, in order and each once, every batch is within
\* both bounds, and none ends before its bounds make it: the first record of
\* the next one would not have fitted.  A plan is refused only for a record
\* that no batch can hold (_plan_batches).
SplitInOrder(records) ==
  LET batches == PlanBatches(records)
      refused == \E i \in DOMAIN records :
                   records[i].size > MaxDocument \/ BaseSize + records[i].size > MaxBytes
  IN IF batches = Exceeded THEN refused
     ELSE /\ ~ refused
          /\ FlattenSeq(batches) = records
          /\ \A i \in DOMAIN batches :
               /\ batches[i] # <<>>
               /\ Len(batches[i]) <= MaxRecords
               /\ EncodedSize(batches[i]) <= MaxBytes
               /\ i > 1 => \/ Len(batches[i - 1]) = MaxRecords
                           \/ EncodedSize(batches[i - 1]) + batches[i][1].size > MaxBytes
ASSUME SplitAssumption == \A records \in Sequences(5) : SplitInOrder(records)

-----------------------------------------------------------------------------
(* The plans.                                                              *)

Document(k, p) == [kind |-> "document", key |-> k, value |-> p]
Chunk(k, text) == [kind |-> "chunk", key |-> k, value |-> text]

MCDocuments == [p \in Plan |-> {Document(1, p)}]
MCChunks == [p \in Plan |->
  IF p = p1 THEN {Chunk(1, "a"), Chunk(2, "b"), Chunk(3, "c")}
            ELSE {Chunk(1, "a"), Chunk(2, "x")}]

\* Documents and chunks are split apart, each in the order of their keys.
SplitOf(records) ==
  LET inOrder == SetToSortSeq(records, LAMBDA r, s : r.key < s.key)
      batches == PlanBatches([i \in DOMAIN inOrder |-> [key |-> inOrder[i].key, size |-> 1]])
  IN [b \in DOMAIN batches |->
        {r \in records : \E i \in DOMAIN batches[b] : batches[b][i].key = r.key}]
MCBatches == [p \in Plan |->
  <<MCDocuments[p], {r \in MCChunks[p] : r.key <= 2}>>
    \o (IF p = p1 THEN <<{Chunk(3, "c")}>> ELSE <<>>)]
ASSUME BatchesAreSplit ==
  \A p \in Plan : MCBatches[p] = SplitOf(MCDocuments[p]) \o SplitOf(MCChunks[p])

===============================================================================
