------------------------------ MODULE Grounding ------------------------------
(***************************************************************************)
(* From a corpus and a query to what the provider is given: the nearest    *)
(* chunks by the Firestore adapter or by the local SQLite store, the       *)
(* checks of the result, and the grounding bundle compiled from it.  The   *)
(* corpus is the set of its chunks, each with its distance from the query, *)
(* its size once serialised, and the source and citation of its document.  *)
(***************************************************************************)
EXTENDS Integers, Sequences, FiniteSets, SequencesExt

CONSTANTS
  MaxResults,   \* max_results of the request
  MaxDistance,  \* max_distance of the request
  MaxContext,   \* RETRIEVED_CONTEXT_MAX_CHARS
  MaxCitations  \* CITATIONS_MAX_COUNT

\* What the limits are.
Limits ==
  /\ MaxResults \in Nat \ {0} /\ MaxDistance \in Nat
  /\ MaxContext \in Nat /\ MaxCitations \in Nat

\* What a step answers: a failure, no bundle (a refusal), or chunks and citations.
Answer(kind, chunks, citations) == [kind |-> kind, chunks |-> chunks, citations |-> citations]
Malformed == Answer("malformed_result", <<>>, <<>>)
TooLarge == Answer("context_too_large", <<>>, <<>>)
Refused == Answer("refused", <<>>, <<>>)

-----------------------------------------------------------------------------
(* The adapters.                                                           *)

\* find_nearest returns some nearest rows: which of equally distant ones is
\* not specified.
FindNearest(corpus, limit) ==
  {rows \in SUBSET corpus :
     /\ Cardinality(rows) = IF Cardinality(corpus) < limit THEN Cardinality(corpus) ELSE limit
     /\ \A r \in rows : \A s \in corpus \ rows : r.distance <= s.distance}

Before(a, b) == a.distance < b.distance \/ (a.distance = b.distance /\ a.id < b.id)
Sorted(rows) == SetToSortSeq(rows, Before)

\* validate_chunk_identities: one chunk per id and position, one source and
\* citation per document.
Consistent(chunks) ==
  \A a, b \in chunks :
    /\ a # b => a.id # b.id /\ <<a.document, a.index>> # <<b.document, b.index>>
    /\ a.document = b.document => a.source = b.source

Result(chunks) ==
  IF Consistent(ToSet(chunks)) THEN Answer("result", chunks, <<>>) ELSE Malformed

\* One row more than asked for shows whether the last of them is arbitrary.
FirestoreResult(rows) ==
  LET chunks == Sorted(rows)
      n == Len(chunks)
  IN IF n <= MaxResults THEN Result(chunks)
     ELSE IF chunks[n - 1].distance = chunks[n].distance THEN Malformed
     ELSE Result(Front(chunks))

\* DocumentCollection.query orders by distance and id before it cuts.
LocalResult(corpus) ==
  LET chunks == Sorted(corpus)
  IN Result(IF Len(chunks) <= MaxResults THEN chunks ELSE SubSeq(chunks, 1, MaxResults))

FirestoreResults(corpus) == {FirestoreResult(rows) : rows \in FindNearest(corpus, MaxResults + 1)}

-----------------------------------------------------------------------------
(* The grounding bundle (compile_grounding_bundle).                        *)

\* The result's own idea of a refusal.
BestDistance(chunks) ==
  CHOOSE d \in {chunks[i].distance : i \in DOMAIN chunks} :
    \A i \in DOMAIN chunks : d <= chunks[i].distance
RefusedByBest(chunks) == chunks = <<>> \/ BestDistance(chunks) > MaxDistance

Eligible(chunks) == SelectSeq(chunks, LAMBDA c : c.distance <= MaxDistance)

ContextSize(chunks) == FoldLeft(LAMBDA n, c : n + c.size, 0, chunks)

Citations(chunks) ==
  FoldLeft(LAMBDA cited, c : IF Contains(cited, c.document) THEN cited
                             ELSE Append(cited, c.document), <<>>, chunks)

CompileGroundingBundle(result) ==
  IF result = Malformed THEN Malformed
  ELSE LET eligible == Eligible(result.chunks)
       IN IF eligible = <<>> THEN Refused
          ELSE IF ContextSize(eligible) > MaxContext THEN TooLarge
          ELSE IF Len(Citations(eligible)) > MaxCitations THEN Malformed
          ELSE Answer("bundle", eligible, Citations(eligible))
=============================================================================
