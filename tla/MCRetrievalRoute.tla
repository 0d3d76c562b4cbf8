--------------------------- MODULE MCRetrievalRoute ---------------------------
(* Two versions of two signers, and policies that rotate, roll back, or     *)
(* clash in their generation or in their version; and, as assumptions that  *)
(* are evaluated before the run, what the grounding functions of a request  *)
(* compute over every small corpus.                                         *)
EXTENDS RetrievalRoute, TLC

CONSTANTS v1, v2, s1, s2

MCSignerOf == (v1 :> s1) @@ (v2 :> s2)
PolicyOf(version, generation, trusted) ==
  [version |-> version, generation |-> generation, trusted |-> trusted]
MCPolicy ==
  {PolicyOf("a", 1, {s1, s2}), PolicyOf("b", 2, {s1, s2}), PolicyOf("c", 2, {s1}),
   PolicyOf("a", 3, {s1, s2})}

-----------------------------------------------------------------------------
(* Grounding.                                                              *)

\* Every corpus of at most n chunks of the documents given, within the
\* threshold of 2 or beyond it; the chunks of document 2 may disagree about its
\* source.
Chunk(documents) ==
  {c \in [document : documents, index : {0, 1}, distance : {2, 3}, source : {1, 2}] :
     c.source = 2 => c.document = 2}
Corpora(documents, n) ==
  UNION {{{[id |-> i, document |-> chunks[i].document, index |-> chunks[i].index,
            distance |-> chunks[i].distance, size |-> chunks[i].index + 1,
            source |-> chunks[i].source] : i \in 1 .. k} :
          chunks \in [1 .. k -> Chunk(documents)]} : k \in 0 .. n}

Two == INSTANCE Grounding
  WITH MaxResults <- 2, MaxDistance <- 2, MaxContext <- 4, MaxCitations <- 1
Three == INSTANCE Grounding
  WITH MaxResults <- 3, MaxDistance <- 2, MaxContext <- 4, MaxCitations <- 2

ASSUME LimitsAssumption == Two!Limits /\ Three!Limits

\* The answer does not depend on which of several equally near rows the store
\* happened to return: the adapter refuses a result whose cut is arbitrary, and
\* otherwise has the very chunks of the local store (_validated_result).
ASSUME CutIsNotArbitrary ==
  \A corpus \in Corpora({2}, 4) :
    LET results == Two!FirestoreResults(corpus)
    IN /\ \A r, s \in results : r = s
       /\ results # {}
       /\ \A r \in results : r \in {Two!Malformed, Two!LocalResult(corpus)}

\* The provider is given support exactly when the result does not count as
\* refused by its best distance, and then every chunk of it is within the
\* threshold and of a cited document, every cited document has a chunk in it,
\* none is cited twice, and both limits hold (compile_grounding_bundle).
ASSUME SupportIsCited ==
  \A corpus \in Corpora({1, 2, 3}, 3) :
    LET result == Three!LocalResult(corpus)
        bundle == Three!CompileGroundingBundle(result)
        documents == {bundle.chunks[i].document : i \in DOMAIN bundle.chunks}
    IN result # Three!Malformed =>
         /\ (bundle = Three!Refused) = Three!RefusedByBest(result.chunks)
         /\ bundle.kind = "bundle" =>
              /\ \A i \in DOMAIN bundle.chunks : bundle.chunks[i].distance <= 2
              /\ {bundle.citations[i] : i \in DOMAIN bundle.citations} = documents
              /\ \A i, j \in DOMAIN bundle.citations :
                   bundle.citations[i] = bundle.citations[j] => i = j
              /\ Three!ContextSize(bundle.chunks) <= 4 /\ Len(bundle.citations) <= 2
=============================================================================
