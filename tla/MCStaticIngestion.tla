-------------------------- MODULE MCStaticIngestion ---------------------------
(* Two documents whose contents take no chunk, one or two, or are blank.    *)
EXTENDS StaticIngestion, TLC

CONSTANTS p1, p2, blank, image, short, other, long, title, renamed

MCChunkCount ==
  [b \in Bytes |-> IF b \in {blank, image} THEN 0 ELSE IF b = long THEN 2 ELSE 1]

-----------------------------------------------------------------------------

\* A stop between the two commits of a document left chunks of bytes that its
\* row does not vouch for.  An operator who is careful puts nothing else in the
\* corpus before a startup has got through.
Torn ==
  \E p \in Path : \E c \in vectors[p] : rows[p] = NoFile \/ c.bytes # rows[p].hash
CarefulNext == Startup \/ Stop \/ \E p \in Path : ~Torn /\ Edit(p)
CarefulSpec == IngestionInit /\ [][CarefulNext]_ingestionVars /\ WF_ingestionVars(Startup)

\* pipeline.py:63-64: "Re-ingesting the same document_id with unchanged bytes is
\* a no-op; changed bytes replace the old chunks."
ChangedBytesReplaceOldChunks == ReingestionReplaces
=============================================================================
