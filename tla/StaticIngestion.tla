--------------------------- MODULE StaticIngestion ----------------------------
(***************************************************************************)
(* Startup ingestion of a mounted corpus (ingest/startup.py,               *)
(* ingest/pipeline.py, vectorstore.py, the lifespan of main.py).  Chunks   *)
(* are committed in one SQLite file and the documents table in another,    *)
(* in that order; the process may stop between any two commits, and the    *)
(* operator edits the corpus directory whenever he likes.                  *)
(*                                                                         *)
(* The order of the paths is left open: no property depends on it.  Paths  *)
(* of other ingestion (documents not named corpus:...) are not modelled.   *)
(***************************************************************************)
EXTENDS Integers

CONSTANTS
  Path,          \* documents a corpus may hold
  Bytes,         \* contents of a document
  Blank,         \* those that are only white space
  Title,         \* citations of the provenance manifest
  ChunkCount,    \* ChunkCount[b]: chunks of the text extracted from b
  NoFile,
  StopPoints,    \* phases in which the process may stop
  EditPhases     \* phases in which the operator edits the corpus

Phase == {"down", "ingesting", "replaced", "pruning", "pruned", "serving"}

ASSUME IngestionAssumption ==
  /\ Blank \subseteq Bytes
  /\ ChunkCount \in [Bytes -> Nat]
  /\ NoFile \notin [bytes : Bytes, title : Title]
  /\ NoFile \notin [hash : Bytes, count : Nat]
  /\ StopPoints \subseteq Phase \ {"down"} /\ EditPhases \subseteq Phase

VARIABLES
  files,      \* the corpus directory: documents with their citations
  published,  \* the manifest lists exactly those documents and their hashes
  mounted,    \* what the running process has read of the directory
  phase,      \* of the process
  pending,    \* documents ingest_corpus has still to ingest
  working,    \* the document whose chunks are committed and row is not
  rows,       \* the documents table: hash and chunk_count
  vectors     \* the chunks of each document in the vector store

corpusVars == <<files, published>>
processVars == <<mounted, phase, pending, working>>
ingestionVars == <<corpusVars, processVars, rows, vectors>>

-----------------------------------------------------------------------------

File == [bytes : Bytes, title : Title]
Row == [hash : Bytes, count : Nat]
Chunk == [index : Nat, bytes : Bytes, title : Title]

\* chunk_text of the extracted text, with the metadata of _chunk_metadatas.
Chunks(file) ==
  {[index |-> i, bytes |-> file.bytes, title |-> file.title] :
     i \in 0 .. ChunkCount[file.bytes] - 1}

\* Documents that are present and not blank.
Present(corpus) == {p \in Path : corpus[p] # NoFile /\ corpus[p].bytes \notin Blank}

\* The chunks named by _chunk_ids(document, count).
Named(chunks, count) == {c \in chunks : c.index < count}

\* The comparison of ids and metadatas; the text of a chunk is not compared.
Intact(chunks, count, title) ==
  \A i \in 0 .. count - 1 : \E c \in chunks : c.index = i /\ c.title = title

\* Mutant of Unchanged: the hash alone decides.
UnchangedByHash(p) == rows[p] # NoFile /\ rows[p].hash = mounted[p].bytes

Unchanged(p) ==
  /\ rows[p] # NoFile
  /\ rows[p].hash = mounted[p].bytes
  /\ Intact(vectors[p], rows[p].count, mounted[p].title)

\* Mutant of Kept: the identifiers to delete are not passed.
KeptAll(p) == vectors[p]

\* What replace leaves of the document's chunks before it inserts.
Kept(p) ==
  IF rows[p] = NoFile THEN vectors[p] ELSE vectors[p] \ Named(vectors[p], rows[p].count)

\* An identifier to insert is already there: the primary key refuses it.
Conflicts(p) ==
  \E c \in Kept(p) : \E new \in Chunks(mounted[p]) : c.index = new.index

Stale == {p \in Path : rows[p] # NoFile /\ p \notin Present(mounted)}

-----------------------------------------------------------------------------

IngestionInit ==
  /\ files \in [Path -> File \cup {NoFile}] /\ published \in BOOLEAN
  /\ mounted = [p \in Path |-> NoFile]
  /\ phase = "down" /\ pending = {} /\ working = NoFile
  /\ rows = [p \in Path |-> NoFile]
  /\ vectors = [p \in Path |-> {}]

\* The operator writes or removes a document, or changes its citation; the
\* manifest is made to agree with the directory, or not yet.
Edit(p) ==
  /\ phase \in EditPhases
  /\ \E file \in File \cup {NoFile} : files' = [files EXCEPT ![p] = file]
  /\ published' \in BOOLEAN
  /\ UNCHANGED <<processVars, rows, vectors>>

\* ingest_corpus up to its loop: the directory is read once, and a directory
\* with no documents or with another manifest is refused before any write.
Start ==
  /\ phase = "down"
  /\ published /\ \E p \in Path : files[p] # NoFile
  /\ mounted' = files
  /\ phase' = "ingesting" /\ pending' = Present(files)
  /\ UNCHANGED <<corpusVars, working, rows, vectors>>

\* ingest_upload of a document that is already in.
Skip(p) ==
  /\ phase = "ingesting" /\ p \in pending
  /\ Unchanged(p)
  /\ pending' = pending \ {p}
  /\ UNCHANGED <<corpusVars, mounted, phase, working, rows, vectors>>

\* ingest_upload of any other: DocumentCollection.replace commits.
Replace(p) ==
  /\ phase = "ingesting" /\ p \in pending
  /\ ~Unchanged(p) /\ ~Conflicts(p)
  /\ vectors' = [vectors EXCEPT ![p] = Kept(p) \cup Chunks(mounted[p])]
  /\ phase' = "replaced" /\ working' = p
  /\ UNCHANGED <<corpusVars, mounted, pending, rows>>

\* The insertion fails: the transaction is rolled back and startup with it.
Conflict(p) ==
  /\ phase = "ingesting" /\ p \in pending
  /\ ~Unchanged(p) /\ Conflicts(p)
  /\ phase' = "down" /\ pending' = {}
  /\ UNCHANGED <<corpusVars, mounted, working, rows, vectors>>

\* The row is written, and the next document is taken.
CommitRow ==
  /\ phase = "replaced"
  /\ LET bytes == mounted[working].bytes
     IN rows' = [rows EXCEPT ![working] = [hash |-> bytes, count |-> ChunkCount[bytes]]]
  /\ pending' = pending \ {working}
  /\ phase' = "ingesting" /\ working' = NoFile
  /\ UNCHANGED <<corpusVars, mounted, vectors>>

\* The results are counted: each is the chunk_count its row now has.
Counted == \E p \in Present(mounted) : rows[p].count > 0

Refuse ==
  /\ phase = "ingesting" /\ pending = {}
  /\ ~Counted
  /\ phase' = "down"
  /\ UNCHANGED <<corpusVars, mounted, pending, working, rows, vectors>>

\* Mutant of Prune: reconciliation does not wait for the documents.
PruneEarly ==
  /\ phase = "ingesting"
  /\ phase' = "pruning"
  /\ UNCHANGED <<corpusVars, mounted, pending, working, rows, vectors>>

Prune ==
  /\ phase = "ingesting" /\ pending = {}
  /\ Counted
  /\ phase' = "pruning"
  /\ UNCHANGED <<corpusVars, mounted, pending, working, rows, vectors>>

\* The chunks of a document no longer in the corpus, and then its row.
DeleteChunks(p) ==
  /\ phase = "pruning" /\ p \in Stale
  /\ vectors' = [vectors EXCEPT ![p] = @ \ Named(@, rows[p].count)]
  /\ phase' = "pruned" /\ working' = p
  /\ UNCHANGED <<corpusVars, mounted, pending, rows>>

DeleteRow ==
  /\ phase = "pruned"
  /\ rows' = [rows EXCEPT ![working] = NoFile]
  /\ phase' = "pruning" /\ working' = NoFile
  /\ UNCHANGED <<corpusVars, mounted, pending, vectors>>

\* corpus_ready: retrieval ranks every chunk the vector store holds.
Serve ==
  /\ phase = "pruning" /\ Stale = {}
  /\ phase' = "serving"
  /\ UNCHANGED <<corpusVars, mounted, pending, working, rows, vectors>>

\* The process is killed, or an exception (an embedding provider, a parser, a
\* disk) ends the lifespan: what is committed is all that is left.
Stop ==
  /\ phase \in StopPoints
  /\ phase' = "down" /\ pending' = {} /\ working' = NoFile
  /\ UNCHANGED <<corpusVars, mounted, rows, vectors>>

Ingest == \E p \in Path : Skip(p) \/ Replace(p) \/ Conflict(p) \/ DeleteChunks(p)
Startup == Start \/ Ingest \/ CommitRow \/ Refuse \/ Prune \/ DeleteRow \/ Serve

IngestionNext == Startup \/ Stop \/ \E p \in Path : Edit(p)

IngestionSpec == IngestionInit /\ [][IngestionNext]_ingestionVars

\* Startup is straight-line code; that a process that is down is started again
\* is the operator's doing (docs/RELEASE.md, section 4).
FairSpec == IngestionSpec /\ WF_ingestionVars(Startup)

-----------------------------------------------------------------------------

IngestionTypeOK ==
  /\ files \in [Path -> File \cup {NoFile}] /\ published \in BOOLEAN
  /\ mounted \in [Path -> File \cup {NoFile}]
  /\ phase \in Phase /\ pending \subseteq Path
  /\ working \in Path \cup {NoFile}
  /\ rows \in [Path -> Row \cup {NoFile}]
  /\ vectors \in [Path -> SUBSET Chunk]

\* A process that serves has exactly the chunks of the corpus it read: every
\* chunk of every document, none of an earlier version of one, and none of a
\* document that is gone, whatever earlier startups left behind.
ServesTheCorpus ==
  phase = "serving" =>
    \A p \in Path :
      vectors[p] = IF p \in Present(mounted) THEN Chunks(mounted[p]) ELSE {}

\* When ingest_upload is done with a document, the vector store holds the
\* chunks of its bytes and citation and nothing else of that document.
ReingestionReplaces ==
  [][\A p \in pending \ pending' :
       phase' # "down" => vectors'[p] = Chunks(mounted[p])]_ingestionVars

\* Chunks of a document that left the corpus are deleted only when every
\* document that is in the corpus has its own: a startup that fails on one
\* takes nothing away.
PrunedWhenWhole ==
  [][\A p \in Path \ Present(mounted) :
       vectors'[p] # vectors[p] =>
         \A q \in Present(mounted) : vectors[q] = Chunks(mounted[q])]_ingestionVars

\* Once nobody edits a corpus with text, its manifest agrees with it, and the
\* process is no longer stopped from outside, startup reaches serving, unless
\* chunks that no row counts are in the way for good: those that a stop between
\* the two commits of a document left (ingest_corpus, replace).
Servable ==
  published /\ \E p \in Present(files) : ChunkCount[files[p].bytes] > 0
Stranded ==
  \E p \in Path : \E c \in vectors[p] : rows[p] = NoFile \/ c.index >= rows[p].count
Recovers ==
  <>[][Startup]_ingestionVars /\ <>[]Servable => <>[](phase = "serving") \/ <>[]Stranded

=============================================================================
