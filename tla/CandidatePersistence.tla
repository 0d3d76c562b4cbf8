------------------------- MODULE CandidatePersistence -------------------------
(***************************************************************************)
(* One exact corpus version in the durable candidate collections, and the  *)
(* calls that persist, attest and verify it (ingest/                       *)
(* candidate_persistence.py over candidate_firestore.py).  The store only  *)
(* creates: a batch of records lands whole, or not at all when a key of it *)
(* is taken.  The answer of a create may be lost, and the create may then  *)
(* land at any later time, or never.  Nothing but the store is shared by   *)
(* the calls, which may run in as many processes as one likes.             *)
(***************************************************************************)
EXTENDS Integers, Sequences, FiniteSets, FiniteSetsExt

CONSTANTS
  Caller,
  Plan,        \* plans made for the corpus version
  Signer,      \* identities that sign: algorithm and key
  None,
  Documents,   \* Documents[p]: the document records of a plan
  Chunks,      \* Chunks[p]: its chunk records
  Batches,     \* Batches[p]: the batches it is created in (_plan_batches)
  MaxRetries,  \* store retries, 0 or 1
  PageSize,    \* CANDIDATE_READ_PAGE_SIZE
  MaxFaults,   \* bound: lost answers, failed operations, cancelled calls
  MaxCalls     \* bound: calls of each caller

Header(p) == [kind |-> "candidate", key |-> 0, value |-> p]
Attestation(p, s) == [kind |-> "attestation", key |-> 0, value |-> [plan |-> p, signer |-> s]]
RecordsOf(p) == Documents[p] \union Chunks[p]

ASSUME PlansAssumption ==
  /\ None \notin Plan /\ None \notin Signer
  /\ \A p \in Plan :
       /\ \A r \in Documents[p] : r.kind = "document" /\ r.key \in Nat /\ r.value = p
       /\ \A r \in Chunks[p] : r.kind = "chunk" /\ r.key \in Nat
       /\ Batches[p] \in Seq(SUBSET RecordsOf(p)) /\ Batches[p] # <<>>

ASSUME BoundsAssumption ==
  MaxRetries \in {0, 1} /\ PageSize \in Nat \ {0} /\ MaxFaults \in Nat /\ MaxCalls \in Nat

VARIABLES
  store,    \* records of the version in the four collections
  pending,  \* creates whose answer was lost and that may still land
  call,     \* the call each caller is in
  receipts, \* receipts and evidence given out
  calls, faults

vars == <<store, pending, call, receipts, calls, faults>>

-----------------------------------------------------------------------------
(* The store.                                                              *)

SameKey(r, s) == r.kind = s.kind /\ r.key = s.key
Taken(r) == \E s \in store : SameKey(r, s)
Differs(r) == Taken(r) /\ r \notin store
Free(batch) == \A r \in batch : ~ Taken(r)

\* A create whose caller was not told of its outcome lands, or is dropped.
Land(batch) ==
  /\ batch \in pending
  /\ store' = IF Free(batch) THEN store \union batch ELSE store
  /\ pending' = pending \ {batch}
  /\ UNCHANGED <<call, receipts, calls, faults>>

Drop(batch) ==
  /\ batch \in pending
  /\ pending' = pending \ {batch}
  /\ UNCHANGED <<store, call, receipts, calls, faults>>

-----------------------------------------------------------------------------
(* A call.                                                                 *)

Idle ==
  [step |-> "idle", role |-> "persist", plan |-> None, signer |-> None, batch |-> 1,
   missing |-> {}, tries |-> 0, created |-> FALSE, present |-> FALSE, later |-> FALSE,
   known |-> FALSE, listed |-> {}]

At(c, step) == call[c].step = step

Goto(c, new) == call' = [call EXCEPT ![c] = new]
Step(c, step) == [call[c] EXCEPT !.step = step]

Ended(c) == Goto(c, Idle) /\ UNCHANGED <<store, pending, receipts, calls, faults>>
Moved(c, new) == Goto(c, new) /\ UNCHANGED <<store, pending, receipts, calls, faults>>

Begin(c, new) ==
  /\ At(c, "idle") /\ calls[c] < MaxCalls
  /\ calls' = [calls EXCEPT ![c] = @ + 1]
  /\ Goto(c, new)
  /\ UNCHANGED <<store, pending, receipts, faults>>

PersistCandidate(c, p, s) ==
  Begin(c, [Idle EXCEPT !.step = "header", !.plan = p, !.signer = s])

VerifyCandidate(c, s) ==
  Begin(c, [Idle EXCEPT !.step = "durableHeader", !.role = "verify", !.signer = s])

\* What a call is creating, at the steps that create.
Creating(c) ==
  CASE At(c, "createHeader") -> {Header(call[c].plan)}
    [] At(c, "createMissing") -> call[c].missing
    [] At(c, "attest") -> {Attestation(call[c].plan, call[c].signer)}
    [] OTHER -> {}

\* As below, by a store that overwrites.
KnownWrite(c, new) ==
  /\ store' = {r \in store : \A s \in Creating(c) : ~ SameKey(r, s)} \union Creating(c)
  /\ Goto(c, new)
  /\ UNCHANGED <<pending, receipts, calls, faults>>

\* The store answers that all of it was created.
KnownCreate(c, new) ==
  /\ Free(Creating(c))
  /\ store' = store \union Creating(c)
  /\ Goto(c, new)
  /\ UNCHANGED <<pending, receipts, calls, faults>>

\* It answers that a key is taken, or nothing in time.
UnknownCreate(c, new) ==
  /\ Goto(c, new)
  /\ \/ ~ Free(Creating(c)) /\ UNCHANGED <<pending, faults>>
     \/ /\ faults < MaxFaults /\ faults' = faults + 1
        /\ pending' = pending \union {Creating(c)}
  /\ UNCHANGED <<store, receipts, calls>>

\* A read, a signature or a create fails for good, or the call is cancelled or
\* its process dies; a create under way is left to itself.
Interrupt(c) ==
  /\ ~ At(c, "idle")
  /\ faults < MaxFaults /\ faults' = faults + 1
  /\ pending' \in {pending, pending \union ({Creating(c)} \ {{}})}
  /\ Goto(c, Idle)
  /\ UNCHANGED <<store, receipts, calls>>

-----------------------------------------------------------------------------
(* The header, which gives the version to the plan.                        *)

GetHeader(c) ==
  /\ At(c, "header")
  /\ LET header == Header(call[c].plan)
     IN \/ Differs(header) /\ Ended(c)
        \/ header \in store /\ Moved(c, [Step(c, "existing") EXCEPT !.present = TRUE])
        \/ ~ Taken(header) /\ Moved(c, Step(c, "createHeader"))

CreateHeader(c) ==
  /\ At(c, "createHeader")
  /\ \/ KnownCreate(c, [Step(c, "checkHeader") EXCEPT !.created = (call[c].tries = 0)])
     \/ UnknownCreate(c, Step(c, "rereadHeader"))

\* As below, taking a header that is there for this call's own.
RereadHeaderAsOwn(c) ==
  /\ At(c, "rereadHeader")
  /\ LET header == Header(call[c].plan)
     IN \/ header \in store /\ Moved(c, [Step(c, "checkHeader") EXCEPT !.created = TRUE])
        \/ header \notin store /\ Ended(c)

RereadHeader(c) ==
  /\ At(c, "rereadHeader")
  /\ LET header == Header(call[c].plan)
     IN \/ header \in store /\ Moved(c, Step(c, "checkHeader"))
        \/ Differs(header) /\ Ended(c)
        \/ /\ ~ Taken(header)
           /\ IF call[c].tries < MaxRetries
              THEN Moved(c, [Step(c, "createHeader") EXCEPT !.tries = 1])
              ELSE Ended(c)

CheckHeader(c) ==
  /\ At(c, "checkHeader")
  /\ IF Header(call[c].plan) \in store
     THEN Moved(c, [Step(c, "existing") EXCEPT !.tries = 0])
     ELSE Ended(c)

-----------------------------------------------------------------------------
(* The batches of documents and chunks: what is missing is created.        *)

NextBatch(c, new) ==
  IF call[c].batch < Len(Batches[call[c].plan])
  THEN [new EXCEPT !.step = "existing", !.batch = @ + 1, !.missing = {}, !.tries = 0]
  ELSE [new EXCEPT !.step = "readback", !.missing = {}, !.tries = 0]

Missing(records) == {r \in records : ~ Taken(r)}

GetExisting(c) ==
  /\ At(c, "existing")
  /\ LET batch == Batches[call[c].plan][call[c].batch]
     IN IF \E r \in batch : Differs(r) THEN Ended(c)
        ELSE IF Missing(batch) = {} THEN Moved(c, NextBatch(c, call[c]))
        ELSE Moved(c, [Step(c, "createMissing") EXCEPT !.missing = Missing(batch)])

CreateMissing(c) ==
  /\ At(c, "createMissing")
  /\ \/ KnownCreate(c, NextBatch(c, [call[c] EXCEPT !.later = TRUE]))
     \/ UnknownCreate(c, Step(c, "reread"))

\* As below, without the confirmation that comes before a retry.
RereadToRetry(c) ==
  /\ At(c, "reread")
  /\ IF call[c].tries < MaxRetries
     THEN Moved(c, [Step(c, "createMissing") EXCEPT !.tries = 1])
     ELSE Ended(c)

Reread(c) ==
  /\ At(c, "reread")
  /\ LET missing == Missing(call[c].missing)
     IN IF \E r \in call[c].missing : Differs(r) THEN Ended(c)
        ELSE IF missing = {} THEN Moved(c, NextBatch(c, call[c]))
        ELSE IF call[c].tries < MaxRetries
        THEN Moved(c, [Step(c, "createMissing") EXCEPT !.tries = 1, !.missing = missing])
        ELSE Ended(c)

-----------------------------------------------------------------------------
(* The read back, and the read of a verification.                          *)

Readback(c) ==
  /\ At(c, "readback")
  /\ IF Header(call[c].plan) \in store THEN Moved(c, Step(c, "documents")) ELSE Ended(c)

GetDurableHeader(c) ==
  /\ At(c, "durableHeader")
  /\ \/ \E p \in Plan :
          /\ Header(p) \in store
          /\ Moved(c, [Step(c, "documents") EXCEPT !.plan = p])
     \/ /\ \A p \in Plan : Header(p) \notin store
        /\ Ended(c)

\* A page of the records of a kind after the last key listed, and whether the
\* look-ahead saw one more.
After(kind, listed) ==
  {r \in store : r.kind = kind /\ \A s \in listed : s.key < r.key}
Page(kind, listed) ==
  {r \in After(kind, listed) :
     Cardinality({s \in After(kind, listed) : s.key < r.key}) < PageSize}

\* What the plan of the header has, record for record.
OfPlan(listed, expected) == listed = expected

\* The expected number of records, no cursor but where one is due, and in the
\* end the records of the plan.
ListPage(c, step, kind, expected, next) ==
  /\ At(c, step)
  /\ LET page == Page(kind, call[c].listed)
         more == page # After(kind, call[c].listed)
         remaining == Cardinality(expected) - Cardinality(call[c].listed)
         listed == call[c].listed \union page
     IN IF more # (remaining > PageSize) \/ (~ more /\ ~ OfPlan(listed, expected))
        THEN Ended(c)
        ELSE Moved(c, IF more THEN [call[c] EXCEPT !.listed = listed]
                      ELSE [Step(c, next) EXCEPT !.listed = {}])

ListDocuments(c) == ListPage(c, "documents", "document", Documents[call[c].plan], "chunks")
ListChunks(c) == ListPage(c, "chunks", "chunk", Chunks[call[c].plan], "attestation")

-----------------------------------------------------------------------------
(* The attestation.                                                        *)

Disposition(c) ==
  CASE call[c].role = "verify" -> "verified"
    [] call[c].created -> "created"
    [] call[c].present /\ call[c].later -> "resumed"
    [] OTHER -> "confirmed"

Receipt(c) ==
  [by |-> c, nth |-> calls[c], plan |-> call[c].plan, signer |-> call[c].signer,
   disposition |-> Disposition(c)]

\* The attestation that was read must be of this plan, by the caller's identity.
VerifyAttestation(c) ==
  IF Attestation(call[c].plan, call[c].signer) \in store
  THEN /\ receipts' = receipts \union {Receipt(c)}
       /\ Goto(c, Idle)
       /\ UNCHANGED <<store, pending, calls, faults>>
  ELSE Ended(c)

Attested == \E r \in store : r.kind = "attestation"

GetAttestation(c) ==
  /\ At(c, "attestation")
  /\ \/ Attested /\ VerifyAttestation(c)
     \/ /\ ~ Attested
        /\ IF call[c].role = "persist" THEN Moved(c, Step(c, "sign")) ELSE Ended(c)

Sign(c) == At(c, "sign") /\ Moved(c, Step(c, "attest"))

CreateAttestation(c) ==
  /\ At(c, "attest")
  /\ \/ KnownCreate(c, [Step(c, "confirm") EXCEPT !.later = TRUE, !.known = TRUE])
     \/ UnknownCreate(c, Step(c, "confirm"))

ConfirmAttestation(c) ==
  /\ At(c, "confirm")
  /\ \/ Attested /\ VerifyAttestation(c)
     \/ /\ ~ Attested
        /\ IF ~ call[c].known /\ call[c].tries < MaxRetries
           THEN Moved(c, [Step(c, "attest") EXCEPT !.tries = 1])
           ELSE Ended(c)

-----------------------------------------------------------------------------

Init ==
  /\ store = {} /\ pending = {} /\ receipts = {}
  /\ call = [c \in Caller |-> Idle]
  /\ calls = [c \in Caller |-> 0] /\ faults = 0

Progress(c) ==
  \/ GetHeader(c) \/ CreateHeader(c) \/ RereadHeader(c) \/ CheckHeader(c)
  \/ GetExisting(c) \/ CreateMissing(c) \/ Reread(c)
  \/ Readback(c) \/ GetDurableHeader(c) \/ ListDocuments(c) \/ ListChunks(c)
  \/ GetAttestation(c) \/ Sign(c) \/ CreateAttestation(c) \/ ConfirmAttestation(c)

Next ==
  \/ \E c \in Caller :
       \/ \E p \in Plan, s \in Signer : PersistCandidate(c, p, s)
       \/ \E s \in Signer : VerifyCandidate(c, s)
       \/ Progress(c)
       \/ Interrupt(c)
  \/ \E batch \in pending : Land(batch) \/ Drop(batch)

Spec == Init /\ [][Next]_vars

\* A call under way goes on: every operation of it is bounded by a timeout.
FairSpec == Spec /\ \A c \in Caller : WF_vars(Progress(c))

-----------------------------------------------------------------------------
(* Properties.                                                             *)

AllRecords ==
  {Header(p) : p \in Plan} \union (UNION {RecordsOf(p) : p \in Plan})
    \union {Attestation(p, s) : p \in Plan, s \in Signer}

Steps ==
  {"idle", "header", "createHeader", "rereadHeader", "checkHeader", "existing",
   "createMissing", "reread", "readback", "durableHeader", "documents", "chunks",
   "attestation", "sign", "attest", "confirm"}

CallType ==
  [step : Steps, role : {"persist", "verify"}, plan : Plan \union {None},
   signer : Signer \union {None}, batch : Nat, missing : SUBSET AllRecords,
   tries : {0, 1}, created : BOOLEAN, present : BOOLEAN, later : BOOLEAN,
   known : BOOLEAN, listed : SUBSET AllRecords]

\* The type of the state: records of the plans and their attestations, creates
\* that are sets of them, calls with their progress, receipts with one of the
\* four dispositions.
PersistenceTypeOK ==
  /\ store \subseteq AllRecords
  /\ pending \subseteq SUBSET AllRecords
  /\ call \in [Caller -> CallType]
  /\ calls \in [Caller -> Nat] /\ faults \in Nat
  /\ receipts \subseteq
       [by : Caller, nth : Nat, plan : Plan, signer : Signer,
        disposition : {"created", "resumed", "confirmed", "verified"}]

Holder == IF \E p \in Plan : Header(p) \in store
          THEN CHOOSE p \in Plan : Header(p) \in store ELSE None
Stored == {r \in store : r.kind \in {"document", "chunk"}}
AttestedBy == IF Attested
              THEN (CHOOSE r \in store : r.kind = "attestation").value.signer ELSE None

Candidate == INSTANCE ImmutableCandidate WITH
  holder <- Holder, stored <- Stored, attestedBy <- AttestedBy

\* However calls interleave, fail and are replayed, and whenever a create that
\* was given up lands, the version belongs to the plan of its header, holds
\* records of no other, is attested once and only whole, and every receipt and
\* every verification is about that plan, complete and attested by that signer.
ImplementsCandidate == Candidate!Spec

\* At most one receipt says that the version was created: a create that was
\* retried, or whose answer was lost, is never reported as this call's own.
CreatedOnce ==
  \A r1, r2 \in receipts :
    r1.disposition = "created" /\ r2.disposition = "created" => r1 = r2

\* A call that starts when the version is its plan's, and that meets no fault,
\* ends with its receipt, whatever part of the version an earlier call left and
\* whatever else lands meanwhile - or somebody else's signature is the one that
\* was attested.
ReplaySucceeds ==
  \A c \in Caller : \A n \in 1..MaxCalls : \A s \in Signer :
    (/\ At(c, "header") /\ calls[c] = n /\ call[c].signer = s
     /\ faults = MaxFaults /\ Header(call[c].plan) \in store)
    ~> ((\E r \in receipts : r.by = c /\ r.nth = n) \/ AttestedBy \notin {s, None})
=============================================================================
