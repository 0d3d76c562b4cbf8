--------------------- MODULE CandidatePersistence_proofs ---------------------
(***************************************************************************)
(* Proofs about the durable candidate, for any callers, plans, signers,    *)
(* page size and numbers of calls and faults.                              *)
(*                                                                         *)
(* Nothing removes a record, so all a call has seen stays true.  What must *)
(* be invariant is that whatever can still reach the store is GOOD: the    *)
(* header of a plan, records of the plan that holds the version, or an     *)
(* attestation of a plan whose records are all there.  Creates that were   *)
(* given up are good for as long as they are pending (StrayInv), because   *)
(* the calls that made them had seen enough (CallsInv); a good create that  *)
(* lands keeps the store well-formed (StoreInv) and is a step of the       *)
(* abstract candidate.                                                     *)
(***************************************************************************)
EXTENDS CandidatePersistence, SequenceTheorems, TLAPS

Early == {"header", "createHeader", "rereadHeader", "checkHeader"}
Batching == {"existing", "createMissing", "reread"}
Signing == {"attestation", "sign", "attest", "confirm"}
Held == Batching \union {"readback", "documents", "chunks"} \union Signing

Whole(p) == Header(p) \in store /\ RecordsOf(p) \subseteq store

StoreInv ==
  /\ store \subseteq AllRecords
  /\ \A p, q \in Plan : Header(p) \in store /\ Header(q) \in store => p = q
  /\ \A r \in store : r.kind \in {"document", "chunk"} =>
       \E p \in Plan : Header(p) \in store /\ r \in RecordsOf(p)
  /\ \A r, s \in store : r.kind = "attestation" /\ s.kind = "attestation" => r = s
  /\ \A r \in store : r.kind = "attestation" =>
       \E p \in Plan, s \in Signer : r = Attestation(p, s) /\ Whole(p)

Good(batch) ==
  \/ \E p \in Plan : batch = {Header(p)}
  \/ \E p \in Plan : Header(p) \in store /\ batch \subseteq RecordsOf(p)
  \/ \E p \in Plan, s \in Signer : batch = {Attestation(p, s)} /\ Whole(p)

StrayInv == \A batch \in pending : Good(batch)

\* What a call k has seen, by its step.
Seen(k, records) ==
  /\ k.step \in Early \union Held => k.plan \in Plan /\ k.signer \in Signer
  /\ k.step = "durableHeader" => k.signer \in Signer
  /\ k.step \in Early \union Batching => k.batch \in 1 .. Len(Batches[k.plan])
  /\ k.step \in Held => Header(k.plan) \in records
  /\ k.step \in {"createMissing", "reread"} =>
       k.missing \subseteq RecordsOf(k.plan) /\ k.missing # {}
  /\ k.listed \subseteq records
  /\ k.step \in {"chunks"} \union Signing => Documents[k.plan] \subseteq records
  /\ k.step \in Signing => Chunks[k.plan] \subseteq records

CallsInv == \A c \in Caller : Seen(call[c], store)

\* Who can say, or has said, that this call created the version.
ClaimInv ==
  /\ \A c \in Caller : call[c].created =>
       \E p \in Plan : Header(p) \in store
  /\ \A r \in receipts : r.disposition = "created" =>
       \E p \in Plan : Header(p) \in store
  /\ \A c, d \in Caller : call[c].created /\ call[d].created => c = d
  /\ \A r \in receipts, c \in Caller : ~ (r.disposition = "created" /\ call[c].created)
  /\ CreatedOnce

Inv ==
  /\ PersistenceTypeOK
  /\ StoreInv
  /\ StrayInv
  /\ CallsInv
  /\ ClaimInv

-----------------------------------------------------------------------------
(* Records.                                                                *)

LEMMA Records ==
  /\ \A p \in Plan : /\ Header(p) \in AllRecords
                     /\ Header(p).kind = "candidate" /\ Header(p).key = 0
                     /\ Header(p).value = p
                     /\ RecordsOf(p) \subseteq AllRecords
                     /\ Documents[p] \subseteq RecordsOf(p) /\ Chunks[p] \subseteq RecordsOf(p)
                     /\ RecordsOf(p) = Documents[p] \union Chunks[p]
                     /\ \A r \in RecordsOf(p) : r.kind \in {"document", "chunk"}
                     /\ \A r \in Documents[p] : r.kind = "document"
                     /\ \A r \in Chunks[p] : r.kind = "chunk"
  /\ \A p \in Plan, s \in Signer : /\ Attestation(p, s) \in AllRecords
                                   /\ Attestation(p, s).kind = "attestation"
                                   /\ Attestation(p, s).key = 0
                                   /\ Attestation(p, s).value.plan = p
                                   /\ Attestation(p, s).value.signer = s
  /\ \A r \in AllRecords :
       \/ \E p \in Plan : r = Header(p)
       \/ \E p \in Plan : r \in RecordsOf(p)
       \/ \E p \in Plan, s \in Signer : r = Attestation(p, s)
<1>1. ASSUME NEW p \in Plan
      PROVE  /\ Header(p).kind = "candidate" /\ Header(p).key = 0 /\ Header(p).value = p
             /\ Documents[p] \subseteq RecordsOf(p) /\ Chunks[p] \subseteq RecordsOf(p)
             /\ RecordsOf(p) = Documents[p] \union Chunks[p]
  BY DEF Header, RecordsOf
<1>2. ASSUME NEW p \in Plan PROVE Header(p) \in AllRecords /\ RecordsOf(p) \subseteq AllRecords
  <2> HIDE DEF Header, RecordsOf
  <2>1. Header(p) \in {Header(q) : q \in Plan}
    OBVIOUS
  <2>2. RecordsOf(p) \subseteq UNION {RecordsOf(q) : q \in Plan}
    OBVIOUS
  <2> QED BY <2>1, <2>2 DEF AllRecords
<1>3. ASSUME NEW p \in Plan
      PROVE  /\ \A r \in Documents[p] : r.kind = "document"
             /\ \A r \in Chunks[p] : r.kind = "chunk"
  BY PlansAssumption
<1>4. ASSUME NEW p \in Plan PROVE \A r \in RecordsOf(p) : r.kind \in {"document", "chunk"}
  BY <1>3 DEF RecordsOf
<1>5. ASSUME NEW p \in Plan, NEW s \in Signer
      PROVE  /\ Attestation(p, s).kind = "attestation"
             /\ Attestation(p, s).key = 0
             /\ Attestation(p, s).value.plan = p
             /\ Attestation(p, s).value.signer = s
  BY DEF Attestation
<1>6. ASSUME NEW p \in Plan, NEW s \in Signer PROVE Attestation(p, s) \in AllRecords
  <2> HIDE DEF Attestation
  <2>1. Attestation(p, s) \in {Attestation(q, t) : q \in Plan, t \in Signer}
    OBVIOUS
  <2> QED BY <2>1 DEF AllRecords
<1>7. ASSUME NEW r \in AllRecords
      PROVE  \/ \E p \in Plan : r = Header(p)
             \/ \E p \in Plan : r \in RecordsOf(p)
             \/ \E p \in Plan, s \in Signer : r = Attestation(p, s)
  <2> HIDE DEF Header, Attestation, RecordsOf
  <2>1. CASE r \in {Header(q) : q \in Plan}
    BY <2>1
  <2>2. CASE r \in UNION {RecordsOf(q) : q \in Plan}
    BY <2>2
  <2>3. CASE r \in {Attestation(q, t) : q \in Plan, t \in Signer}
    BY <2>3
  <2> QED BY <2>1, <2>2, <2>3 DEF AllRecords
<1> QED
  <2> HIDE DEF Header, Attestation, RecordsOf, AllRecords
  <2> QED BY <1>1, <1>2, <1>3, <1>4, <1>5, <1>6, <1>7

\* A create that lands.
LEMMA Landing ==
  ASSUME StoreInv, NEW batch, Good(batch), Free(batch), store' = store \union batch
  PROVE  StoreInv'
<1>1. CASE \E p \in Plan : batch = {Header(p)}
  <2>1. PICK p \in Plan : batch = {Header(p)}
    BY <1>1
  <2>2. \A q \in Plan : Header(q) \notin store
    BY <2>1, Records DEF Free, Taken, SameKey
  <2>3. store' = store \union {Header(p)} /\ Header(p).kind = "candidate"
    BY <2>1, Records
  <2> HIDE DEF Header
  <2>4. \A q \in Plan : Header(q) \in store' => q = p
    <3> SUFFICES ASSUME NEW q \in Plan, Header(q) \in store' PROVE q = p
      OBVIOUS
    <3>1. Header(q) = Header(p)
      BY <2>2, <2>3
    <3> QED BY <3>1, Records
  <2>5. \A r \in store' : r.kind # "candidate" => r \in store
    BY <2>3
  <2>6. store' \subseteq AllRecords /\ store \subseteq store'
    BY <2>3, Records DEF StoreInv
  <2>7. \A r \in store' : r.kind \in {"document", "chunk"} =>
          \E q \in Plan : Header(q) \in store' /\ r \in RecordsOf(q)
    BY <2>5, <2>6 DEF StoreInv
  <2>8. \A r \in store' : r.kind = "attestation" =>
          \E q \in Plan, s \in Signer : r = Attestation(q, s) /\ Whole(q)'
    BY <2>5, <2>6 DEF StoreInv, Whole
  <2>9. \A r, s \in store' : r.kind = "attestation" /\ s.kind = "attestation" => r = s
    BY <2>5 DEF StoreInv
  <2> QED BY <2>4, <2>6, <2>7, <2>8, <2>9 DEF StoreInv
<1>2. CASE \E p \in Plan : Header(p) \in store /\ batch \subseteq RecordsOf(p)
  <2>1. PICK p \in Plan : Header(p) \in store /\ batch \subseteq RecordsOf(p)
    BY <1>2
  <2>2. \A r \in store' : r \in store \/ r \in RecordsOf(p)
    BY <2>1
  <2>3. \A r \in store' : r.kind \notin {"document", "chunk"} => r \in store
    BY <2>2, Records
  <2>4. store' \subseteq AllRecords /\ store \subseteq store'
    BY <2>2, Records DEF StoreInv
  <2>5. \A q \in Plan : Header(q) \in store' => Header(q) \in store
    BY <2>3, Records
  <2>6. \A r \in store' : r.kind \in {"document", "chunk"} =>
          \E q \in Plan : Header(q) \in store' /\ r \in RecordsOf(q)
    BY <2>1, <2>2, <2>4 DEF StoreInv
  <2>7. \A r \in store' : r.kind = "attestation" =>
          \E q \in Plan, s \in Signer : r = Attestation(q, s) /\ Whole(q)'
    BY <2>3, <2>4 DEF StoreInv, Whole
  <2>8. \A r, s \in store' : r.kind = "attestation" /\ s.kind = "attestation" => r = s
    BY <2>3 DEF StoreInv
  <2>9. \A q, u \in Plan : Header(q) \in store' /\ Header(u) \in store' => q = u
    BY <2>5 DEF StoreInv
  <2> QED BY <2>4, <2>6, <2>7, <2>8, <2>9 DEF StoreInv
<1>3. CASE \E p \in Plan, s \in Signer : batch = {Attestation(p, s)} /\ Whole(p)
  <2>1. PICK p \in Plan, s \in Signer : batch = {Attestation(p, s)} /\ Whole(p)
    BY <1>3
  <2>2. store' = store \union {Attestation(p, s)} /\ Attestation(p, s).kind = "attestation"
    BY <2>1, Records
  <2>3. \A r \in store : r.kind # "attestation"
    <3> SUFFICES ASSUME NEW r \in store, r.kind = "attestation" PROVE FALSE
      OBVIOUS
    <3>1. PICK q \in Plan, u \in Signer : r = Attestation(q, u)
      BY DEF StoreInv
    <3>2. r.key = 0 /\ Attestation(p, s).key = 0
      BY <3>1, Records
    <3> QED BY <2>1, <2>2, <3>2 DEF Free, Taken, SameKey
  <2>4. \A r \in store' : r.kind # "attestation" => r \in store
    BY <2>2
  <2>5. store' \subseteq AllRecords /\ store \subseteq store'
    BY <2>2, Records DEF StoreInv
  <2>6. \A q \in Plan : Header(q) \in store' => Header(q) \in store
    BY <2>4, Records
  <2>7. \A r \in store' : r.kind \in {"document", "chunk"} =>
          \E q \in Plan : Header(q) \in store' /\ r \in RecordsOf(q)
    BY <2>4, <2>5 DEF StoreInv
  <2>8. \A r \in store' : r.kind = "attestation" => r = Attestation(p, s)
    BY <2>2, <2>3
  <2>9. Whole(p)'
    BY <2>1, <2>5 DEF Whole
  <2>10. \A q, u \in Plan : Header(q) \in store' /\ Header(u) \in store' => q = u
    BY <2>6 DEF StoreInv
  <2> QED BY <2>5, <2>7, <2>8, <2>9, <2>10 DEF StoreInv
<1> QED BY <1>1, <1>2, <1>3 DEF Good

\* What is good stays good, and what a call has seen stays true.
LEMMA Growing ==
  ASSUME store \subseteq store'
  PROVE  /\ \A batch : Good(batch) => Good(batch)'
         /\ \A k : Seen(k, store) => Seen(k, store')
<1>1. ASSUME NEW batch, Good(batch) PROVE Good(batch)'
  BY <1>1 DEF Good, Whole
<1>2. ASSUME NEW k, Seen(k, store) PROVE Seen(k, store')
  BY <1>2 DEF Seen
<1> QED BY <1>1, <1>2

\* Whatever a call is creating is good.
LEMMA CreatingGood ==
  ASSUME NEW c \in Caller, Seen(call[c], store), Creating(c) # {}
  PROVE  Good(Creating(c))
<1>1. CASE At(c, "createHeader")
  BY <1>1 DEF At, Creating, Seen, Early, Good
<1>2. CASE At(c, "createMissing")
  BY <1>2 DEF At, Creating, Seen, Held, Batching, Good
<1>3. CASE At(c, "attest")
  <2>1. call[c].plan \in Plan /\ call[c].signer \in Signer /\ Whole(call[c].plan)
    BY <1>3 DEF At, Seen, Held, Signing, Whole, RecordsOf
  <2>2. Creating(c) = {Attestation(call[c].plan, call[c].signer)}
    BY <1>3 DEF At, Creating
  <2> QED BY <2>1, <2>2 DEF Good
<1> QED BY <1>1, <1>2, <1>3 DEF Creating

-----------------------------------------------------------------------------
(* Every step of a call is one of four deeds, and leads to a call that has *)
(* seen what its step says.                                                *)

Counted == calls' \in [Caller -> Nat] /\ faults' \in Nat

Quiet(c, new) ==
  /\ UNCHANGED <<store, pending, receipts>>
  /\ new.created => call[c].created

Created(c, new) ==
  /\ Creating(c) # {} /\ Free(Creating(c))
  /\ store' = store \union Creating(c)
  /\ UNCHANGED <<pending, receipts>>
  /\ new.created => call[c].created \/ Creating(c) = {Header(call[c].plan)}

GivenUp(c, new) ==
  /\ Creating(c) # {}
  /\ pending' = pending \union {Creating(c)}
  /\ UNCHANGED <<store, receipts>>
  /\ new.created => call[c].created

Told(c, new) ==
  /\ call[c].step \in Signing
  /\ Attestation(call[c].plan, call[c].signer) \in store
  /\ receipts' = receipts \union {Receipt(c)}
  /\ UNCHANGED <<store, pending>>
  /\ new = Idle

Deed(c) ==
  \E new \in CallType :
    /\ Goto(c, new) /\ Counted
    /\ Seen(new, store')
    /\ Quiet(c, new) \/ Created(c, new) \/ GivenUp(c, new) \/ Told(c, new)

Typed == PersistenceTypeOK /\ CallsInv

LEMMA TypedCall ==
  ASSUME Typed, NEW c \in Caller
  PROVE  call[c] \in CallType /\ Seen(call[c], store) /\ calls \in [Caller -> Nat]
         /\ faults \in Nat /\ store \subseteq AllRecords
  BY DEF Typed, PersistenceTypeOK, CallsInv

LEMMA IdleSeen == Idle \in CallType /\ \A records : Seen(Idle, records)
  BY DEF Idle, CallType, Seen, Steps, Early, Held, Batching, Signing

LEMMA EndedDeed ==
  ASSUME Typed, NEW c \in Caller, Ended(c) PROVE Deed(c)
<1>1. Goto(c, Idle) /\ UNCHANGED <<store, pending, receipts, calls, faults>> /\ ~ Idle.created
  BY DEF Ended, Idle
<1> QED BY <1>1, IdleSeen, TypedCall DEF Deed, Quiet, Counted

LEMMA MovedDeed ==
  ASSUME Typed, NEW c \in Caller, NEW new \in CallType, Moved(c, new),
         Seen(new, store), new.created => call[c].created
  PROVE  Deed(c)
<1>1. Goto(c, new) /\ UNCHANGED <<store, pending, receipts, calls, faults>>
  BY DEF Moved
<1> QED BY <1>1, TypedCall DEF Deed, Quiet, Counted

LEMMA KnownDeed ==
  ASSUME Typed, NEW c \in Caller, NEW new \in CallType, KnownCreate(c, new),
         Creating(c) # {}, Seen(new, store \union Creating(c)),
         new.created => call[c].created \/ Creating(c) = {Header(call[c].plan)}
  PROVE  Deed(c)
<1>1. Goto(c, new) /\ Created(c, new) /\ UNCHANGED <<calls, faults>>
  BY DEF KnownCreate, Created
<1>2. Seen(new, store')
  BY <1>1 DEF Created
<1> QED BY <1>1, <1>2, TypedCall DEF Deed, Counted

LEMMA UnknownDeed ==
  ASSUME Typed, NEW c \in Caller, NEW new \in CallType, UnknownCreate(c, new),
         Creating(c) # {}, Seen(new, store), new.created => call[c].created
  PROVE  Deed(c)
<1>1. Goto(c, new) /\ (Quiet(c, new) \/ GivenUp(c, new)) /\ store' = store
  BY DEF UnknownCreate, Quiet, GivenUp
<1>2. Counted
  BY TypedCall DEF UnknownCreate, Counted
<1> QED BY <1>1, <1>2 DEF Deed

\* A call stays a call when a field of it changes.
LEMMA Fields ==
  ASSUME NEW k \in CallType
  PROVE  /\ \A x \in Steps : [k EXCEPT !.step = x] \in CallType
         /\ \A x \in Nat : [k EXCEPT !.batch = x] \in CallType
         /\ \A x \in SUBSET AllRecords : [k EXCEPT !.missing = x] \in CallType
         /\ \A x \in SUBSET AllRecords : [k EXCEPT !.listed = x] \in CallType
         /\ \A x \in {0, 1} : [k EXCEPT !.tries = x] \in CallType
         /\ \A x \in BOOLEAN : [k EXCEPT !.created = x] \in CallType
         /\ \A x \in BOOLEAN : [k EXCEPT !.present = x] \in CallType
         /\ \A x \in BOOLEAN : [k EXCEPT !.later = x] \in CallType
         /\ \A x \in BOOLEAN : [k EXCEPT !.known = x] \in CallType
         /\ \A p \in Plan : [k EXCEPT !.plan = p] \in CallType
<1> HIDE DEF Steps, AllRecords
<1>1. ASSUME NEW x \in Steps PROVE [k EXCEPT !.step = x] \in CallType
  BY DEF CallType
<1>2. ASSUME NEW x \in Nat PROVE [k EXCEPT !.batch = x] \in CallType
  BY DEF CallType
<1>3. ASSUME NEW x \in SUBSET AllRecords PROVE [k EXCEPT !.missing = x] \in CallType
  BY DEF CallType
<1>4. ASSUME NEW x \in SUBSET AllRecords PROVE [k EXCEPT !.listed = x] \in CallType
  BY DEF CallType
<1>5. ASSUME NEW x \in {0, 1} PROVE [k EXCEPT !.tries = x] \in CallType
  BY DEF CallType
<1>6. ASSUME NEW x \in BOOLEAN PROVE [k EXCEPT !.created = x] \in CallType
  BY DEF CallType
<1>7. ASSUME NEW x \in BOOLEAN PROVE [k EXCEPT !.present = x] \in CallType
  BY DEF CallType
<1>8. ASSUME NEW x \in BOOLEAN PROVE [k EXCEPT !.later = x] \in CallType
  BY DEF CallType
<1>9. ASSUME NEW x \in BOOLEAN PROVE [k EXCEPT !.known = x] \in CallType
  BY DEF CallType
<1>10. ASSUME NEW p \in Plan PROVE [k EXCEPT !.plan = p] \in CallType
  BY DEF CallType
<1> QED BY <1>1, <1>2, <1>3, <1>4, <1>5, <1>6, <1>7, <1>8, <1>9, <1>10

\* What a call has seen does not depend on these fields, nor do they on each
\* other.
LEMMA Kept ==
  ASSUME NEW k \in CallType, NEW x
  PROVE  /\ \A records : Seen(k, records) =>
              /\ Seen([k EXCEPT !.tries = x], records)
              /\ Seen([k EXCEPT !.created = x], records)
              /\ Seen([k EXCEPT !.present = x], records)
              /\ Seen([k EXCEPT !.later = x], records)
              /\ Seen([k EXCEPT !.known = x], records)
         /\ [k EXCEPT !.batch = x].created = k.created
         /\ [k EXCEPT !.missing = x].created = k.created
         /\ [k EXCEPT !.listed = x].created = k.created
         /\ [k EXCEPT !.tries = x].created = k.created
         /\ [k EXCEPT !.present = x].created = k.created
         /\ [k EXCEPT !.later = x].created = k.created
         /\ [k EXCEPT !.known = x].created = k.created
  BY DEF CallType, Seen

LEMMA Stepping ==
  ASSUME Typed, NEW c \in Caller, NEW x \in Steps
  PROVE  Step(c, x) \in CallType /\ Step(c, x).created = call[c].created
<1>1. call[c] \in CallType
  BY TypedCall
<1>2. [call[c] EXCEPT !.step = x] \in CallType
  BY <1>1, Fields
<1> QED BY <1>1, <1>2 DEF CallType, Step

LEMMA Beginning ==
  ASSUME Typed, NEW c \in Caller,
         \/ \E p \in Plan, s \in Signer : PersistCandidate(c, p, s)
         \/ \E s \in Signer : VerifyCandidate(c, s)
  PROVE  Deed(c)
<1>1. ASSUME NEW new \in CallType, Begin(c, new), \A records : Seen(new, records),
             ~ new.created
      PROVE  Deed(c)
  BY <1>1, TypedCall DEF Begin, Deed, Quiet, Counted
<1>2. ASSUME NEW p \in Plan, NEW s \in Signer, PersistCandidate(c, p, s) PROVE Deed(c)
  <2> DEFINE new == [Idle EXCEPT !.step = "header", !.plan = p, !.signer = s]
  <2>1. new \in CallType /\ ~ new.created
    BY DEF Idle, CallType, Steps
  <2>2. 1 \in 1 .. Len(Batches[p])
    <3>1. Len(Batches[p]) \in Nat /\ Len(Batches[p]) # 0
      BY PlansAssumption, EmptySeq
    <3> QED BY <3>1
  <2>3. \A records : Seen(new, records)
    BY <2>2 DEF Idle, Seen, Early, Held, Batching, Signing
  <2>4. Begin(c, new)
    BY <1>2 DEF PersistCandidate
  <2> HIDE DEF new
  <2> QED BY <1>1, <2>1, <2>3, <2>4
<1>3. ASSUME NEW s \in Signer, VerifyCandidate(c, s) PROVE Deed(c)
  <2> DEFINE new == [Idle EXCEPT !.step = "durableHeader", !.role = "verify", !.signer = s]
  <2>1. new \in CallType /\ ~ new.created
    BY DEF Idle, CallType, Steps
  <2>3. \A records : Seen(new, records)
    BY DEF Idle, Seen, Early, Held, Batching, Signing
  <2>4. Begin(c, new)
    BY <1>3 DEF VerifyCandidate
  <2> HIDE DEF new
  <2> QED BY <1>1, <2>1, <2>3, <2>4
<1> QED BY <1>2, <1>3

LEMMA Interrupting ==
  ASSUME Typed, NEW c \in Caller, Interrupt(c) PROVE Deed(c)
<1>1. Goto(c, Idle) /\ UNCHANGED <<store, receipts>> /\ Counted /\ ~ Idle.created
  BY TypedCall DEF Interrupt, Idle, Counted
<1>2. Quiet(c, Idle) \/ GivenUp(c, Idle)
  <2>1. CASE pending' = pending
    BY <1>1, <2>1 DEF Quiet
  <2>2. CASE pending' = pending \union ({Creating(c)} \ {{}})
    <3>1. CASE Creating(c) = {}
      BY <1>1, <2>2, <3>1 DEF Quiet
    <3>2. CASE Creating(c) # {}
      <4>1. pending' = pending \union {Creating(c)}
        BY <2>2, <3>2
      <4> QED BY <1>1, <3>2, <4>1 DEF GivenUp
    <3> QED BY <3>1, <3>2
  <2> QED BY <2>1, <2>2 DEF Interrupt
<1> QED BY <1>1, <1>2, IdleSeen DEF Deed

\* The header.
LEMMA HeaderSteps ==
  ASSUME Typed, NEW c \in Caller,
         GetHeader(c) \/ CreateHeader(c) \/ RereadHeader(c) \/ CheckHeader(c)
  PROVE  Deed(c)
<1> USE TypedCall DEF At, Early, Held, Batching, Signing
<1>1. CASE GetHeader(c)
  <2>1. CASE Ended(c)
    BY <2>1, EndedDeed
  <2>2. CASE Header(call[c].plan) \in store /\ Moved(c, [Step(c, "existing") EXCEPT !.present = TRUE])
    <3> DEFINE k == Step(c, "existing")
               new == [k EXCEPT !.present = TRUE]
    <3>0. k \in CallType /\ k.created = call[c].created
      BY Stepping DEF Steps
    <3>2. Seen(k, store)
      BY <1>1, <2>2 DEF GetHeader, Step, Seen, CallType
    <3>3. Moved(c, new)
      BY <2>2
    <3> HIDE DEF k
    <3>1. new \in CallType /\ new.created = call[c].created /\ Seen(new, store)
      BY <3>0, <3>2, Fields, Kept
    <3> HIDE DEF new
    <3> QED BY <3>1, <3>3, MovedDeed
  <2>3. CASE Moved(c, Step(c, "createHeader"))
    <3> DEFINE new == Step(c, "createHeader")
    <3>0. new \in CallType /\ new.created = call[c].created
      BY Stepping DEF Steps
    <3>1. Seen(new, store)
      BY <1>1, <2>3 DEF GetHeader, Step, Seen, CallType
    <3> HIDE DEF new
    <3> QED BY <2>3, <3>0, <3>1, MovedDeed DEF new
  <2> QED BY <1>1, <2>1, <2>2, <2>3 DEF GetHeader
<1>2. CASE CreateHeader(c)
  <2>1. Creating(c) = {Header(call[c].plan)}
    BY <1>2 DEF CreateHeader, Creating
  <2>2. CASE KnownCreate(c, [Step(c, "checkHeader") EXCEPT !.created = (call[c].tries = 0)])
    <3> DEFINE k == Step(c, "checkHeader")
               new == [k EXCEPT !.created = (call[c].tries = 0)]
    <3>0. k \in CallType
      BY Stepping DEF Steps
    <3>2. Seen(k, store \union Creating(c))
      BY <1>2, <2>2 DEF CreateHeader, Step, Seen, CallType
    <3> HIDE DEF k
    <3>1. new \in CallType /\ Seen(new, store \union Creating(c))
      BY <3>0, <3>2, Fields, Kept
    <3> HIDE DEF new
    <3> QED BY <2>1, <2>2, <3>1, KnownDeed DEF new, k
  <2>3. CASE UnknownCreate(c, Step(c, "rereadHeader"))
    <3> DEFINE new == Step(c, "rereadHeader")
    <3>0. new \in CallType /\ new.created = call[c].created
      BY Stepping DEF Steps
    <3>1. Seen(new, store)
      BY <1>2, <2>3 DEF CreateHeader, Step, Seen, CallType
    <3> HIDE DEF new
    <3> QED BY <2>1, <2>3, <3>0, <3>1, UnknownDeed DEF new
  <2> QED BY <1>2, <2>2, <2>3 DEF CreateHeader
<1>3. CASE RereadHeader(c)
  <2>1. CASE Ended(c)
    BY <2>1, EndedDeed
  <2>2. CASE Header(call[c].plan) \in store /\ Moved(c, Step(c, "checkHeader"))
    <3> DEFINE new == Step(c, "checkHeader")
    <3>0. new \in CallType /\ new.created = call[c].created
      BY Stepping DEF Steps
    <3>1. Seen(new, store)
      BY <1>3, <2>2 DEF RereadHeader, Step, Seen, CallType
    <3> HIDE DEF new
    <3> QED BY <2>2, <3>0, <3>1, MovedDeed DEF new
  <2>3. CASE Moved(c, [Step(c, "createHeader") EXCEPT !.tries = 1])
    <3> DEFINE k == Step(c, "createHeader")
               new == [k EXCEPT !.tries = 1]
    <3>0. k \in CallType /\ k.created = call[c].created
      BY Stepping DEF Steps
    <3>2. Seen(k, store)
      BY <1>3, <2>3 DEF RereadHeader, Step, Seen, CallType
    <3>3. Moved(c, new)
      BY <2>3
    <3> HIDE DEF k
    <3>1. new \in CallType /\ new.created = call[c].created /\ Seen(new, store)
      BY <3>0, <3>2, Fields, Kept
    <3> HIDE DEF new
    <3> QED BY <3>1, <3>3, MovedDeed
  <2> QED BY <1>3, <2>1, <2>2, <2>3 DEF RereadHeader
<1>4. CASE CheckHeader(c)
  <2>1. CASE Ended(c)
    BY <2>1, EndedDeed
  <2>2. CASE Header(call[c].plan) \in store /\ Moved(c, [Step(c, "existing") EXCEPT !.tries = 0])
    <3> DEFINE k == Step(c, "existing")
               new == [k EXCEPT !.tries = 0]
    <3>0. k \in CallType /\ k.created = call[c].created
      BY Stepping DEF Steps
    <3>2. Seen(k, store)
      BY <1>4, <2>2 DEF CheckHeader, Step, Seen, CallType
    <3>3. Moved(c, new)
      BY <2>2
    <3> HIDE DEF k
    <3>1. new \in CallType /\ new.created = call[c].created /\ Seen(new, store)
      BY <3>0, <3>2, Fields, Kept
    <3> HIDE DEF new
    <3> QED BY <3>1, <3>3, MovedDeed
  <2> QED BY <1>4, <2>1, <2>2 DEF CheckHeader
<1> QED BY <1>1, <1>2, <1>3, <1>4

\* The batches.
LEMMA NextBatchSeen ==
  ASSUME Typed, NEW c \in Caller, NEW k \in CallType,
         call[c].step \in Batching,
         k.plan = call[c].plan, k.signer = call[c].signer, k.batch = call[c].batch,
         k.listed = call[c].listed,
         k.created = call[c].created
  PROVE  /\ NextBatch(c, k) \in CallType
         /\ NextBatch(c, k).created = call[c].created
         /\ Seen(NextBatch(c, k), store)
<1> USE TypedCall
<1>1. CASE call[c].batch < Len(Batches[call[c].plan])
  <2> DEFINE a == [k EXCEPT !.step = "existing"]
             b == [a EXCEPT !.batch = k.batch + 1]
             d == [b EXCEPT !.missing = {}]
             e == [d EXCEPT !.tries = 0]
  <2>1. NextBatch(c, k) = e
    BY <1>1 DEF NextBatch, CallType
  <2>2. a \in CallType /\ a.created = k.created
    <3>1. a \in CallType
      BY Fields DEF Steps
    <3>2. a.created = k.created
      BY DEF CallType
    <3> QED BY <3>1, <3>2
  <2>3. b \in CallType /\ b.created = k.created
    <3>1. k.batch + 1 \in Nat
      BY DEF CallType
    <3> HIDE DEF a
    <3> QED BY <2>2, <3>1, Fields, Kept DEF b
  <2>4. d \in CallType /\ d.created = k.created
    <3> HIDE DEF b
    <3> QED BY <2>3, Fields, Kept DEF d
  <2>5. e \in CallType /\ e.created = k.created
    <3> HIDE DEF d
    <3> QED BY <2>4, Fields, Kept DEF e
  <2>6. /\ e.step = "existing" /\ e.plan = call[c].plan /\ e.signer = call[c].signer
        /\ e.batch = call[c].batch + 1 /\ e.listed = call[c].listed
    BY DEF CallType
  <2> HIDE DEF e
  <2>7. call[c].batch + 1 \in 1 .. Len(Batches[call[c].plan])
    <3>1. call[c].plan \in Plan /\ call[c].batch \in 1 .. Len(Batches[call[c].plan])
      BY DEF Seen, Early, Held, Batching
    <3>2. Len(Batches[call[c].plan]) \in Nat
      BY <3>1, PlansAssumption, LenProperties
    <3> QED BY <1>1, <3>1, <3>2
  <2>8. Seen(e, store)
    BY <2>6, <2>7 DEF Seen, Early, Held, Batching, Signing
  <2> QED BY <2>1, <2>5, <2>8
<1>2. CASE ~ (call[c].batch < Len(Batches[call[c].plan]))
  <2> DEFINE a == [k EXCEPT !.step = "readback"]
             d == [a EXCEPT !.missing = {}]
             e == [d EXCEPT !.tries = 0]
  <2>1. NextBatch(c, k) = e
    BY <1>2 DEF NextBatch, CallType
  <2>2. a \in CallType /\ a.created = k.created
    <3>1. a \in CallType
      BY Fields DEF Steps
    <3>2. a.created = k.created
      BY DEF CallType
    <3> QED BY <3>1, <3>2
  <2>4. d \in CallType /\ d.created = k.created
    <3> HIDE DEF a
    <3> QED BY <2>2, Fields, Kept DEF d
  <2>5. e \in CallType /\ e.created = k.created
    <3> HIDE DEF d
    <3> QED BY <2>4, Fields, Kept DEF e
  <2>6. /\ e.step = "readback" /\ e.plan = call[c].plan /\ e.signer = call[c].signer
        /\ e.listed = call[c].listed
    BY DEF CallType
  <2> HIDE DEF e
  <2>8. Seen(e, store)
    BY <2>6 DEF Seen, Early, Held, Batching, Signing
  <2> QED BY <2>1, <2>5, <2>8
<1> QED BY <1>1, <1>2

\* A step to another batch of the plan, whose missing records are created.
LEMMA MissingSeen ==
  ASSUME Typed, NEW c \in Caller, call[c].step \in Batching,
         NEW x \in {"createMissing", "reread"}, NEW records \in SUBSET RecordsOf(call[c].plan), records # {}
  PROVE  LET new == [[call[c] EXCEPT !.step = x] EXCEPT !.missing = records]
         IN  new \in CallType /\ new.created = call[c].created /\ Seen(new, store)
<1> DEFINE a == [call[c] EXCEPT !.step = x]
           new == [a EXCEPT !.missing = records]
<1>1. a \in CallType /\ a.created = call[c].created
  <2>1. x \in Steps
    BY DEF Steps
  <2> QED BY <2>1, Stepping DEF Step
<1>2. call[c].plan \in Plan
  BY TypedCall DEF Seen, Held, Batching
<1>3. records \in SUBSET AllRecords
  BY <1>2, Records
<1>4. new \in CallType /\ new.created = call[c].created
  <2> HIDE DEF a
  <2> QED BY <1>1, <1>3, Fields, Kept DEF new
<1>5. /\ new.step = x /\ new.plan = call[c].plan /\ new.signer = call[c].signer
      /\ new.batch = call[c].batch /\ new.missing = records /\ new.listed = call[c].listed
  BY TypedCall DEF CallType
<1> HIDE DEF new
<1>6. Seen(new, store)
  BY <1>5, TypedCall DEF Seen, Early, Held, Batching, Signing
<1> QED BY <1>4, <1>6 DEF new
LEMMA BatchSteps ==
  ASSUME Typed, NEW c \in Caller, GetExisting(c) \/ CreateMissing(c) \/ Reread(c)
  PROVE  Deed(c)
<1> DEFINE plan == call[c].plan
<1>0. call[c] \in CallType
  BY TypedCall
<1>1. CASE GetExisting(c)
  <2>1. call[c].step = "existing" /\ call[c].step \in Batching
    BY <1>1 DEF GetExisting, At, Batching
  <2>2. plan \in Plan /\ Batches[plan][call[c].batch] \subseteq RecordsOf(plan)
    <3>1. plan \in Plan /\ call[c].batch \in 1 .. Len(Batches[plan])
      BY <2>1, TypedCall DEF Seen, Held, Batching
    <3>2. Batches[plan] \in Seq(SUBSET RecordsOf(plan))
      BY <3>1, PlansAssumption
    <3> QED BY <3>1, <3>2, ElementOfSeq
  <2>3. CASE Ended(c)
    BY <2>3, EndedDeed
  <2>4. CASE Moved(c, NextBatch(c, call[c]))
    <3>1. /\ NextBatch(c, call[c]) \in CallType
          /\ NextBatch(c, call[c]).created = call[c].created
          /\ Seen(NextBatch(c, call[c]), store)
      BY <1>0, <2>1, NextBatchSeen
    <3> QED BY <2>4, <3>1, MovedDeed
  <2>5. CASE \E records \in SUBSET RecordsOf(plan) :
               /\ records # {}
               /\ Moved(c, [[call[c] EXCEPT !.step = "createMissing"] EXCEPT !.missing = records])
    <3>1. PICK records \in SUBSET RecordsOf(plan) :
               /\ records # {}
               /\ Moved(c, [[call[c] EXCEPT !.step = "createMissing"] EXCEPT !.missing = records])
      BY <2>5
    <3> DEFINE new == [[call[c] EXCEPT !.step = "createMissing"] EXCEPT !.missing = records]
    <3>2. new \in CallType /\ new.created = call[c].created /\ Seen(new, store)
      BY <2>1, <3>1, MissingSeen
    <3> HIDE DEF new
    <3> QED BY <3>1, <3>2, MovedDeed DEF new
  <2>6. Missing(Batches[plan][call[c].batch]) \in SUBSET RecordsOf(plan)
    BY <2>2 DEF Missing
  <2> QED BY <1>1, <2>3, <2>4, <2>5, <2>6 DEF GetExisting, Step
<1>2. CASE CreateMissing(c)
  <2>1. call[c].step = "createMissing" /\ call[c].step \in Batching
    BY <1>2 DEF CreateMissing, At, Batching
  <2>2. Creating(c) # {}
    BY <2>1, TypedCall DEF Creating, At, Seen
  <2>3. CASE KnownCreate(c, NextBatch(c, [call[c] EXCEPT !.later = TRUE]))
    <3> DEFINE k == [call[c] EXCEPT !.later = TRUE]
               new == NextBatch(c, k)
    <3>1. k \in CallType
      BY <1>0, Fields
    <3>2. /\ k.plan = call[c].plan /\ k.signer = call[c].signer /\ k.batch = call[c].batch
          /\ k.listed = call[c].listed /\ k.created = call[c].created
      BY <1>0 DEF CallType
    <3> HIDE DEF k
    <3>3. new \in CallType /\ new.created = call[c].created /\ Seen(new, store)
      BY <2>1, <3>1, <3>2, NextBatchSeen
    <3>4. KnownCreate(c, new)
      BY <2>3 DEF k
    <3> HIDE DEF new
    <3>5. Seen(new, store \union Creating(c))
      BY <3>3 DEF Seen
    <3> QED BY <2>2, <3>3, <3>4, <3>5, KnownDeed
  <2>4. CASE UnknownCreate(c, Step(c, "reread"))
    <3> DEFINE new == Step(c, "reread")
    <3>1. new \in CallType /\ new.created = call[c].created
      BY Stepping DEF Steps
    <3>2. /\ new.step = "reread" /\ new.plan = plan /\ new.signer = call[c].signer
          /\ new.batch = call[c].batch /\ new.missing = call[c].missing
          /\ new.listed = call[c].listed
      BY <1>0 DEF Step, CallType
    <3>3. UnknownCreate(c, new)
      BY <2>4
    <3> HIDE DEF new
    <3>4. Seen(new, store)
      BY <2>1, <3>2, TypedCall DEF Seen, Early, Held, Batching, Signing
    <3> QED BY <2>2, <3>1, <3>3, <3>4, UnknownDeed
  <2> QED BY <1>2, <2>3, <2>4 DEF CreateMissing
<1>3. CASE Reread(c)
  <2>1. call[c].step = "reread" /\ call[c].step \in Batching
    BY <1>3 DEF Reread, At, Batching
  <2>3. CASE Ended(c)
    BY <2>3, EndedDeed
  <2>4. CASE Moved(c, NextBatch(c, call[c]))
    <3>1. /\ NextBatch(c, call[c]) \in CallType
          /\ NextBatch(c, call[c]).created = call[c].created
          /\ Seen(NextBatch(c, call[c]), store)
      BY <1>0, <2>1, NextBatchSeen
    <3> QED BY <2>4, <3>1, MovedDeed
  <2> DEFINE records == Missing(call[c].missing)
  <2>5. CASE records # {} /\ Moved(c, [Step(c, "createMissing") EXCEPT !.tries = 1, !.missing = records])
    <3>1. records \in SUBSET RecordsOf(plan) /\ records # {}
      BY <2>1, <2>5, TypedCall DEF Missing, Seen
    <3> HIDE DEF records
    <3> DEFINE k == [[call[c] EXCEPT !.step = "createMissing"] EXCEPT !.missing = records]
               new == [k EXCEPT !.tries = 1]
    <3>2. k \in CallType /\ k.created = call[c].created /\ Seen(k, store)
      BY <2>1, <2>5, <3>1, MissingSeen
    <3>3. [Step(c, "createMissing") EXCEPT !.tries = 1, !.missing = records] = new
      BY <1>0 DEF Step, CallType
    <3>4. Moved(c, new)
      BY <2>5, <3>3
    <3> HIDE DEF k
    <3>5. new \in CallType /\ new.created = call[c].created /\ Seen(new, store)
      BY <3>2, Fields, Kept
    <3> QED BY <3>4, <3>5, MovedDeed
  <2> QED BY <1>3, <2>3, <2>4, <2>5 DEF Reread
<1> QED BY <1>1, <1>2, <1>3
\* The read back, and the read of a verification.
LEMMA ReadSteps ==
  ASSUME Typed, NEW c \in Caller, Readback(c) \/ GetDurableHeader(c) PROVE Deed(c)
<1>0. call[c] \in CallType
  BY TypedCall
<1>1. CASE Readback(c)
  <2>1. CASE Ended(c)
    BY <2>1, EndedDeed
  <2>2. CASE Header(call[c].plan) \in store /\ Moved(c, Step(c, "documents"))
    <3> DEFINE new == Step(c, "documents")
    <3>1. new \in CallType /\ new.created = call[c].created
      BY Stepping DEF Steps
    <3>2. /\ new.step = "documents" /\ new.plan = call[c].plan /\ new.signer = call[c].signer
          /\ new.listed = call[c].listed
      BY <1>0 DEF Step, CallType
    <3>3. Moved(c, new)
      BY <2>2
    <3> HIDE DEF new
    <3>4. Seen(new, store)
      BY <1>1, <3>2, TypedCall DEF Readback, At, Seen, Early, Held, Batching, Signing
    <3> QED BY <3>1, <3>3, <3>4, MovedDeed
  <2> QED BY <1>1, <2>1, <2>2 DEF Readback
<1>2. CASE GetDurableHeader(c)
  <2>1. CASE Ended(c)
    BY <2>1, EndedDeed
  <2>2. ASSUME NEW p \in Plan, Header(p) \in store,
               Moved(c, [Step(c, "documents") EXCEPT !.plan = p])
        PROVE  Deed(c)
    <3> DEFINE k == Step(c, "documents")
               new == [k EXCEPT !.plan = p]
    <3>1. k \in CallType /\ k.created = call[c].created
      BY Stepping DEF Steps
    <3>2. k.step = "documents" /\ k.signer = call[c].signer /\ k.listed = call[c].listed
      BY <1>0 DEF Step, CallType
    <3>3. Moved(c, new)
      BY <2>2
    <3> HIDE DEF k
    <3>4. new \in CallType
      BY <3>1, Fields
    <3>5. /\ new.step = "documents" /\ new.plan = p /\ new.signer = call[c].signer
          /\ new.listed = call[c].listed /\ new.created = call[c].created
      BY <3>1, <3>2 DEF CallType
    <3> HIDE DEF new
    <3>6. Seen(new, store)
      BY <1>2, <2>2, <3>5, TypedCall DEF GetDurableHeader, At, Seen, Early, Held, Batching,
         Signing
    <3> QED BY <3>3, <3>4, <3>5, <3>6, MovedDeed
  <2> QED BY <1>2, <2>1, <2>2 DEF GetDurableHeader
<1> QED BY <1>1, <1>2

\* What a page lists is in the store; the last one has listed what is expected.
LEMMA PageSteps ==
  ASSUME Typed, NEW c \in Caller, NEW step \in {"documents", "chunks"}, NEW kind,
         NEW expected, NEW next \in {"chunks", "attestation"},
         ListPage(c, step, kind, expected, next),
         step = "documents" => next = "chunks" /\ expected = Documents[call[c].plan],
         step = "chunks" => next = "attestation" /\ expected = Chunks[call[c].plan]
  PROVE  Deed(c)
<1> DEFINE listed == call[c].listed \union Page(kind, call[c].listed)
<1>0. call[c] \in CallType /\ call[c].step = step
  BY TypedCall DEF ListPage, At
<1>1. listed \subseteq store /\ listed \in SUBSET AllRecords
  <2>1. Page(kind, call[c].listed) \subseteq store
    BY DEF Page, After
  <2>2. call[c].listed \subseteq store /\ store \subseteq AllRecords
    BY TypedCall DEF Seen
  <2> QED BY <2>1, <2>2
<1>2. CASE Ended(c)
  BY <1>2, EndedDeed
<1>3. CASE Moved(c, [call[c] EXCEPT !.listed = listed])
  <2> HIDE DEF listed
  <2> DEFINE new == [call[c] EXCEPT !.listed = listed]
  <2>1. new \in CallType /\ new.created = call[c].created
    BY <1>0, <1>1, Fields, Kept
  <2>2. /\ new.step = step /\ new.plan = call[c].plan /\ new.signer = call[c].signer
        /\ new.listed = listed
    BY <1>0 DEF CallType
  <2>3. Moved(c, new)
    BY <1>3
  <2> HIDE DEF new
  <2>4. Seen(new, store)
    BY <1>0, <1>1, <2>2, TypedCall DEF Seen, Early, Held, Batching, Signing
  <2> QED BY <2>1, <2>3, <2>4, MovedDeed
<1>4. CASE listed = expected /\ Moved(c, [Step(c, next) EXCEPT !.listed = {}])
  <2>0. expected \subseteq store
    BY <1>1, <1>4
  <2> HIDE DEF listed
  <2> DEFINE k == Step(c, next)
             new == [k EXCEPT !.listed = {}]
  <2>1. k \in CallType /\ k.created = call[c].created
    BY Stepping DEF Steps
  <2>2. k.step = next /\ k.plan = call[c].plan /\ k.signer = call[c].signer
    BY <1>0 DEF Step, CallType
  <2>3. Moved(c, new)
    BY <1>4
  <2> HIDE DEF k
  <2>4. new \in CallType /\ new.created = call[c].created
    BY <2>1, Fields, Kept
  <2>5. /\ new.step = next /\ new.plan = call[c].plan /\ new.signer = call[c].signer
        /\ new.listed = {}
    BY <2>1, <2>2 DEF CallType
  <2> HIDE DEF new
  <2>6. Seen(new, store)
    <3>1. call[c].plan \in Plan /\ call[c].signer \in Signer /\ Header(call[c].plan) \in store
      BY <1>0, TypedCall DEF Seen, Held
    <3>2. CASE step = "documents"
      BY <2>0, <2>5, <3>1, <3>2 DEF Seen, Early, Held, Batching, Signing
    <3>3. CASE step = "chunks"
      <4>1. Documents[call[c].plan] \subseteq store
        BY <1>0, <3>3, TypedCall DEF Seen
      <4> QED BY <2>0, <2>5, <3>1, <3>3, <4>1 DEF Seen, Early, Held, Batching, Signing
    <3> QED BY <3>2, <3>3
  <2> QED BY <2>3, <2>4, <2>6, MovedDeed
<1> QED BY <1>2, <1>3, <1>4 DEF ListPage, OfPlan

LEMMA ListSteps ==
  ASSUME Typed, NEW c \in Caller, ListDocuments(c) \/ ListChunks(c) PROVE Deed(c)
<1>1. CASE ListDocuments(c)
  <2>1. ListPage(c, "documents", "document", Documents[call[c].plan], "chunks")
    BY <1>1 DEF ListDocuments
  <2> QED BY <2>1, PageSteps
<1>2. CASE ListChunks(c)
  <2>1. ListPage(c, "chunks", "chunk", Chunks[call[c].plan], "attestation")
    BY <1>2 DEF ListChunks
  <2> QED BY <2>1, PageSteps
<1> QED BY <1>1, <1>2

\* The attestation.
LEMMA AttestationSteps ==
  ASSUME Typed, NEW c \in Caller,
         GetAttestation(c) \/ Sign(c) \/ CreateAttestation(c) \/ ConfirmAttestation(c)
  PROVE  Deed(c)
<1>0. call[c] \in CallType /\ call[c].step \in Signing
  BY TypedCall DEF GetAttestation, Sign, CreateAttestation, ConfirmAttestation, At, Signing
\* Between these steps a call keeps what it has seen.
<1>1. ASSUME NEW new \in CallType, new.step \in Signing, new.plan = call[c].plan,
             new.signer = call[c].signer, new.listed = call[c].listed
      PROVE  Seen(new, store)
  BY <1>0, <1>1, TypedCall DEF Seen, Early, Held, Batching, Signing
<1>2. ASSUME NEW x \in Signing
      PROVE  LET new == Step(c, x) IN
             /\ new \in CallType /\ new.created = call[c].created
             /\ Seen(new, store) /\ new.step = x
  <2> DEFINE new == Step(c, x)
  <2>1. new \in CallType /\ new.created = call[c].created
    BY Stepping DEF Steps, Signing
  <2>2. /\ new.step = x /\ new.plan = call[c].plan /\ new.signer = call[c].signer
        /\ new.listed = call[c].listed
    BY <1>0 DEF Step, CallType
  <2> HIDE DEF new
  <2>3. Seen(new, store)
    BY <1>1, <2>1, <2>2
  <2> QED BY <2>1, <2>2, <2>3 DEF new
<1>3. ASSUME VerifyAttestation(c) PROVE Deed(c)
  <2>1. CASE Ended(c)
    BY <2>1, EndedDeed
  <2>2. CASE /\ Attestation(call[c].plan, call[c].signer) \in store
             /\ receipts' = receipts \union {Receipt(c)}
             /\ Goto(c, Idle)
             /\ UNCHANGED <<store, pending, calls, faults>>
    <3>1. Told(c, Idle)
      BY <1>0, <2>2 DEF Told
    <3> QED BY <2>2, <3>1, IdleSeen, TypedCall DEF Deed, Counted
  <2> QED BY <1>3, <2>1, <2>2 DEF VerifyAttestation
<1>4. CASE GetAttestation(c)
  <2>1. CASE Moved(c, Step(c, "sign"))
    <3> HIDE DEF Step
    <3> QED BY <1>2, <2>1, MovedDeed DEF Signing
  <2> QED BY <1>3, <1>4, <2>1, EndedDeed DEF GetAttestation
<1>5. CASE Sign(c)
  BY <1>2, <1>5, MovedDeed DEF Sign, Signing
<1>6. CASE CreateAttestation(c)
  <2>1. Creating(c) # {}
    BY <1>6 DEF CreateAttestation, Creating, At
  <2>2. CASE KnownCreate(c, [Step(c, "confirm") EXCEPT !.later = TRUE, !.known = TRUE])
    <3> DEFINE k == Step(c, "confirm")
               l == [k EXCEPT !.later = TRUE]
               new == [l EXCEPT !.known = TRUE]
    <3>1. k \in CallType /\ k.created = call[c].created /\ Seen(k, store)
      BY <1>2 DEF Signing
    <3>2. [k EXCEPT !.later = TRUE, !.known = TRUE] = new
      BY <3>1 DEF CallType
    <3>3. KnownCreate(c, new)
      BY <2>2, <3>2
    <3> HIDE DEF k
    <3>4. l \in CallType /\ l.created = call[c].created /\ Seen(l, store)
      BY <3>1, Fields, Kept
    <3> HIDE DEF l
    <3>5. new \in CallType /\ new.created = call[c].created /\ Seen(new, store)
      BY <3>4, Fields, Kept
    <3> HIDE DEF new
    <3>6. Seen(new, store \union Creating(c))
      BY <3>5 DEF Seen
    <3> QED BY <2>1, <3>3, <3>5, <3>6, KnownDeed
  <2>3. CASE UnknownCreate(c, Step(c, "confirm"))
    BY <1>2, <2>1, <2>3, UnknownDeed DEF Signing
  <2> QED BY <1>6, <2>2, <2>3 DEF CreateAttestation
<1>7. CASE ConfirmAttestation(c)
  <2>1. CASE Moved(c, [Step(c, "attest") EXCEPT !.tries = 1])
    <3> DEFINE k == Step(c, "attest")
               new == [k EXCEPT !.tries = 1]
    <3>1. k \in CallType /\ k.created = call[c].created /\ Seen(k, store)
      BY <1>2 DEF Signing
    <3>2. Moved(c, new)
      BY <2>1
    <3> HIDE DEF k
    <3>3. new \in CallType /\ new.created = call[c].created /\ Seen(new, store)
      BY <3>1, Fields, Kept
    <3> QED BY <3>2, <3>3, MovedDeed
  <2> QED BY <1>3, <1>7, <2>1, EndedDeed DEF ConfirmAttestation
<1> QED BY <1>4, <1>5, <1>6, <1>7
LEMMA CallSteps ==
  ASSUME Typed, NEW c \in Caller, Progress(c) \/ Interrupt(c) PROVE Deed(c)
BY HeaderSteps, BatchSteps, ReadSteps, ListSteps, AttestationSteps, Interrupting DEF Progress

-----------------------------------------------------------------------------
(* The invariant.                                                          *)

LEMMA InvTyped == Inv => Typed
BY DEF Inv, Typed

LEMMA GoodRecords ==
  ASSUME NEW batch, Good(batch) PROVE batch \subseteq AllRecords
BY Records DEF Good

\* A deed changes one call, and only adds to the store.
LEMMA DeedFrame ==
  ASSUME Inv, NEW c \in Caller, NEW new \in CallType, Goto(c, new), Counted,
         Seen(new, store'),
         Quiet(c, new) \/ Created(c, new) \/ GivenUp(c, new) \/ Told(c, new)
  PROVE  /\ call' \in [Caller -> CallType] /\ call'[c] = new
         /\ \A d \in Caller : d # c => call'[d] = call[d]
         /\ store \subseteq store'
         /\ CallsInv'
<1>1. call \in [Caller -> CallType] /\ CallsInv
  BY DEF Inv, PersistenceTypeOK
<1>2. /\ call' \in [Caller -> CallType] /\ call'[c] = new
      /\ \A d \in Caller : d # c => call'[d] = call[d]
  BY <1>1 DEF Goto
<1>3. store \subseteq store'
  BY DEF Quiet, Created, GivenUp, Told
<1>4. \A k : Seen(k, store) => Seen(k, store')
  BY <1>3, Growing
<1>5. ASSUME NEW d \in Caller PROVE Seen(call'[d], store')
  BY <1>1, <1>2, <1>4 DEF CallsInv
<1> QED BY <1>2, <1>3, <1>5 DEF CallsInv

\* Only one call can create the header, and only it can say so.
LEMMA DeedClaim ==
  ASSUME Inv, NEW c \in Caller, NEW new \in CallType,
         call' \in [Caller -> CallType], call'[c] = new, store \subseteq store',
         \A d \in Caller : d # c => call'[d] = call[d],
         Quiet(c, new) \/ Created(c, new) \/ GivenUp(c, new) \/ Told(c, new)
  PROVE  ClaimInv'
<1>0. ClaimInv
  BY DEF Inv
<1>1. CASE /\ receipts' = receipts
           /\ new.created => call[c].created
  BY <1>0, <1>1 DEF ClaimInv, CreatedOnce
<1>2. CASE Created(c, new) /\ Creating(c) = {Header(call[c].plan)} /\ ~ call[c].created
  <2>1. receipts' = receipts
    BY <1>2 DEF Created
  <2>2. \A p \in Plan : Header(p) \notin store
    BY <1>2 DEF Created, Free, Taken, SameKey, Header
  <2>3. /\ \A d \in Caller : ~ call[d].created
        /\ \A r \in receipts : r.disposition # "created"
    BY <1>0, <2>2 DEF ClaimInv
  <2>4. \A d \in Caller : call'[d].created => d = c
    BY <2>3
  <2>5. call'[c].created => \E p \in Plan : Header(p) \in store'
    <3>1. CASE At(c, "createHeader")
      <4>1. call[c].plan \in Plan
        BY <3>1, InvTyped, TypedCall DEF At, Seen, Early
      <4> QED BY <1>2, <4>1 DEF Created
    <3>2. CASE ~ At(c, "createHeader")
      <4>1. Good(Creating(c))
        BY <1>2, InvTyped, TypedCall, CreatingGood
      <4>2. Header(call[c].plan).kind = "candidate"
        BY DEF Header
      <4>3. Header(call[c].plan) \in AllRecords
        BY <1>2, <4>1, GoodRecords
      <4>4. PICK p \in Plan : Header(call[c].plan) = Header(p)
        BY <4>2, <4>3, Records
      <4> QED BY <1>2, <4>4 DEF Created
    <3> QED BY <3>1, <3>2
  <2> QED BY <2>1, <2>3, <2>4, <2>5 DEF ClaimInv, CreatedOnce
<1>3. CASE Told(c, new)
  <2>1. /\ receipts' = receipts \union {Receipt(c)} /\ store' = store
        /\ ~ call'[c].created
    BY <1>3 DEF Told, Idle
  <2>2. Receipt(c).disposition = "created" => call[c].created
    BY DEF Receipt, Disposition
  <2>3. \A d \in Caller : call'[d].created => call[d].created /\ d # c
    BY <2>1
  <2> HIDE DEF Receipt
  <2>4. \A r \in receipts' : r \in receipts \/ r = Receipt(c)
    BY <2>1
  <2>5. /\ \A d \in Caller : call'[d].created => \E p \in Plan : Header(p) \in store'
        /\ \A r \in receipts' : r.disposition = "created" => \E p \in Plan : Header(p) \in store'
    BY <1>0, <2>1, <2>2, <2>3, <2>4 DEF ClaimInv
  <2>6. /\ \A d, e \in Caller : call'[d].created /\ call'[e].created => d = e
        /\ \A r \in receipts', d \in Caller : ~ (r.disposition = "created" /\ call'[d].created)
    BY <1>0, <2>2, <2>3, <2>4 DEF ClaimInv
  <2>7. CreatedOnce'
    BY <1>0, <2>2, <2>4 DEF ClaimInv, CreatedOnce
  <2> QED BY <2>5, <2>6, <2>7 DEF ClaimInv
<1> QED BY <1>1, <1>2, <1>3 DEF Quiet, Created, GivenUp

LEMMA DeedInv ==
  ASSUME Inv, NEW c \in Caller, Deed(c) PROVE Inv'
<1>1. PICK new \in CallType :
         /\ Goto(c, new) /\ Counted /\ Seen(new, store')
         /\ Quiet(c, new) \/ Created(c, new) \/ GivenUp(c, new) \/ Told(c, new)
  BY DEF Deed
<1>2. /\ call' \in [Caller -> CallType] /\ call'[c] = new
      /\ \A d \in Caller : d # c => call'[d] = call[d]
      /\ store \subseteq store'
      /\ CallsInv'
  BY <1>1, DeedFrame
<1>3. Creating(c) # {} => Good(Creating(c))
  BY InvTyped, TypedCall, CreatingGood
<1>4. StoreInv'
  <2>1. CASE Created(c, new)
    BY <1>3, <2>1, Landing DEF Inv, Created
  <2>2. CASE store' = store
    BY <2>2 DEF Inv, StoreInv, Whole
  <2> QED BY <1>1, <2>1, <2>2 DEF Quiet, GivenUp, Told
<1>5. StrayInv'
  <2>1. \A batch \in pending' : Good(batch)
    BY <1>1, <1>3 DEF Inv, StrayInv, Quiet, Created, GivenUp, Told
  <2>2. \A batch : Good(batch) => Good(batch)'
    BY <1>2, Growing
  <2> QED BY <2>1, <2>2 DEF StrayInv
<1>6. ClaimInv'
  BY <1>1, <1>2, DeedClaim
<1>7. PersistenceTypeOK'
  <2>1. store' \subseteq AllRecords
    BY <1>4 DEF StoreInv
  <2>2. pending' \subseteq SUBSET AllRecords
    <3>1. pending \subseteq SUBSET AllRecords
      BY DEF Inv, PersistenceTypeOK
    <3>2. Creating(c) # {} => Creating(c) \subseteq AllRecords
      BY <1>3, GoodRecords
    <3> QED BY <1>1, <3>1, <3>2 DEF Quiet, Created, GivenUp, Told
  <2>3. receipts' \subseteq
          [by : Caller, nth : Nat, plan : Plan, signer : Signer,
           disposition : {"created", "resumed", "confirmed", "verified"}]
    <3>1. CASE receipts' = receipts
      BY <3>1 DEF Inv, PersistenceTypeOK
    <3>2. CASE Told(c, new)
      <4>1. call[c].plan \in Plan /\ call[c].signer \in Signer /\ calls[c] \in Nat
        BY <3>2, InvTyped, TypedCall DEF Told, Seen, Held
      <4>2. Disposition(c) \in {"created", "resumed", "confirmed", "verified"}
        BY DEF Disposition
      <4> QED BY <3>2, <4>1, <4>2 DEF Told, Receipt, Inv, PersistenceTypeOK
    <3> QED BY <1>1, <3>1, <3>2 DEF Quiet, Created, GivenUp
  <2> QED BY <1>1, <1>2, <2>1, <2>2, <2>3 DEF PersistenceTypeOK, Counted
<1> QED BY <1>2, <1>4, <1>5, <1>6, <1>7 DEF Inv

LEMMA LandInv ==
  ASSUME Inv, NEW batch \in pending, Land(batch) \/ Drop(batch) PROVE Inv'
<1>1. /\ Good(batch) /\ batch \subseteq AllRecords
      /\ pending' = pending \ {batch} /\ UNCHANGED <<call, receipts, calls, faults>>
  BY GoodRecords DEF Inv, StrayInv, Land, Drop
<1>2. store' = store \/ (Free(batch) /\ store' = store \union batch)
  BY DEF Land, Drop
<1>3. StoreInv'
  <2>1. CASE store' = store
    BY <2>1 DEF Inv, StoreInv, Whole
  <2> QED BY <1>1, <1>2, <2>1, Landing DEF Inv
<1>4. StrayInv' /\ CallsInv'
  BY <1>1, <1>2, Growing DEF Inv, StrayInv, CallsInv
<1>5. ClaimInv'
  BY <1>1, <1>2 DEF Inv, ClaimInv, CreatedOnce
<1>6. PersistenceTypeOK'
  BY <1>1, <1>3 DEF Inv, PersistenceTypeOK, StoreInv
<1> QED BY <1>3, <1>4, <1>5, <1>6 DEF Inv

LEMMA InitInv == Init => Inv
<1> SUFFICES ASSUME Init PROVE Inv
  OBVIOUS
<1>1. PersistenceTypeOK /\ CallsInv
  BY IdleSeen DEF Init, PersistenceTypeOK, CallsInv
<1>2. StoreInv /\ StrayInv
  BY DEF Init, StoreInv, StrayInv
<1>3. ClaimInv
  BY DEF Init, ClaimInv, CreatedOnce, Idle
<1> QED BY <1>1, <1>2, <1>3 DEF Inv

LEMMA NextInv == Inv /\ [Next]_vars => Inv'
<1> SUFFICES ASSUME Inv, [Next]_vars PROVE Inv'
  OBVIOUS
<1>1. CASE UNCHANGED vars
  BY <1>1 DEF vars, Inv, PersistenceTypeOK, StoreInv, Whole, StrayInv, Good, CallsInv,
     ClaimInv, CreatedOnce
<1>2. ASSUME NEW c \in Caller,
             \/ \E p \in Plan, s \in Signer : PersistCandidate(c, p, s)
             \/ \E s \in Signer : VerifyCandidate(c, s)
             \/ Progress(c) \/ Interrupt(c)
      PROVE  Inv'
  BY <1>2, InvTyped, Beginning, CallSteps, DeedInv
<1>3. ASSUME NEW batch \in pending, Land(batch) \/ Drop(batch) PROVE Inv'
  BY <1>3, LandInv
<1> QED BY <1>1, <1>2, <1>3 DEF Next

LEMMA Invariance == Spec => []Inv
BY InitInv, NextInv, PTL DEF Spec

\* The type of the state holds in every reachable state.
THEOREM PersistenceTypeCorrect == Spec => []PersistenceTypeOK
<1>1. Inv => PersistenceTypeOK
  BY DEF Inv
<1> QED BY <1>1, Invariance, PTL

\* At most one receipt ever says that the version was created, whichever
\* creates were retried or given up.
THEOREM CreatedOnceHolds == Spec => []CreatedOnce
<1>1. Inv => CreatedOnce
  BY DEF Inv, ClaimInv
<1> QED BY <1>1, Invariance, PTL
-----------------------------------------------------------------------------
(* The refinement.                                                         *)

HolderOf(records) == IF \E p \in Plan : Header(p) \in records
                     THEN CHOOSE p \in Plan : Header(p) \in records ELSE None
StoredOf(records) == {r \in records : r.kind \in {"document", "chunk"}}
SignerOf(records) == IF \E r \in records : r.kind = "attestation"
                     THEN (CHOOSE r \in records : r.kind = "attestation").value.signer
                     ELSE None
abstract == <<Holder, Stored, AttestedBy, receipts>>

LEMMA Mapped ==
  /\ Holder = HolderOf(store) /\ Holder' = HolderOf(store')
  /\ Stored = StoredOf(store) /\ Stored' = StoredOf(store')
  /\ AttestedBy = SignerOf(store) /\ AttestedBy' = SignerOf(store')
<1>1. Holder = HolderOf(store) /\ Stored = StoredOf(store)
  BY DEF Holder, HolderOf, Stored, StoredOf
<1>2. AttestedBy = SignerOf(store)
  BY DEF AttestedBy, SignerOf, Attested
<1>3. Holder' = HolderOf(store') /\ Stored' = StoredOf(store')
  BY DEF Holder, HolderOf, Stored, StoredOf
<1>4. AttestedBy' = SignerOf(store')
  BY DEF AttestedBy, SignerOf, Attested
<1> QED BY <1>1, <1>2, <1>3, <1>4

LEMMA HolderIs ==
  ASSUME NEW records, NEW p \in Plan, Header(p) \in records,
         \A q \in Plan : Header(q) \in records => q = p
  PROVE  HolderOf(records) = p
<1> HIDE DEF Header
<1> QED BY DEF HolderOf

LEMMA SameHolder ==
  ASSUME NEW old, NEW new, \A p \in Plan : Header(p) \in old <=> Header(p) \in new
  PROVE  HolderOf(old) = HolderOf(new)
<1> HIDE DEF Header
<1>1. (CHOOSE p \in Plan : Header(p) \in old) = (CHOOSE p \in Plan : Header(p) \in new)
  OBVIOUS
<1> QED BY <1>1 DEF HolderOf

LEMMA SignerIs ==
  ASSUME NEW records, NEW p \in Plan, NEW s \in Signer, Attestation(p, s) \in records,
         \A r \in records : r.kind = "attestation" => r = Attestation(p, s)
  PROVE  SignerOf(records) = s
<1>1. Attestation(p, s).kind = "attestation" /\ Attestation(p, s).value.signer = s
  BY Records
<1> HIDE DEF Attestation
<1>2. (CHOOSE r \in records : r.kind = "attestation") = Attestation(p, s)
  BY <1>1
<1> QED BY <1>1, <1>2 DEF SignerOf

LEMMA SameSigner ==
  ASSUME NEW old, NEW new,
         \A r : r.kind = "attestation" => (r \in old <=> r \in new)
  PROVE  SignerOf(old) = SignerOf(new)
<1>1. (\E r \in old : r.kind = "attestation") <=> (\E r \in new : r.kind = "attestation")
  OBVIOUS
<1>2. (CHOOSE r \in old : r.kind = "attestation") = (CHOOSE r \in new : r.kind = "attestation")
  OBVIOUS
<1> QED BY <1>1, <1>2 DEF SignerOf

\* What is stored is of the plan that holds the version.
LEMMA StoredBelongs ==
  ASSUME StoreInv, NEW p \in Plan, Header(p) \in store
  PROVE  Holder = p /\ Stored \subseteq RecordsOf(p)
<1>1. \A q \in Plan : Header(q) \in store => q = p
  BY DEF StoreInv
<1>2. HolderOf(store) = p
  BY <1>1, HolderIs
<1>3. StoredOf(store) \subseteq RecordsOf(p)
  BY <1>1 DEF StoreInv, StoredOf
<1> QED BY <1>2, <1>3, Mapped

LEMMA WholeIsComplete ==
  ASSUME StoreInv, NEW p \in Plan, Whole(p)
  PROVE  Holder = p /\ Stored = RecordsOf(p) /\ Candidate!Complete
<1>1. Holder = p /\ Stored \subseteq RecordsOf(p)
  BY StoredBelongs DEF Whole
<1>2. RecordsOf(p) \subseteq Stored
  BY Records DEF Whole, Stored
<1>3. p # None
  BY PlansAssumption
<1> QED BY <1>1, <1>2, <1>3 DEF Candidate!Complete

LEMMA HeaderReserves ==
  ASSUME StoreInv, NEW p \in Plan, Free({Header(p)}), store' = store \union {Header(p)},
         receipts' = receipts
  PROVE  Candidate!Reserve
<1>1. \A q \in Plan : Header(q) \notin store
  BY Records DEF Free, Taken, SameKey
<1>2. Holder = None
  BY <1>1 DEF Holder
<1>3. \A r : r.kind # "candidate" => (r \in store <=> r \in store')
  BY Records
<1>4. HolderOf(store') = p
  <2>1. \A q \in Plan : Header(q) \in store' => Header(q) = Header(p)
    BY <1>1
  <2>2. \A q \in Plan : Header(q) \in store' => q = p
    BY <2>1, Records
  <2> QED BY <2>2, HolderIs
<1>5. StoredOf(store) = StoredOf(store')
  BY <1>3, Records DEF StoredOf
<1>6. SignerOf(store) = SignerOf(store')
  BY <1>3, SameSigner
<1> QED BY <1>2, <1>4, <1>5, <1>6, Mapped DEF Candidate!Reserve

LEMMA RecordsAdd ==
  ASSUME StoreInv, NEW p \in Plan, Header(p) \in store, NEW batch \in SUBSET RecordsOf(p),
         store' = store \union batch, receipts' = receipts
  PROVE  Candidate!Add
<1>1. Holder = p /\ Stored \subseteq RecordsOf(p) /\ p # None
  BY StoredBelongs, PlansAssumption
<1>2. \A r \in batch : r.kind \in {"document", "chunk"}
  BY Records
<1>3. HolderOf(store) = HolderOf(store')
  <2>1. \A q \in Plan : Header(q) \in store <=> Header(q) \in store'
    BY <1>2, Records
  <2> QED BY <2>1, SameHolder
<1>4. SignerOf(store) = SignerOf(store')
  <2>1. \A r : r.kind = "attestation" => (r \in store <=> r \in store')
    BY <1>2
  <2> QED BY <2>1, SameSigner
<1>5. Stored' = Stored \union batch
  BY <1>2 DEF Stored
<1>6. Stored' \in SUBSET RecordsOf(Holder) /\ Stored \subseteq Stored'
  BY <1>1, <1>5
<1> QED BY <1>1, <1>3, <1>4, <1>6, Mapped DEF Candidate!Add

LEMMA AttestationAttests ==
  ASSUME StoreInv, NEW p \in Plan, NEW s \in Signer, Whole(p), Free({Attestation(p, s)}),
         store' = store \union {Attestation(p, s)}, receipts' = receipts
  PROVE  Candidate!Attest
<1>1. Candidate!Complete
  BY WholeIsComplete
<1>2. \A r \in store : r.kind # "attestation"
  <2> SUFFICES ASSUME NEW r \in store, r.kind = "attestation" PROVE FALSE
    OBVIOUS
  <2>1. PICK q \in Plan, t \in Signer : r = Attestation(q, t)
    BY DEF StoreInv
  <2>2. r.key = 0 /\ Attestation(p, s).key = 0 /\ Attestation(p, s).kind = "attestation"
    BY <2>1, Records
  <2> QED BY <2>2 DEF Free, Taken, SameKey
<1>3. AttestedBy = None
  BY <1>2 DEF AttestedBy, Attested
<1>4. SignerOf(store') = s
  BY <1>2, SignerIs
<1>5. \A r : r.kind # "attestation" => (r \in store <=> r \in store')
  BY Records
<1>6. HolderOf(store) = HolderOf(store')
  <2>1. \A q \in Plan : Header(q) \in store <=> Header(q) \in store'
    BY <1>5, Records
  <2> QED BY <2>1, SameHolder
<1>7. StoredOf(store) = StoredOf(store')
  BY <1>5, Records DEF StoredOf
<1> QED BY <1>1, <1>3, <1>4, <1>6, <1>7, Mapped DEF Candidate!Attest

LEMMA ReceiptTells ==
  ASSUME Inv, NEW c \in Caller, Told(c, Idle) PROVE \E r \in receipts' : Candidate!Tell(r)
<1> DEFINE p == call[c].plan
           s == call[c].signer
<1>1. /\ p \in Plan /\ s \in Signer /\ Whole(p) /\ Attestation(p, s) \in store
      /\ receipts' = receipts \union {Receipt(c)} /\ store' = store
  BY InvTyped, TypedCall DEF Told, Seen, Held, Signing, Whole, RecordsOf
<1>2. Holder = p /\ Candidate!Complete
  BY <1>1, WholeIsComplete DEF Inv
<1>3. AttestedBy = s /\ s # None
  <2>1. Attestation(p, s).kind = "attestation"
    BY <1>1, Records
  <2>2. \A r \in store : r.kind = "attestation" => r = Attestation(p, s)
    BY <1>1, <2>1 DEF Inv, StoreInv
  <2>3. SignerOf(store) = s
    BY <1>1, <2>2, SignerIs
  <2> QED BY <1>1, <2>3, Mapped, PlansAssumption
<1>4. Receipt(c).plan = p /\ Receipt(c).signer = s
  BY DEF Receipt
<1>5. Holder' = Holder /\ Stored' = Stored /\ AttestedBy' = AttestedBy
  BY <1>1, Mapped
<1> HIDE DEF p, s
<1>6. Candidate!Tell(Receipt(c))
  BY <1>1, <1>2, <1>3, <1>4, <1>5 DEF Candidate!Tell
<1> QED BY <1>1, <1>6

\* A create that lands is a step of the candidate.
LEMMA LandingMaps ==
  ASSUME StoreInv, NEW batch, Good(batch), Free(batch), store' = store \union batch,
         receipts' = receipts
  PROVE  Candidate!Next
<1>1. ASSUME NEW p \in Plan, batch = {Header(p)} PROVE Candidate!Next
  BY <1>1, HeaderReserves DEF Candidate!Next
<1>2. ASSUME NEW p \in Plan, Header(p) \in store, batch \subseteq RecordsOf(p)
      PROVE  Candidate!Next
  BY <1>2, RecordsAdd DEF Candidate!Next
<1>3. ASSUME NEW p \in Plan, NEW s \in Signer, batch = {Attestation(p, s)}, Whole(p)
      PROVE  Candidate!Next
  BY <1>3, AttestationAttests DEF Candidate!Next
<1> QED BY <1>1, <1>2, <1>3 DEF Good

LEMMA Stuttering ==
  ASSUME store' = store, receipts' = receipts PROVE UNCHANGED abstract
BY Mapped DEF abstract

LEMMA StepMaps ==
  ASSUME Inv, [Next]_vars PROVE Candidate!Next \/ UNCHANGED abstract
<1>1. CASE UNCHANGED vars
  BY <1>1, Stuttering DEF vars
<1>2. ASSUME NEW c \in Caller, Deed(c) PROVE Candidate!Next \/ UNCHANGED abstract
  <2>1. PICK new \in CallType :
           Quiet(c, new) \/ Created(c, new) \/ GivenUp(c, new) \/ Told(c, new)
    BY <1>2 DEF Deed
  <2>2. CASE Quiet(c, new) \/ GivenUp(c, new)
    BY <2>2, Stuttering DEF Quiet, GivenUp
  <2>3. CASE Created(c, new)
    <3>1. Good(Creating(c))
      BY <2>3, InvTyped, TypedCall, CreatingGood DEF Created
    <3> QED BY <2>3, <3>1, LandingMaps DEF Created, Inv
  <2>4. CASE Told(c, new)
    <3>1. Told(c, Idle)
      BY <2>4 DEF Told
    <3> QED BY <3>1, ReceiptTells DEF Candidate!Next
  <2> QED BY <2>1, <2>2, <2>3, <2>4
<1>3. ASSUME NEW batch \in pending, Land(batch) \/ Drop(batch)
      PROVE  Candidate!Next \/ UNCHANGED abstract
  <2>1. Good(batch) /\ receipts' = receipts
    BY <1>3 DEF Inv, StrayInv, Land, Drop
  <2>2. CASE store' = store
    BY <2>1, <2>2, Stuttering
  <2>3. CASE Free(batch) /\ store' = store \union batch
    BY <2>1, <2>3, LandingMaps DEF Inv
  <2> QED BY <1>3, <2>2, <2>3 DEF Land, Drop
<1> QED BY <1>1, <1>2, <1>3, InvTyped, Beginning, CallSteps DEF Next

LEMMA InitMaps == Init => Candidate!Init
BY DEF Init, Candidate!Init, Holder, Stored, AttestedBy, Attested

\* However calls interleave, fail and are replayed, and whenever a create that
\* was given up lands, the collections are one immutable candidate.
THEOREM CandidateRefined == Spec => ImplementsCandidate
<1>1. Inv /\ [Next]_vars => [Candidate!Next]_abstract
  BY StepMaps
<1> QED BY <1>1, InitMaps, Invariance, PTL DEF Spec, ImplementsCandidate, Candidate!Spec, abstract
=============================================================================
