------------------------------ MODULE Widget_proofs ---------------------------
(***************************************************************************)
(* Widget: whatever the page, the visitor and the network do, and for any  *)
(* bases, generations, messages and limits, what was begun before a        *)
(* configuration, a clear, a close or a removal stays out of what comes    *)
(* after (GenerationsApart).                                               *)
(*                                                                         *)
(* The inductive invariant WidgetInv says what abort() and the two         *)
(* controllers leave: a coroutine that can still run is either the one its *)
(* controller names, of the current generation and base, or it has been    *)
(* settled and only waits for its turn (CheckInv, SendInv); what the panel *)
(* shows is the owner's work (OwnCheckInv, OwnSendInv, StateInv); a turn   *)
(* names an exchange that is over and was of its session (TurnInv,         *)
(* PostedInv).  The limits of a request's history need induction over its  *)
(* turns: WFMin, for the order of the naturals, gives it.                  *)
(***************************************************************************)
EXTENDS Widget, WellFoundedInduction, SequenceTheorems, FiniteSetTheorems, TLAPS

-------------------------------------------------------------------------------
(* The inductive invariant.                                                *)

Base == Bases \union {NoBase}
Turn == [of : 1 .. MaxSends, role : {"user", "assistant"}, text : Seq(Nat)]
CheckGot == {"", "response", "rejected", "timeout", "available", "mismatch", "broken",
             "aborted", "told"}
Check == [at : {"unused", "fetch", "body", "over"}, got : CheckGot, base : Base,
          aborted : BOOLEAN, verdict : {"", "available"}]
SendGot == {"", "response", "failed", "timeout", "eof", "batch", "aborted", "returned", "told"}
Result == Terminal \union {"", "protocol", "aborted", "network"}
Sent == [at : {"unused", "fetch", "read", "result", "over"}, got : SendGot,
         batch : Seq(Events), base : Base, gen : Int, aborted : BOOLEAN, attempt : 0 .. 2,
         text : Seq(Nat), saw : SUBSET Events, result : Result, session : Int,
         posted : Seq(Turn), since : Int]

PageInv ==
  /\ connected \in BOOLEAN /\ apiBase \in Base /\ open \in BOOLEAN
  /\ generation \in 0 .. MaxGeneration /\ since \in 0 .. generation
  /\ compatibleBase \in Base /\ stranded \in BOOLEAN /\ session \in Nat
  /\ state \in {"closed", "checking", "ready", "sending", "terminal"}
  /\ compatibility \in 0 .. MaxGeneration \union {None}
  /\ chat \in 1 .. MaxSends \union {None}
  /\ frame \in {"none", "open", "clear", "check", "send"} \X Int

Active(co) == co.at \in {"fetch", "body", "read", "result"}

CheckSound(g, check, gen, owner, fr) ==
  /\ g > gen => check = NoCheck
  /\ Active(check) => check.verdict = "" /\ check.base # NoBase
  /\ Active(check) /\ g = gen => owner = g
  /\ check.at = "fetch" =>
       check.got \in {"", "response", "rejected", "timeout", "aborted", "told"}
  /\ check.at = "body" => check.got \in {"", "available", "mismatch", "broken", "timeout",
                                         "aborted", "told"}
  /\ ~ Active(check) => check.got = ""
  /\ check.got = "told" <=> fr = <<"check", g>>
ChecksSound(cs, gen, owner, fr) ==
  /\ cs \in [0 .. MaxGeneration -> Check]
  /\ \A g \in 0 .. MaxGeneration : CheckSound(g, cs[g], gen, owner, fr)
CheckInv == ChecksSound(checks, generation, compatibility, frame)

OwnCheckInv ==
  compatibility # None =>
    /\ compatibility = generation
    /\ Active(checks[generation]) /\ checks[generation].base = apiBase
    /\ checks[generation].got # "aborted"
    /\ compatibleBase = NoBase /\ open /\ chat = None
    /\ IF frame = <<"check", generation>> THEN state = "terminal" ELSE state = "checking"

SendSound(s, send, gen, owner, fr) ==
  /\ Active(send) => send.gen <= gen /\ send.base # NoBase
  /\ Active(send) /\ send.gen = gen => owner = s
  /\ Active(send) /\ owner # s => send.got # ""
  /\ send.at = "fetch" => send.got \in {"", "response", "failed", "timeout", "aborted"}
  /\ send.at = "read" => send.got \in {"", "failed", "eof", "timeout", "batch", "aborted"}
  /\ send.at = "result" => send.got \in {"returned", "told"}
  /\ ~ Active(send) => send.got = ""
  /\ send.got = "batch" => send.batch # <<>>
  /\ send.got = "told" <=> fr = <<"send", s>>
SendsSound(ss, gen, owner, fr) ==
  /\ ss \in [1 .. MaxSends -> Sent]
  /\ \A s \in 1 .. MaxSends : SendSound(s, ss[s], gen, owner, fr)
SendInv == SendsSound(sends, generation, chat, frame)

OwnSendInv ==
  chat # None =>
    /\ Active(sends[chat]) /\ sends[chat].gen = generation
    /\ sends[chat].base = apiBase /\ open
    /\ \A s \in 1 .. MaxSends : Active(sends[s]) => s = chat
    /\ IF frame = <<"send", chat>> THEN state = "terminal" ELSE state = "sending"

StateInv ==
  /\ state = "sending" => \E s \in 1 .. MaxSends : Active(sends[s])
  /\ state = "checking" => compatibleBase = NoBase
  /\ state = "checking" /\ apiBase # NoBase =>
       compatibility # None \/ stranded \/ frame[1] = "clear"
  /\ state = "checking" /\ ~ connected => stranded
  /\ ~ open => state = "closed"
  /\ open /\ frame[1] # "open" => state # "closed"
  /\ frame[1] \in {"open", "clear"} => open /\ chat = None
  /\ frame[1] = "clear" => state \in {"checking", "ready"} \/ apiBase = NoBase

\* Some check from one generation to another answered for the base.
Answered(cs, base, first, last) ==
  \E g \in first .. last : cs[g].verdict = "available" /\ cs[g].base = base
BaseInv ==
  /\ compatibleBase # NoBase =>
       compatibleBase = apiBase /\ Answered(checks, compatibleBase, since, generation)
  /\ checks[generation].verdict = "available" => compatibleBase # NoBase
SentInv ==
  \A s \in 1 .. MaxSends : sends[s].at # "unused" =>
    /\ sends[s].since \in 0 .. generation /\ sends[s].gen \in 0 .. generation
    /\ Answered(checks, sends[s].base, sends[s].since, sends[s].gen)

Kept(send) == send.at = "over" \/ send.got = "told"
TextInv == \A s \in 1 .. MaxSends :
  \A k \in 1 .. Len(sends[s].text) : sends[s].text[k] = sends[s].attempt
SessionInv == \A s \in 1 .. MaxSends :
  Active(sends[s]) /\ sends[s].gen = generation => sends[s].session = session
TurnInv ==
  /\ history \in Seq(Turn)
  /\ \A i \in DOMAIN history :
       LET send == sends[history[i].of]
       IN  /\ Kept(send) /\ send.session = session /\ send.result = "stop"
           /\ history[i].role = "assistant" => history[i].text = send.text
PostedInv ==
  \A s \in 1 .. MaxSends :
    LET posted == sends[s].posted
    IN  /\ \A i \in DOMAIN posted : /\ Kept(sends[posted[i].of])
                                    /\ sends[posted[i].of].session = sends[s].session
        /\ Len(posted) <= HistoryLimit /\ Aggregate(posted) <= AggregateMax

WidgetInv ==
  /\ PageInv /\ CheckInv /\ OwnCheckInv /\ SendInv /\ OwnSendInv /\ StateInv
  /\ BaseInv /\ SentInv /\ TextInv /\ SessionInv /\ TurnInv /\ PostedInv

\* What is known of the constants.
LEMMA Bounds ==
  /\ NoBase \notin Bases /\ Events \subseteq EventKinds /\ BatchMax \in Nat
  /\ MaxSends \in Nat /\ MaxGeneration \in Nat /\ MaxGeneration >= 1
  /\ HistoryLimit \in Nat \ {0} /\ AggregateMax \in Nat
<1>1. BatchMax \in Nat BY WidgetAssumption DEF WidgetAssumption
<1>2. MaxSends \in Nat BY WidgetAssumption DEF WidgetAssumption
<1>3. AggregateMax \in Nat BY WidgetAssumption DEF WidgetAssumption
<1>4. MaxGeneration \in Nat \ {0} BY WidgetAssumption DEF WidgetAssumption
<1>5. HistoryLimit \in Nat \ {0} BY WidgetAssumption DEF WidgetAssumption
<1>6. MaxGeneration >= 1 BY <1>4
<1>7. NoBase \notin Bases BY WidgetAssumption DEF WidgetAssumption
<1>8. Events \subseteq EventKinds BY WidgetAssumption DEF WidgetAssumption
<1> QED BY <1>1, <1>2, <1>3, <1>4, <1>5, <1>6, <1>7, <1>8

LEMMA LeastOf ==
  ASSUME NEW T \in SUBSET Nat, T # {}
  PROVE  \E n \in T : \A m \in T : n <= m
<1>1. IsWellFoundedOn(OpToRel(<, Nat), Nat) BY NatLessThanWellFounded
<1>2. PICK x \in T : \A y \in T : ~ (<<y, x>> \in OpToRel(<, Nat))
  BY <1>1, WFMin
<1>3. ASSUME NEW m \in T PROVE x <= m
  <2>1. ~ (<<m, x>> \in OpToRel(<, Nat)) BY <1>2
  <2>2. m \in Nat /\ x \in Nat OBVIOUS
  <2>3. ~ (m < x) BY <2>1, <2>2 DEF OpToRel
  <2> QED BY <2>2, <2>3
<1> QED BY <1>3

\* Induction, on a set in place of a predicate.
LEMMA InductionInto ==
  ASSUME NEW T, 0 \in T, \A n \in Nat : n \in T => n + 1 \in T
  PROVE  Nat \subseteq T
<1> SUFFICES ASSUME Nat \ T # {} PROVE FALSE OBVIOUS
<1>1. PICK n \in Nat \ T : \A m \in Nat \ T : n <= m BY LeastOf
<1>2. n # 0 BY <1>1
<1>3. n - 1 \in Nat BY <1>2
<1>4. n - 1 \in T BY <1>1, <1>3
<1> QED BY <1>3, <1>4, <1>1

\* The largest element of a set of positions that reaches k.
LEMMA MaxIs ==
  ASSUME NEW k \in Nat, NEW d \in SUBSET (1 .. k), k \in d
  PROVE  Max(d) = k
<1>1. \A x \in d : (\A y \in d : x >= y) <=> x = k OBVIOUS
<1> QED BY <1>1 DEF Max

\* Every set of positions has a largest element, and a smallest.
LEMMA MaxIn ==
  ASSUME NEW n \in Nat, NEW d \in SUBSET (1 .. n), d # {}
  PROVE  Max(d) \in d
<1> DEFINE T == {n - x : x \in d}
<1>1. T \in SUBSET Nat /\ T # {}
  <2>1. \A x \in d : n - x \in Nat OBVIOUS
  <2> QED BY <2>1
<1>2. PICK m \in T : \A k \in T : m <= k
  <2> HIDE DEF T
  <2> QED BY <1>1, LeastOf
<1>3. PICK x \in d : m = n - x OBVIOUS
<1>4. ASSUME NEW y \in d PROVE x >= y
  <2>1. m <= n - y BY <1>2
  <2>2. x \in Int /\ y \in Int OBVIOUS
  <2> QED BY <2>1, <2>2, <1>3
<1>5. \E z \in d : \A y \in d : z >= y BY <1>4
<1> QED BY <1>5 DEF Max

LEMMA MinIn ==
  ASSUME NEW n \in Nat, NEW d \in SUBSET (1 .. n), d # {}
  PROVE  Min(d) \in d
<1>1. d \in SUBSET Nat OBVIOUS
<1>2. PICK m \in d : \A k \in d : m <= k BY <1>1, LeastOf
<1> QED BY <1>2 DEF Min

\* What a fold takes at each set of positions, from the left and from the right.
FoldsLeft(it, n, base, op) ==
  \A d \in SUBSET (1 .. n) :
    it[d] = IF d = {} THEN base ELSE op[<<it[d \ {Max(d)}], Max(d)>>]
FoldsRight(it, n, base, op) ==
  \A d \in SUBSET (1 .. n) :
    it[d] = IF d = {} THEN base ELSE op[<<Min(d), it[d \ {Min(d)}]>>]

LEMMA LeftFold ==
  ASSUME NEW n \in Nat, NEW V, NEW base \in V, NEW op \in [V \X (1 .. n) -> V]
  PROVE  \E iter \in [SUBSET (1 .. n) -> V] : FoldsLeft(iter, n, base, op)
<1> DEFINE Meets(it, k) ==
      \A d \in SUBSET (1 .. k) :
        it[d] = IF d = {} THEN base ELSE op[<<it[d \ {Max(d)}], Max(d)>>]
    Has(k) == k <= n => \E it \in [SUBSET (1 .. n) -> V] : Meets(it, k)
    T == {k \in Nat : Has(k)}
<1>1. Has(0)
  <2>1. [d \in SUBSET (1 .. n) |-> base] \in [SUBSET (1 .. n) -> V] OBVIOUS
  <2>2. Meets([d \in SUBSET (1 .. n) |-> base], 0)
    <3> SUFFICES ASSUME NEW d \in SUBSET (1 .. 0)
                 PROVE  [e \in SUBSET (1 .. n) |-> base][d] = base /\ d = {}
      OBVIOUS
    <3>1. d = {} OBVIOUS
    <3> QED BY <3>1
  <2> QED BY <2>1, <2>2
<1>2. ASSUME NEW k \in Nat, Has(k) PROVE Has(k + 1)
  <2> SUFFICES ASSUME k + 1 <= n
               PROVE  \E it \in [SUBSET (1 .. n) -> V] : Meets(it, k + 1)
    OBVIOUS
  <2>0. k <= n OBVIOUS
  <2> HIDE DEF Meets
  <2>1. PICK it \in [SUBSET (1 .. n) -> V] : Meets(it, k) BY <1>2, <2>0
  <2> USE DEF Meets
  <2> DEFINE next == [d \in SUBSET (1 .. n) |->
                        IF k + 1 \in d THEN op[<<it[d \ {k + 1}], k + 1>>] ELSE it[d]]
  <2>2. next \in [SUBSET (1 .. n) -> V]
    <3> SUFFICES ASSUME NEW d \in SUBSET (1 .. n)
                 PROVE  (IF k + 1 \in d THEN op[<<it[d \ {k + 1}], k + 1>>] ELSE it[d]) \in V
      OBVIOUS
    <3>1. it[d] \in V /\ it[d \ {k + 1}] \in V OBVIOUS
    <3>2. k + 1 \in 1 .. n OBVIOUS
    <3> QED BY <3>1, <3>2
  <2>3. ASSUME NEW d \in SUBSET (1 .. k + 1)
        PROVE  next[d] = IF d = {} THEN base ELSE op[<<next[d \ {Max(d)}], Max(d)>>]
    <3>0. d \in SUBSET (1 .. n) OBVIOUS
    <3>1. CASE k + 1 \in d
      <4>1. Max(d) = k + 1 BY <3>1, MaxIs
      <4>2. next[d] = op[<<it[d \ {k + 1}], k + 1>>] BY <3>0, <3>1
      <4>3. next[d \ {k + 1}] = it[d \ {k + 1}] BY <3>0
      <4>4. d # {} BY <3>1
      <4> QED BY <4>1, <4>2, <4>3, <4>4
    <3>2. CASE k + 1 \notin d
      <4>1. d \in SUBSET (1 .. k) BY <3>2
      <4>2. next[d] = it[d] BY <3>0, <3>2
      <4>3. it[d] = IF d = {} THEN base ELSE op[<<it[d \ {Max(d)}], Max(d)>>]
        BY <2>1, <4>1
      <4>4. next[d \ {Max(d)}] = it[d \ {Max(d)}] BY <3>0, <3>2
      <4> QED BY <4>2, <4>3, <4>4
    <3> QED BY <3>1, <3>2
  <2> HIDE DEF next
  <2> QED BY <2>2, <2>3
<1>3. Has(n)
  <2> HIDE DEF Has
  <2>1. 0 \in T /\ \A k \in Nat : k \in T => k + 1 \in T BY <1>1, <1>2
  <2> HIDE DEF T
  <2>2. n \in T BY <2>1, InductionInto
  <2> QED BY <2>2 DEF T
<1>4. n <= n OBVIOUS
<1> HIDE DEF Meets
<1>5. PICK it \in [SUBSET (1 .. n) -> V] : Meets(it, n) BY <1>3, <1>4
<1> QED BY <1>5 DEF Meets, FoldsLeft

\* The smallest element of a set of positions from k on.
LEMMA MinIs ==
  ASSUME NEW n \in Nat, NEW k \in 1 .. n, NEW d \in SUBSET (k .. n), k \in d
  PROVE  Min(d) = k
<1>1. \A x \in d : (\A y \in d : x =< y) <=> x = k OBVIOUS
<1> QED BY <1>1 DEF Min

\* A fold from the right has a value at every set of positions.
LEMMA RightFold ==
  ASSUME NEW n \in Nat, NEW V, NEW base \in V, NEW op \in [(1 .. n) \X V -> V]
  PROVE  \E iter \in [SUBSET (1 .. n) -> V] : FoldsRight(iter, n, base, op)
<1> DEFINE Meets(it, k) ==
      \A d \in SUBSET (n - k + 1 .. n) :
        it[d] = IF d = {} THEN base ELSE op[<<Min(d), it[d \ {Min(d)}]>>]
    Has(k) == k <= n => \E it \in [SUBSET (1 .. n) -> V] : Meets(it, k)
    T == {k \in Nat : Has(k)}
<1>1. Has(0)
  <2>1. [d \in SUBSET (1 .. n) |-> base] \in [SUBSET (1 .. n) -> V] OBVIOUS
  <2>2. Meets([d \in SUBSET (1 .. n) |-> base], 0)
    <3> SUFFICES ASSUME NEW d \in SUBSET (n - 0 + 1 .. n)
                 PROVE  [e \in SUBSET (1 .. n) |-> base][d] = base /\ d = {}
      OBVIOUS
    <3>1. d = {} OBVIOUS
    <3> QED BY <3>1
  <2> QED BY <2>1, <2>2
<1>2. ASSUME NEW k \in Nat, Has(k) PROVE Has(k + 1)
  <2> SUFFICES ASSUME k + 1 <= n
               PROVE  \E it \in [SUBSET (1 .. n) -> V] : Meets(it, k + 1)
    OBVIOUS
  <2>0. k <= n OBVIOUS
  <2> HIDE DEF Meets
  <2>1. PICK it \in [SUBSET (1 .. n) -> V] : Meets(it, k) BY <1>2, <2>0
  <2> USE DEF Meets
  <2> DEFINE j == n - k
             next == [d \in SUBSET (1 .. n) |->
                        IF j \in d THEN op[<<j, it[d \ {j}]>>] ELSE it[d]]
  <2>4. j \in 1 .. n /\ n - (k + 1) + 1 = j /\ n - k + 1 = j + 1 OBVIOUS
  <2> HIDE DEF j
  <2>2. next \in [SUBSET (1 .. n) -> V]
    <3> SUFFICES ASSUME NEW d \in SUBSET (1 .. n)
                 PROVE  (IF j \in d THEN op[<<j, it[d \ {j}]>>] ELSE it[d]) \in V
      OBVIOUS
    <3>1. it[d] \in V /\ it[d \ {j}] \in V OBVIOUS
    <3> QED BY <3>1, <2>4
  <2>3. ASSUME NEW d \in SUBSET (j .. n)
        PROVE  next[d] = IF d = {} THEN base ELSE op[<<Min(d), next[d \ {Min(d)}]>>]
    <3>0. d \in SUBSET (1 .. n) BY <2>4
    <3>1. CASE j \in d
      <4>1. Min(d) = j BY <3>1, <2>4, MinIs
      <4>2. next[d] = op[<<j, it[d \ {j}]>>] BY <3>0, <3>1
      <4>3. next[d \ {j}] = it[d \ {j}] BY <3>0
      <4>4. d # {} BY <3>1
      <4> QED BY <4>1, <4>2, <4>3, <4>4
    <3>2. CASE j \notin d
      <4>1. d \in SUBSET (n - k + 1 .. n) BY <3>2, <2>4
      <4>2. next[d] = it[d] BY <3>0, <3>2
      <4>3. it[d] = IF d = {} THEN base ELSE op[<<Min(d), it[d \ {Min(d)}]>>]
        BY <2>1, <4>1
      <4>4. next[d \ {Min(d)}] = it[d \ {Min(d)}] BY <3>0, <3>2
      <4> QED BY <4>2, <4>3, <4>4
    <3> QED BY <3>1, <3>2
  <2> HIDE DEF next
  <2> QED BY <2>2, <2>3, <2>4
<1>3. Has(n)
  <2> HIDE DEF Has
  <2>1. 0 \in T /\ \A k \in Nat : k \in T => k + 1 \in T BY <1>1, <1>2
  <2> HIDE DEF T
  <2>2. n \in T BY <2>1, InductionInto
  <2> QED BY <2>2 DEF T
<1>4. n <= n /\ n - n + 1 = 1 OBVIOUS
<1> HIDE DEF Meets
<1>5. PICK it \in [SUBSET (1 .. n) -> V] : Meets(it, n) BY <1>3, <1>4
<1>6. FoldsRight(it, n, base, op) BY <1>5, <1>4 DEF Meets, FoldsRight
<1> QED BY <1>6

-------------------------------------------------------------------------------
(* The history.                                                            *)

LEMMA SizesAre == ASSUME NEW t \in Turn PROVE TurnSize(t) \in Nat
<1>1. t.text \in Seq(Nat) BY DEF Turn
<1>2. Len(t.text) \in Nat BY <1>1
<1> QED BY <1>2 DEF TurnSize

\* The aggregate, turn by turn.
Sums(turns, p) ==
  /\ p \in [0 .. Len(turns) -> Nat]
  /\ p[0] = 0
  /\ \A k \in 1 .. Len(turns) : p[k] = p[k - 1] + TurnSize(turns[k])

LEMMA AggregateAdds ==
  ASSUME NEW turns \in Seq(Turn)
  PROVE  \E p : Sums(turns, p) /\ Aggregate(turns) = p[Len(turns)]
<1> DEFINE n == Len(turns)
           Step(it) == [d \in SUBSET (1 .. n) |->
             IF d = {} THEN 0 ELSE it[d \ {Max(d)}] + TurnSize(turns[Max(d)])]
           steps == CHOOSE it : it = Step(it)
           op == [x \in Nat \X (1 .. n) |-> x[1] + TurnSize(turns[x[2]])]
<1>0. n \in Nat /\ DOMAIN turns = 1 .. n OBVIOUS
<1>00. \A i \in 1 .. n : TurnSize(turns[i]) \in Nat
  <2> SUFFICES ASSUME NEW i \in 1 .. n PROVE TurnSize(turns[i]) \in Nat OBVIOUS
  <2>1. turns[i] \in Turn BY <1>0
  <2> QED BY <2>1, SizesAre
<1>1. Aggregate(turns) = steps[1 .. n]
  BY <1>0 DEF Aggregate, FoldLeft, MapThenFoldSet
<1> HIDE DEF n
<1>2. op \in [Nat \X (1 .. n) -> Nat] BY <1>00
<1>3. PICK it \in [SUBSET (1 .. n) -> Nat] : FoldsLeft(it, n, 0, op)
  <2> HIDE DEF op
  <2>1. n \in Nat /\ 0 \in Nat BY <1>0
  <2> QED BY <2>1, <1>2, LeftFold
<1>4. it = Step(it)
  <2>1. ASSUME NEW d \in SUBSET (1 .. n), d # {}
        PROVE  it[d] = it[d \ {Max(d)}] + TurnSize(turns[Max(d)])
    <3>1. Max(d) \in 1 .. n BY <1>0, <2>1, MaxIn
    <3>2. it[d \ {Max(d)}] \in Nat OBVIOUS
    <3> QED BY <1>3, <2>1, <3>1, <3>2 DEF FoldsLeft
  <2>2. it[{}] = 0 BY <1>3 DEF FoldsLeft
  <2>3. it = [d \in SUBSET (1 .. n) |-> it[d]] OBVIOUS
  <2> QED BY <2>1, <2>2, <2>3
<1>5. steps = Step(steps) BY <1>4
<1> HIDE DEF steps
<1>6. steps[{}] = 0 BY <1>5
<1>7. ASSUME NEW k \in 1 .. n
      PROVE  steps[1 .. k] = steps[1 .. k - 1] + TurnSize(turns[k])
  <2>0. n \in Int /\ k \in Int /\ 1 <= k /\ k <= n BY <1>0
  <2>9. \A x \in 1 .. k : x \in 1 .. n BY ONLY <2>0
  <2>10. k \in 1 .. k BY ONLY <2>0
  <2>1. 1 .. k \in SUBSET (1 .. n) /\ 1 .. k # {} BY ONLY <2>9, <2>10
  <2>2. Max(1 .. k) = k BY <2>0, <2>1, <2>10, MaxIs
  <2>3. (1 .. k) \ {k} = 1 .. k - 1 BY <1>0
  <2> QED BY <1>5, <2>1, <2>2, <2>3
<1> DEFINE p == [k \in 0 .. n |-> steps[1 .. k]]
           T == {k \in Nat : k <= n => p[k] \in Nat}
<1>8. p[0] = 0
  <2>1. 1 .. 0 = {} OBVIOUS
  <2> QED BY <1>6, <2>1, <1>0
<1>9. \A k \in 1 .. n : p[k] = p[k - 1] + TurnSize(turns[k]) BY <1>7, <1>0
<1>10. Nat \subseteq T
  <2>1. 0 \in T BY <1>8
  <2>2. ASSUME NEW k \in Nat, k \in T PROVE k + 1 \in T
    <3> SUFFICES ASSUME k + 1 <= n PROVE p[k + 1] \in Nat OBVIOUS
    <3>1. p[k] \in Nat BY <2>2, <1>0
    <3>2. k + 1 \in 1 .. n /\ (k + 1) - 1 = k BY <1>0
    <3>3. TurnSize(turns[k + 1]) \in Nat BY <1>00, <3>2
    <3> HIDE DEF p
    <3>4. p[k + 1] = p[k] + TurnSize(turns[k + 1]) BY <1>9, <3>2
    <3> QED BY <3>1, <3>3, <3>4
  <2> HIDE DEF T
  <2> QED BY <2>1, <2>2, InductionInto
<1>11. p \in [0 .. n -> Nat]
  <2>1. ASSUME NEW k \in 0 .. n PROVE p[k] \in Nat
    <3>1. k \in Nat /\ k <= n BY <1>0
    <3> HIDE DEF p
    <3> QED BY <3>1, <1>10
  <2>2. p = [k \in 0 .. n |-> p[k]] OBVIOUS
  <2> HIDE DEF p
  <2> QED BY <2>1, <2>2
<1>12. Aggregate(turns) = p[n] BY <1>1, <1>0
<1> HIDE DEF p
<1> QED BY <1>8, <1>9, <1>11, <1>12 DEF Sums, n

\* Two ways to add up the same turns agree.
LEMMA SumsShift ==
  ASSUME NEW turn \in Turn, NEW turns \in Seq(Turn), NEW p, NEW q,
         Sums(turns, p), Sums(<<turn>> \o turns, q)
  PROVE  q[Len(turns) + 1] = p[Len(turns)] + TurnSize(turn)
<1> DEFINE n == Len(turns)
           T == {k \in Nat : k <= n => q[k + 1] = p[k] + TurnSize(turn)}
<1>0. n \in Nat /\ <<turn>> \o turns \in Seq(Turn) OBVIOUS
<1>1. Len(<<turn>> \o turns) = n + 1 OBVIOUS
<1>2. (<<turn>> \o turns)[1] = turn OBVIOUS
<1>3. \A k \in 1 .. n : (<<turn>> \o turns)[k + 1] = turns[k] OBVIOUS
<1>4. TurnSize(turn) \in Nat BY SizesAre
<1>5. \A k \in 1 .. n + 1 : q[k] = q[k - 1] + TurnSize((<<turn>> \o turns)[k])
  BY <1>1 DEF Sums
<1>6. q[0] = 0 /\ p[0] = 0 BY DEF Sums
<1>7. \A k \in 1 .. n : p[k] = p[k - 1] + TurnSize(turns[k]) BY DEF Sums
<1>8. \A k \in 0 .. n : p[k] \in Nat BY DEF Sums
<1>9. 0 \in T
  <2>1. 1 \in 1 .. n + 1 /\ 1 - 1 = 0 BY <1>0
  <2>2. q[1] = q[0] + TurnSize(turn) BY <1>5, <1>2, <2>1
  <2> QED BY <2>2, <1>4, <1>6
<1>10. ASSUME NEW k \in Nat, k \in T PROVE k + 1 \in T
  <2> SUFFICES ASSUME k + 1 <= n PROVE q[k + 2] = p[k + 1] + TurnSize(turn)
    BY <1>0
  <2>1. k + 1 \in 1 .. n /\ k + 2 \in 1 .. n + 1 BY <1>0
  <2>2. q[k + 1] = p[k] + TurnSize(turn) BY <1>10, <1>0
  <2>3. q[k + 2] = q[(k + 2) - 1] + TurnSize((<<turn>> \o turns)[k + 2]) BY <1>5, <2>1
  <2>4. (<<turn>> \o turns)[(k + 1) + 1] = turns[k + 1] BY <1>3, <2>1
  <2>5. p[k + 1] = p[(k + 1) - 1] + TurnSize(turns[k + 1]) BY <1>7, <2>1
  <2>6. (k + 2) - 1 = k + 1 /\ (k + 1) + 1 = k + 2 /\ (k + 1) - 1 = k OBVIOUS
  <2>7. p[k] \in Nat BY <1>8, <2>1
  <2>8. TurnSize(turns[k + 1]) \in Nat
    <3>1. turns[k + 1] \in Turn BY <2>1
    <3> QED BY <3>1, SizesAre
  <2> QED BY <2>2, <2>3, <2>4, <2>5, <2>6, <2>7, <2>8, <1>4
<1>11. n \in T
  <2> HIDE DEF T
  <2> QED BY <1>0, <1>9, <1>10, InductionInto
<1> QED BY <1>11

LEMMA AggregateOfOneMore ==
  ASSUME NEW turn \in Turn, NEW turns \in Seq(Turn)
  PROVE  /\ Aggregate(turns) \in Nat
         /\ Aggregate(<<turn>> \o turns) = Aggregate(turns) + TurnSize(turn)
<1>1. PICK p : Sums(turns, p) /\ Aggregate(turns) = p[Len(turns)] BY AggregateAdds
<1>2. <<turn>> \o turns \in Seq(Turn) /\ Len(<<turn>> \o turns) = Len(turns) + 1 OBVIOUS
<1>3. PICK q : Sums(<<turn>> \o turns, q)
               /\ Aggregate(<<turn>> \o turns) = q[Len(<<turn>> \o turns)]
  BY <1>2, AggregateAdds
<1>4. q[Len(turns) + 1] = p[Len(turns)] + TurnSize(turn) BY <1>1, <1>3, SumsShift
<1>5. Len(turns) \in 0 .. Len(turns) OBVIOUS
<1>6. p[Len(turns)] \in Nat BY <1>1, <1>5 DEF Sums
<1> QED BY <1>1, <1>2, <1>3, <1>4, <1>6

LEMMA AggregateOfNone == Aggregate(<<>>) = 0
<1>1. <<>> \in Seq(Turn) /\ Len(<<>>) = 0 OBVIOUS
<1>2. PICK p : Sums(<<>>, p) /\ Aggregate(<<>>) = p[Len(<<>>)] BY <1>1, AggregateAdds
<1> QED BY <1>1, <1>2 DEF Sums

LEMMA CandidatesAre ==
  ASSUME NEW turns \in Seq(Turn)
  PROVE  /\ Candidates(turns) \in Seq(Turn) /\ Len(Candidates(turns)) <= HistoryLimit
         /\ \A i \in DOMAIN Candidates(turns) :
              \E j \in DOMAIN turns : Candidates(turns)[i] = turns[j]
<1>0. HistoryLimit \in Nat \ {0} BY Bounds
<1>1. CASE Len(turns) > HistoryLimit
  <2> DEFINE m == Len(turns) - HistoryLimit + 1
  <2>1. m \in 1 .. Len(turns) BY <1>0, <1>1
  <2>2. Candidates(turns) = SubSeq(turns, m, Len(turns)) BY <1>1 DEF Candidates
  <2>3. SubSeq(turns, m, Len(turns)) \in Seq(Turn)
    BY <2>1
  <2>4. Len(SubSeq(turns, m, Len(turns))) = HistoryLimit BY <2>1, <1>0
  <2>5. ASSUME NEW i \in 1 .. HistoryLimit
        PROVE  \E j \in DOMAIN turns : SubSeq(turns, m, Len(turns))[i] = turns[j]
    <3>1. SubSeq(turns, m, Len(turns))[i] = turns[m + i - 1] BY <2>1, <1>0
    <3>2. m + i - 1 \in DOMAIN turns BY <2>1, <1>0
    <3> QED BY <3>1, <3>2
  <2>6. DOMAIN SubSeq(turns, m, Len(turns)) = 1 .. HistoryLimit BY <2>3, <2>4
  <2> HIDE DEF m
  <2>7. HistoryLimit <= HistoryLimit BY <1>0
  <2> QED BY <2>2, <2>3, <2>4, <2>5, <2>6, <2>7
<1>2. CASE ~ (Len(turns) > HistoryLimit)
  <2>1. Candidates(turns) = turns BY <1>2 DEF Candidates
  <2>2. Len(turns) <= HistoryLimit BY <1>0, <1>2
  <2> QED BY <2>1, <2>2
<1> QED BY <1>1, <1>2

\* A history within the aggregate, of turns among those given.
Within(kept, given, k) ==
  /\ kept \in Seq(Turn) /\ Len(kept) <= k /\ Aggregate(kept) <= AggregateMax
  /\ \A i \in DOMAIN kept : \E j \in DOMAIN given : kept[i] = given[j]

LEMMA RetainKeeps ==
  ASSUME NEW given \in Seq(Turn), NEW k \in Nat, NEW i \in DOMAIN given, NEW kept,
         Within(kept, given, k)
  PROVE  Within(Retain(given[i], kept), given, k + 1)
<1> DEFINE turn == given[i]
<1>1. turn \in Turn /\ kept \in Seq(Turn) BY DEF Within
<1>2. TurnSize(turn) \in Nat BY <1>1, SizesAre
<1> HIDE DEF turn
<1>3. /\ Aggregate(kept) \in Nat
      /\ Aggregate(<<turn>> \o kept) = Aggregate(kept) + TurnSize(turn)
  BY <1>1, AggregateOfOneMore
<1>4. AggregateMax \in Nat BY Bounds
<1>5. CASE Aggregate(kept) + TurnSize(turn) > AggregateMax
  <2>1. Retain(turn, kept) = kept BY <1>5 DEF Retain
  <2>2. Len(kept) <= k + 1 BY <1>1 DEF Within
  <2> QED BY <2>1, <2>2 DEF Within, turn
<1>6. CASE ~ (Aggregate(kept) + TurnSize(turn) > AggregateMax)
  <2>1. Retain(turn, kept) = <<turn>> \o kept BY <1>6 DEF Retain
  <2>2. <<turn>> \o kept \in Seq(Turn) /\ Len(<<turn>> \o kept) = Len(kept) + 1 BY <1>1
  <2>3. Len(kept) + 1 <= k + 1 BY <1>1 DEF Within
  <2>4. Aggregate(<<turn>> \o kept) <= AggregateMax BY <1>2, <1>3, <1>4, <1>6
  <2>5. ASSUME NEW l \in DOMAIN (<<turn>> \o kept)
        PROVE  \E j \in DOMAIN given : (<<turn>> \o kept)[l] = given[j]
    <3>1. CASE l = 1
      <4>1. (<<turn>> \o kept)[l] = turn BY <3>1, <1>1
      <4> QED BY <4>1 DEF turn
    <3>2. CASE l # 1
      <4>1. l \in 1 .. Len(kept) + 1 BY <2>2
      <4>2. l - 1 \in DOMAIN kept BY <4>1, <3>2, <1>1
      <4>3. (<<turn>> \o kept)[l] = kept[l - 1] BY <4>1, <4>2, <3>2, <1>1
      <4> QED BY <4>2, <4>3 DEF Within
    <3> QED BY <3>1, <3>2
  <2> QED BY <2>1, <2>2, <2>3, <2>4, <2>5 DEF Within, turn
<1> QED BY <1>5, <1>6 DEF turn

\* boundedHistory: of any turns, what a request may carry is at most
\* HistoryLimit of them, none made up, within the aggregate.
THEOREM HistoryIsBounded ==
  ASSUME NEW turns \in Seq(Turn)
  PROVE  Within(BoundedHistory(turns), turns, HistoryLimit)
<1> DEFINE given == Candidates(turns)
           n == Len(given)
           Step(it) == [d \in SUBSET (1 .. n) |->
             IF d = {} THEN <<>> ELSE Retain(given[Min(d)], it[d \ {Min(d)}])]
           steps == CHOOSE it : it = Step(it)
           op == [x \in (1 .. n) \X Seq(Turn) |-> Retain(given[x[1]], x[2])]
<1>0. given \in Seq(Turn) /\ n \in Nat /\ DOMAIN given = 1 .. n /\ n <= HistoryLimit
  BY CandidatesAre
<1>1. BoundedHistory(turns) = steps[1 .. n]
  BY <1>0 DEF BoundedHistory, FoldRight, MapThenFoldSet
<1>10. \A i \in DOMAIN given : \E j \in DOMAIN turns : given[i] = turns[j] BY CandidatesAre
<1> HIDE DEF n, given
<1>2. op \in [(1 .. n) \X Seq(Turn) -> Seq(Turn)]
  <2> SUFFICES ASSUME NEW i \in 1 .. n, NEW kept \in Seq(Turn)
               PROVE  Retain(given[i], kept) \in Seq(Turn)
    OBVIOUS
  <2>1. given[i] \in Turn BY <1>0
  <2>2. <<given[i]>> \o kept \in Seq(Turn) BY <2>1
  <2> QED BY <2>2 DEF Retain
<1>3. PICK it \in [SUBSET (1 .. n) -> Seq(Turn)] : FoldsRight(it, n, <<>>, op)
  <2> HIDE DEF op
  <2>1. PICK V : V = Seq(Turn) OBVIOUS
  <2>2. n \in Nat /\ <<>> \in V /\ op \in [(1 .. n) \X V -> V] BY <1>0, <1>2, <2>1
  <2>3. \E it \in [SUBSET (1 .. n) -> V] : FoldsRight(it, n, <<>>, op)
    BY ONLY <2>2, RightFold
  <2> QED BY <2>1, <2>3
<1>4. it = Step(it)
  <2>1. ASSUME NEW d \in SUBSET (1 .. n), d # {}
        PROVE  it[d] = Retain(given[Min(d)], it[d \ {Min(d)}])
    <3>1. Min(d) \in 1 .. n BY <1>0, <2>1, MinIn
    <3>2. it[d \ {Min(d)}] \in Seq(Turn) OBVIOUS
    <3> QED BY <1>3, <2>1, <3>1, <3>2 DEF FoldsRight
  <2>2. it[{}] = <<>> BY <1>3 DEF FoldsRight
  <2>3. it = [d \in SUBSET (1 .. n) |-> it[d]] OBVIOUS
  <2> QED BY <2>1, <2>2, <2>3
<1>5. steps = Step(steps) BY <1>4
<1> HIDE DEF steps
<1>6. steps[{}] = <<>> BY <1>5
<1>7. ASSUME NEW k \in 1 .. n
      PROVE  steps[k .. n] = Retain(given[k], steps[k + 1 .. n])
  <2>0. k \in k .. n BY <1>0
  <2>9. n \in Int /\ k \in Int /\ 1 <= k BY <1>0
  <2>10. \A x \in k .. n : x \in 1 .. n BY ONLY <2>9
  <2>1. k .. n \in SUBSET (1 .. n) /\ k .. n # {} BY ONLY <2>0, <2>10
  <2>2. Min(k .. n) = k BY <2>0, <2>1, <1>0, MinIs
  <2>3. (k .. n) \ {k} = k + 1 .. n BY <1>0
  <2>4. \A d \in SUBSET (1 .. n) :
          d # {} => steps[d] = Retain(given[Min(d)], steps[d \ {Min(d)}])
    BY <1>5
  <2>5. steps[k .. n] = Retain(given[Min(k .. n)], steps[(k .. n) \ {Min(k .. n)}])
    BY <2>1, <2>4
  <2> QED BY <2>2, <2>3, <2>5
<1> DEFINE Fine(k) == k <= n => Within(steps[n - k + 1 .. n], given, k)
           T == {k \in Nat : Fine(k)}
<1>8. Fine(0)
  <2>1. n - 0 + 1 .. n = {} BY <1>0
  <2>2. AggregateMax \in Nat BY Bounds
  <2>3. <<>> \in Seq(Turn) /\ Len(<<>>) = 0 /\ DOMAIN <<>> = {} OBVIOUS
  <2>4. Aggregate(<<>>) <= AggregateMax BY <2>2, AggregateOfNone
  <2>5. Within(<<>>, given, 0) BY <2>3, <2>4 DEF Within
  <2> QED BY <1>6, <2>1, <2>5
<1>9. ASSUME NEW k \in Nat, Fine(k) PROVE Fine(k + 1)
  <2> SUFFICES ASSUME k + 1 <= n PROVE Within(steps[n - (k + 1) + 1 .. n], given, k + 1)
    OBVIOUS
  <2>1. n - k \in 1 .. n /\ n - (k + 1) + 1 = n - k /\ (n - k) + 1 = n - k + 1 BY <1>0
  <2>2. Within(steps[n - k + 1 .. n], given, k) BY <1>9, <1>0
  <2>3. steps[n - k .. n] = Retain(given[n - k], steps[(n - k) + 1 .. n]) BY <1>7, <2>1
  <2>4. Within(Retain(given[n - k], steps[n - k + 1 .. n]), given, k + 1)
    BY <2>1, <2>2, <1>0, RetainKeeps
  <2> QED BY <2>1, <2>3, <2>4
<1>11. Within(steps[1 .. n], given, n)
  <2> HIDE DEF Fine
  <2>1. 0 \in T /\ \A k \in Nat : k \in T => k + 1 \in T BY <1>8, <1>9
  <2> HIDE DEF T
  <2>2. n \in T BY <2>1, <1>0, InductionInto
  <2>3. n - n + 1 = 1 /\ n <= n BY <1>0
  <2>4. Fine(n) BY <2>2 DEF T
  <2> QED BY <2>3, <2>4 DEF Fine
<1> DEFINE kept == steps[1 .. n]
<1>12. kept \in Seq(Turn) /\ Len(kept) <= HistoryLimit /\ Aggregate(kept) <= AggregateMax
  BY <1>11, <1>0, Bounds DEF Within
<1>13. \A i \in DOMAIN kept : \E j \in DOMAIN turns : kept[i] = turns[j]
  BY <1>11, <1>0, <1>10 DEF Within
<1> QED BY <1>1, <1>12, <1>13 DEF Within

-------------------------------------------------------------------------------
(* What becomes of the coroutines.                                         *)

LEMMA NoCheckIs ==
  /\ NoCheck \in Check /\ ~ Active(NoCheck) /\ NoCheck.got = "" /\ NoCheck.verdict = ""
  /\ NoCheck.at = "unused" /\ NoCheck.base = NoBase
BY DEF NoCheck, Check, CheckGot, Base, Active

LEMMA NoSendIs ==
  /\ NoSend \in Sent /\ ~ Active(NoSend) /\ NoSend.got = "" /\ NoSend.at = "unused"
  /\ NoSend.text = <<>> /\ NoSend.posted = <<>>
BY DEF NoSend, Sent, SendGot, Base, Active, Result, None

\* What abort() leaves of a check, and of a send.
LEMMA AbortedCheck ==
  ASSUME NEW co \in Check
  PROVE  /\ Aborted(co) \in Check
         /\ Aborted(co).at = co.at /\ Aborted(co).base = co.base
         /\ Aborted(co).verdict = co.verdict
         /\ Aborted(co).got = IF co.at \in {"fetch", "body", "read"} /\ co.got = ""
                                THEN "aborted" ELSE co.got
BY DEF Aborted, Check, CheckGot

LEMMA AbortedSend ==
  ASSUME NEW co \in Sent
  PROVE  /\ Aborted(co) \in Sent
         /\ Aborted(co).at = co.at /\ Aborted(co).base = co.base /\ Aborted(co).gen = co.gen
         /\ Aborted(co).batch = co.batch /\ Aborted(co).attempt = co.attempt
         /\ Aborted(co).text = co.text /\ Aborted(co).result = co.result
         /\ Aborted(co).session = co.session /\ Aborted(co).posted = co.posted
         /\ Aborted(co).since = co.since
         /\ Aborted(co).got = IF co.at \in {"fetch", "body", "read"} /\ co.got = ""
                                THEN "aborted" ELSE co.got
BY DEF Aborted, Sent, SendGot

\* What a send was for, and what came of it, is as it was.
SameTale(a, b) ==
  /\ a.at = b.at /\ a.base = b.base /\ a.gen = b.gen /\ a.attempt = b.attempt
  /\ a.text = b.text /\ a.result = b.result /\ a.session = b.session
  /\ a.posted = b.posted /\ a.since = b.since

LEMMA SendsAborted ==
  ASSUME PageInv, SendInv
  PROVE  /\ AbortedSends \in [1 .. MaxSends -> Sent]
         /\ \A s \in 1 .. MaxSends :
              /\ SameTale(AbortedSends[s], sends[s]) /\ AbortedSends[s].batch = sends[s].batch
              /\ s # chat => AbortedSends[s] = sends[s]
              /\ s = chat => AbortedSends[s].got =
                   IF sends[s].at \in {"fetch", "body", "read"} /\ sends[s].got = ""
                     THEN "aborted" ELSE sends[s].got
<1>1. sends \in [1 .. MaxSends -> Sent] BY DEF SendInv, SendsSound
<1>2. CASE chat = None
  <2>1. AbortedSends = sends BY <1>2 DEF AbortedSends
  <2>2. \A s \in 1 .. MaxSends : s # chat BY <1>2, Bounds DEF None
  <2> QED BY <1>1, <2>1, <2>2 DEF SameTale
<1>3. CASE chat # None
  <2>1. chat \in 1 .. MaxSends BY <1>3 DEF PageInv
  <2>2. AbortedSends = [sends EXCEPT ![chat] = Aborted(sends[chat])] BY <1>3 DEF AbortedSends
  <2>3. sends[chat] \in Sent BY <1>1, <2>1
  <2>4. Aborted(sends[chat]) \in Sent BY <2>3, AbortedSend
  <2>5. AbortedSends \in [1 .. MaxSends -> Sent] BY <1>1, <2>2, <2>4
  <2>6. AbortedSends[chat] = Aborted(sends[chat]) BY <1>1, <2>1, <2>2
  <2>7. \A s \in 1 .. MaxSends : s # chat => AbortedSends[s] = sends[s] BY <1>1, <2>2
  <2>8. /\ SameTale(AbortedSends[chat], sends[chat])
        /\ AbortedSends[chat].batch = sends[chat].batch
        /\ AbortedSends[chat].got =
             IF sends[chat].at \in {"fetch", "body", "read"} /\ sends[chat].got = ""
               THEN "aborted" ELSE sends[chat].got
    <3> DEFINE a == AbortedSends[chat]
               b == sends[chat]
    <3>1. b \in Sent /\ a = Aborted(b) BY <2>3, <2>6
    <3> HIDE DEF a, b
    <3>2. /\ a.at = b.at /\ a.base = b.base /\ a.gen = b.gen
          /\ a.batch = b.batch /\ a.attempt = b.attempt
          /\ a.text = b.text /\ a.result = b.result
          /\ a.session = b.session /\ a.posted = b.posted /\ a.since = b.since
          /\ a.got = IF b.at \in {"fetch", "body", "read"} /\ b.got = "" THEN "aborted" ELSE b.got
      BY <3>1, AbortedSend
    <3>3. SameTale(a, b) BY <3>2 DEF SameTale
    <3> QED BY <3>2, <3>3 DEF a, b
  <2>9. \A s \in 1 .. MaxSends : SameTale(sends[s], sends[s]) BY DEF SameTale
  <2> QED BY <2>5, <2>7, <2>8, <2>9
<1> QED BY <1>2, <1>3

LEMMA ChecksAborted ==
  ASSUME PageInv, CheckInv
  PROVE  /\ AbortedChecks \in [0 .. MaxGeneration -> Check]
         /\ \A g \in 0 .. MaxGeneration :
              /\ AbortedChecks[g].at = checks[g].at /\ AbortedChecks[g].base = checks[g].base
              /\ AbortedChecks[g].verdict = checks[g].verdict
              /\ g # compatibility => AbortedChecks[g] = checks[g]
              /\ g = compatibility => AbortedChecks[g].got =
                   IF checks[g].at \in {"fetch", "body", "read"} /\ checks[g].got = ""
                     THEN "aborted" ELSE checks[g].got
<1>1. checks \in [0 .. MaxGeneration -> Check] BY DEF CheckInv, ChecksSound
<1>2. CASE compatibility = None
  <2>1. AbortedChecks = checks BY <1>2 DEF AbortedChecks
  <2>2. \A g \in 0 .. MaxGeneration : g # compatibility BY <1>2, Bounds DEF None
  <2> QED BY <1>1, <2>1, <2>2
<1>3. CASE compatibility # None
  <2>1. compatibility \in 0 .. MaxGeneration BY <1>3 DEF PageInv
  <2>2. AbortedChecks = [checks EXCEPT ![compatibility] = Aborted(checks[compatibility])]
    BY <1>3 DEF AbortedChecks
  <2>3. checks[compatibility] \in Check BY <1>1, <2>1
  <2>4. Aborted(checks[compatibility]) \in Check BY <2>3, AbortedCheck
  <2>5. AbortedChecks \in [0 .. MaxGeneration -> Check] BY <1>1, <2>2, <2>4
  <2>6. AbortedChecks[compatibility] = Aborted(checks[compatibility]) BY <1>1, <2>1, <2>2
  <2>7. \A g \in 0 .. MaxGeneration : g # compatibility => AbortedChecks[g] = checks[g]
    BY <1>1, <2>2
  <2>8. /\ AbortedChecks[compatibility].at = checks[compatibility].at
        /\ AbortedChecks[compatibility].base = checks[compatibility].base
        /\ AbortedChecks[compatibility].verdict = checks[compatibility].verdict
        /\ AbortedChecks[compatibility].got =
             IF checks[compatibility].at \in {"fetch", "body", "read"}
                  /\ checks[compatibility].got = ""
               THEN "aborted" ELSE checks[compatibility].got
    BY <2>3, <2>6, AbortedCheck
  <2> QED BY <2>5, <2>7, <2>8
<1> QED BY <1>2, <1>3

-------------------------------------------------------------------------------
(* The next generation.                                                    *)

\* Nothing begun before it is current in the next generation.
LEMMA SendsLeft ==
  ASSUME PageInv, SendInv, NEW fr,
         \A s \in 1 .. MaxSends : (fr = <<"send", s>>) <=> (frame = <<"send", s>>)
  PROVE  SendsSound(AbortedSends, generation + 1, None, fr)
<1>0. /\ AbortedSends \in [1 .. MaxSends -> Sent]
      /\ \A s \in 1 .. MaxSends :
              /\ SameTale(AbortedSends[s], sends[s]) /\ AbortedSends[s].batch = sends[s].batch
              /\ s # chat => AbortedSends[s] = sends[s]
              /\ s = chat => AbortedSends[s].got =
                   IF sends[s].at \in {"fetch", "body", "read"} /\ sends[s].got = ""
                     THEN "aborted" ELSE sends[s].got
  BY SendsAborted
<1>1. ASSUME NEW s \in 1 .. MaxSends
      PROVE  SendSound(s, AbortedSends[s], generation + 1, None, fr)
  <2> DEFINE new == AbortedSends[s]
             old == sends[s]
  <2>1. SendSound(s, old, generation, chat, frame) BY DEF SendInv, SendsSound
  <2>2. new \in Sent /\ old \in Sent BY <1>0 DEF SendInv, SendsSound
  <2>3. /\ new.at = old.at /\ new.base = old.base /\ new.gen = old.gen /\ new.batch = old.batch
        /\ s # chat => new = old
        /\ s = chat => new.got =
                   IF old.at \in {"fetch", "body", "read"} /\ old.got = ""
                     THEN "aborted" ELSE old.got
    BY <1>0 DEF SameTale
  <2> HIDE DEF new, old
  <2>4. generation \in Int /\ new.gen \in Int BY <2>2, Bounds DEF PageInv, Sent
  <2>5. (fr = <<"send", s>>) <=> (frame = <<"send", s>>) OBVIOUS
  <2>6. Active(new) <=> Active(old) BY <2>3 DEF Active
  <2>7. Active(new) => new.gen <= generation BY <2>1, <2>3, <2>6 DEF SendSound
  <2>8. Active(new) => new.gen <= generation + 1 /\ new.gen # generation + 1 BY <2>4, <2>7
  <2>9. Active(old) => new.got # ""
    BY <2>1, <2>3 DEF SendSound, Active
  <2>10. new.got = old.got \/ (new.got = "aborted" /\ old.got = "" /\ new.at \in {"fetch", "read"})
    <3>1. CASE s # chat BY <3>1, <2>3
    <3>2. CASE s = chat /\ ~ (old.at \in {"fetch", "body", "read"} /\ old.got = "") BY <3>2, <2>3
    <3>3. CASE s = chat /\ old.at \in {"fetch", "body", "read"} /\ old.got = ""
      <4>1. old.at # "body" BY <2>2 DEF Sent
      <4> QED BY <3>3, <4>1, <2>3
    <3> QED BY <3>1, <3>2, <3>3
  <2>11. new.base # NoBase \/ ~ Active(new) BY <2>1, <2>3, <2>6 DEF SendSound
  <2>12. /\ new.at = "fetch" => new.got \in {"", "response", "failed", "timeout", "aborted"}
         /\ new.at = "read" => new.got \in {"", "failed", "eof", "timeout", "batch", "aborted"}
    BY <2>1, <2>3, <2>10 DEF SendSound
  <2>13. new.at = "result" => new.got \in {"returned", "told"}
    BY <2>1, <2>3, <2>10 DEF SendSound
  <2>14. ~ Active(new) => new.got = "" BY <2>1, <2>6, <2>10 DEF SendSound, Active
  <2>15. new.got = "batch" => new.batch # <<>> BY <2>1, <2>3, <2>10 DEF SendSound
  <2>16. new.got = "told" <=> fr = <<"send", s>> BY <2>1, <2>5, <2>10 DEF SendSound
  <2>17. s # None BY Bounds DEF None
  <2> QED BY <2>6, <2>8, <2>9, <2>11, <2>12, <2>13, <2>14, <2>15, <2>16, <2>17 DEF SendSound, new
<1> QED BY <1>0, <1>1 DEF SendsSound

LEMMA ChecksLeft ==
  ASSUME PageInv, CheckInv, OwnCheckInv, NEW fr,
         \A g \in 0 .. MaxGeneration : (fr = <<"check", g>>) <=> (frame = <<"check", g>>)
  PROVE  ChecksSound(AbortedChecks, generation + 1, None, fr)
<1>0. /\ AbortedChecks \in [0 .. MaxGeneration -> Check]
      /\ \A g \in 0 .. MaxGeneration :
              /\ AbortedChecks[g].at = checks[g].at /\ AbortedChecks[g].base = checks[g].base
              /\ AbortedChecks[g].verdict = checks[g].verdict
              /\ g # compatibility => AbortedChecks[g] = checks[g]
              /\ g = compatibility => AbortedChecks[g].got =
                   IF checks[g].at \in {"fetch", "body", "read"} /\ checks[g].got = ""
                     THEN "aborted" ELSE checks[g].got
  BY ChecksAborted
<1>1. ASSUME NEW g \in 0 .. MaxGeneration
      PROVE  CheckSound(g, AbortedChecks[g], generation + 1, None, fr)
  <2> DEFINE new == AbortedChecks[g]
             old == checks[g]
  <2>1. CheckSound(g, old, generation, compatibility, frame) BY DEF CheckInv, ChecksSound
  <2>2. new \in Check /\ old \in Check BY <1>0 DEF CheckInv, ChecksSound
  <2>3. /\ new.at = old.at /\ new.base = old.base /\ new.verdict = old.verdict
        /\ g # compatibility => new = old
        /\ g = compatibility => new.got =
                   IF old.at \in {"fetch", "body", "read"} /\ old.got = ""
                     THEN "aborted" ELSE old.got
    BY <1>0
  <2> HIDE DEF new, old
  <2>4. generation \in Int /\ g \in Int BY Bounds DEF PageInv
  <2>5. (fr = <<"check", g>>) <=> (frame = <<"check", g>>) OBVIOUS
  <2>6. Active(new) <=> Active(old) BY <2>3 DEF Active
  <2>7. g > generation => old = NoCheck BY <2>1 DEF CheckSound
  <2>8. g > generation => new = NoCheck
    <3>1. g = compatibility => g = generation
      <4>1. g # None BY Bounds DEF None
      <4> QED BY <4>1 DEF OwnCheckInv
    <3>2. g # compatibility => new = old BY <2>3
    <3>3. g > generation => g # generation BY <2>4
    <3> QED BY <3>1, <3>2, <3>3, <2>7
  <2>9. g > generation + 1 => new = NoCheck BY <2>4, <2>8
  <2>10. Active(new) => g # generation + 1
    <3> SUFFICES ASSUME g = generation + 1 PROVE ~ Active(new) OBVIOUS
    <3>1. g > generation BY <2>4
    <3> QED BY <3>1, <2>8, NoCheckIs
  <2>11. new.got = old.got \/ (new.got = "aborted" /\ old.got = "" /\ new.at \in {"fetch", "body"})
    <3>1. CASE g # compatibility BY <3>1, <2>3
    <3>2. CASE g = compatibility /\ ~ (old.at \in {"fetch", "body", "read"} /\ old.got = "") BY <3>2, <2>3
    <3>3. CASE g = compatibility /\ old.at \in {"fetch", "body", "read"} /\ old.got = ""
      <4>1. old.at # "read" BY <2>2 DEF Check
      <4> QED BY <3>3, <4>1, <2>3
    <3> QED BY <3>1, <3>2, <3>3
  <2>12. Active(new) => new.verdict = "" /\ new.base # NoBase
    BY <2>1, <2>3, <2>6 DEF CheckSound
  <2>13. /\ new.at = "fetch" =>
              new.got \in {"", "response", "rejected", "timeout", "aborted", "told"}
         /\ new.at = "body" => new.got \in {"", "available", "mismatch", "broken", "timeout",
                                            "aborted", "told"}
    BY <2>1, <2>3, <2>11 DEF CheckSound
  <2>14. ~ Active(new) => new.got = "" BY <2>1, <2>6, <2>11 DEF CheckSound, Active
  <2>15. new.got = "told" <=> fr = <<"check", g>> BY <2>1, <2>5, <2>11 DEF CheckSound
  <2> QED BY <2>9, <2>10, <2>12, <2>13, <2>14, <2>15 DEF CheckSound, new
<1> QED BY <1>0, <1>1 DEF ChecksSound

\* No send began, went on or ended.
Carried ==
  /\ sends' \in [1 .. MaxSends -> Sent]
  /\ \A s \in 1 .. MaxSends :
       /\ SameTale(sends[s]', sends[s])
       /\ sends[s].got # "" => sends[s]'.got = sends[s].got

\* No answer of a check was forgotten.
VerdictsKept ==
  \A g \in 0 .. MaxGeneration : checks[g].verdict = "available" =>
    checks[g]'.verdict = "available" /\ checks[g]'.base = checks[g].base

LEMMA SameSends ==
  ASSUME SendInv, UNCHANGED sends
  PROVE  Carried
BY DEF SendInv, SendsSound, Carried, SameTale

LEMMA SameChecks ==
  ASSUME UNCHANGED checks
  PROVE  VerdictsKept
BY DEF VerdictsKept

LEMMA AbortedCarried ==
  ASSUME PageInv, SendInv, sends' = AbortedSends
  PROVE  Carried
<1>1. AbortedSends \in [1 .. MaxSends -> Sent] BY SendsAborted
<1>2. ASSUME NEW s \in 1 .. MaxSends
      PROVE  /\ SameTale(AbortedSends[s], sends[s])
             /\ sends[s].got # "" => AbortedSends[s].got = sends[s].got
  BY SendsAborted
<1> QED BY <1>1, <1>2 DEF Carried

LEMMA AbortedVerdicts ==
  ASSUME PageInv, CheckInv, checks' = AbortedChecks
  PROVE  VerdictsKept
<1>1. \A g \in 0 .. MaxGeneration :
        AbortedChecks[g].base = checks[g].base /\ AbortedChecks[g].verdict = checks[g].verdict
  BY ChecksAborted
<1> QED BY <1>1 DEF VerdictsKept

LEMMA KeptStays ==
  ASSUME Carried, NEW s \in 1 .. MaxSends, Kept(sends[s])
  PROVE  Kept(sends[s]')
BY DEF Carried, SameTale, Kept

LEMMA CarriedText ==
  ASSUME TextInv, Carried
  PROVE  TextInv'
<1> SUFFICES ASSUME NEW s \in 1 .. MaxSends, NEW k \in 1 .. Len(sends[s].text')
             PROVE  sends[s].text[k]' = sends[s].attempt'
  BY DEF TextInv
<1>1. sends[s].text' = sends[s].text /\ sends[s].attempt' = sends[s].attempt
  BY DEF Carried, SameTale
<1> QED BY <1>1 DEF TextInv

LEMMA TurnsNamed ==
  ASSUME NEW turns \in Seq(Turn), NEW i \in DOMAIN turns
  PROVE  turns[i].of \in 1 .. MaxSends /\ turns[i] \in Turn
<1>1. turns[i] \in Turn OBVIOUS
<1> QED BY <1>1 DEF Turn

LEMMA PostedTyped ==
  ASSUME SendInv, NEW s \in 1 .. MaxSends
  PROVE  sends[s].posted \in Seq(Turn)
<1>1. sends[s] \in Sent BY DEF SendInv, SendsSound
<1> QED BY <1>1 DEF Sent

LEMMA CarriedPosted ==
  ASSUME SendInv, PostedInv, Carried
  PROVE  PostedInv'
<1> SUFFICES ASSUME NEW s \in 1 .. MaxSends
             PROVE  LET posted == sends[s].posted
                    IN  /\ \A i \in DOMAIN posted' :
                             /\ Kept(sends[posted[i].of])'
                             /\ sends[posted[i].of].session' = sends[s].session'
                        /\ Len(posted') <= HistoryLimit /\ Aggregate(posted') <= AggregateMax
  BY DEF PostedInv
<1> DEFINE posted == sends[s].posted
<1>1. posted' = posted /\ sends[s].session' = sends[s].session BY DEF Carried, SameTale
<1>2. posted \in Seq(Turn) BY PostedTyped
<1>3. ASSUME NEW i \in DOMAIN posted
      PROVE  \E o \in 1 .. MaxSends :
               /\ posted[i].of = o /\ Kept(sends'[o])
               /\ sends'[o].session = sends[s].session
  <2>1. PICK o \in 1 .. MaxSends : o = posted[i].of BY <1>2, TurnsNamed
  <2>2. Kept(sends[o]) /\ sends[o].session = sends[s].session BY <2>1 DEF PostedInv
  <2>3. Kept(sends[o]') BY <2>1, <2>2, KeptStays
  <2>4. sends[o]'.session = sends[o].session BY <2>1 DEF Carried, SameTale
  <2> QED BY <2>1, <2>2, <2>3, <2>4
<1>4. Len(posted) <= HistoryLimit /\ Aggregate(posted) <= AggregateMax BY DEF PostedInv
<1> HIDE DEF posted
<1>6. \A i \in DOMAIN posted' :
        Kept(sends'[posted'[i].of]) /\ sends'[posted'[i].of].session = sends'[s].session
  BY <1>1, <1>3
<1> QED BY <1>1, <1>4, <1>6 DEF posted

LEMMA CarriedTurns ==
  ASSUME TurnInv, Carried, UNCHANGED <<history, session>>
  PROVE  TurnInv'
<1>1. history \in Seq(Turn) BY DEF TurnInv
<1>2. ASSUME NEW i \in DOMAIN history
      PROVE  LET send == sends'[history[i].of]
             IN  /\ Kept(send) /\ send.session = session /\ send.result = "stop"
                 /\ history[i].role = "assistant" => history[i].text = send.text
  <2>1. PICK o \in 1 .. MaxSends : o = history[i].of BY <1>1, TurnsNamed
  <2>2. /\ Kept(sends[o]) /\ sends[o].session = session /\ sends[o].result = "stop"
        /\ history[i].role = "assistant" => history[i].text = sends[o].text
    BY <2>1 DEF TurnInv
  <2>3. Kept(sends[o]') BY <2>1, <2>2, KeptStays
  <2>4. SameTale(sends[o]', sends[o]) BY <2>1 DEF Carried
  <2> QED BY <2>1, <2>2, <2>3, <2>4 DEF SameTale
<1> QED BY <1>1, <1>2 DEF TurnInv

LEMMA CarriedSent ==
  ASSUME PageInv, PageInv', SentInv, Carried, VerdictsKept, generation <= generation'
  PROVE  SentInv'
<1> SUFFICES ASSUME NEW s \in 1 .. MaxSends, sends[s]'.at # "unused"
             PROVE  /\ sends[s]'.since \in 0 .. generation' /\ sends[s]'.gen \in 0 .. generation'
                    /\ Answered(checks', sends[s]'.base, sends[s]'.since, sends[s]'.gen)
  BY DEF SentInv, Answered
<1>1. SameTale(sends[s]', sends[s]) BY DEF Carried
<1>2. /\ sends[s].since \in 0 .. generation /\ sends[s].gen \in 0 .. generation
      /\ Answered(checks, sends[s].base, sends[s].since, sends[s].gen)
  BY <1>1 DEF SentInv, SameTale
<1>3. PICK g \in sends[s].since .. sends[s].gen :
        checks[g].verdict = "available" /\ checks[g].base = sends[s].base
  BY <1>2 DEF Answered
<1>4. generation \in 0 .. MaxGeneration /\ generation' \in 0 .. MaxGeneration BY DEF PageInv
<1>5. g \in 0 .. MaxGeneration BY <1>2, <1>3, <1>4, Bounds
<1>6. checks[g]'.verdict = "available" /\ checks[g]'.base = sends[s].base
  BY <1>3, <1>5 DEF VerdictsKept
<1>7. Answered(checks', sends[s].base, sends[s].since, sends[s].gen)
  BY <1>3, <1>6 DEF Answered
<1>8. sends[s].since \in 0 .. generation' /\ sends[s].gen \in 0 .. generation'
  BY <1>2, <1>4, Bounds
<1> QED BY <1>1, <1>7, <1>8 DEF SameTale

LEMMA SessionNext ==
  ASSUME PageInv, SendInv, Carried, generation' = generation + 1
  PROVE  SessionInv'
<1> SUFFICES ASSUME NEW s \in 1 .. MaxSends, Active(sends[s]'), sends[s]'.gen = generation'
             PROVE  FALSE
  BY DEF SessionInv
<1>1. SameTale(sends[s]', sends[s]) BY DEF Carried
<1>2. Active(sends[s]) BY <1>1 DEF Active, SameTale
<1>3. sends[s].gen <= generation BY <1>2 DEF SendInv, SendsSound, SendSound
<1>4. sends[s] \in Sent BY DEF SendInv, SendsSound
<1>5. sends[s].gen \in Int /\ generation \in Int BY <1>4, Bounds DEF Sent, PageInv
<1> QED BY <1>1, <1>3, <1>5 DEF SameTale

LEMMA SessionSame ==
  ASSUME SessionInv, Carried, UNCHANGED <<generation, session>>
  PROVE  SessionInv'
<1> SUFFICES ASSUME NEW s \in 1 .. MaxSends, Active(sends[s]'), sends[s]'.gen = generation'
             PROVE  sends[s]'.session = session'
  BY DEF SessionInv
<1>1. SameTale(sends[s]', sends[s]) BY DEF Carried
<1>2. Active(sends[s]) BY <1>1 DEF Active, SameTale
<1> QED BY <1>1, <1>2 DEF SessionInv, SameTale

\* A check begins, of the generation gen, where no other is the owner.
Begun(cs, gen, base) == [cs EXCEPT ![gen] = [NoCheck EXCEPT !.at = "fetch", !.base = base]]

\* A check that has just begun, in place of one of cs.
Fresh(new, cs, gen, base, fr) ==
  /\ ChecksSound(new, gen, gen, fr)
  /\ Active(new[gen]) /\ new[gen].base = base /\ new[gen].got = "" /\ new[gen].verdict = ""
  /\ fr # <<"check", gen>>
  /\ \A g \in 0 .. MaxGeneration : g # gen => new[g] = cs[g]

LEMMA CheckBegins ==
  ASSUME NEW cs, NEW gen \in 0 .. MaxGeneration, NEW fr, NEW base \in Bases,
         ChecksSound(cs, gen, None, fr)
  PROVE  Fresh(Begun(cs, gen, base), cs, gen, base, fr)
<1> DEFINE check == [NoCheck EXCEPT !.at = "fetch", !.base = base]
           new == Begun(cs, gen, base)
<1>1. cs \in [0 .. MaxGeneration -> Check] BY DEF ChecksSound
<1>2. check \in Check /\ check.at = "fetch" /\ check.base = base /\ check.got = ""
      /\ check.verdict = ""
  BY DEF NoCheck, Check, CheckGot, Base
<1>3. new[gen] = check /\ \A g \in 0 .. MaxGeneration : g # gen => new[g] = cs[g]
  BY <1>1 DEF Begun
<1>4. new \in [0 .. MaxGeneration -> Check] BY <1>1, <1>2 DEF Begun
<1> HIDE DEF check, new
<1>5. base # NoBase BY Bounds
<1>6. gen # None /\ gen \in Int BY Bounds DEF None
<1>7. CheckSound(gen, cs[gen], gen, None, fr) BY DEF ChecksSound
<1>8. ~ Active(cs[gen]) BY <1>6, <1>7 DEF CheckSound
<1>9. fr # <<"check", gen>> BY <1>7, <1>8 DEF CheckSound
<1>10. Active(check) BY <1>2 DEF Active
<1>11. CheckSound(gen, check, gen, gen, fr)
  <2>1. ~ (gen > gen) BY <1>6
  <2>2. check.got # "told" BY <1>2
  <2>3. check.at # "body" BY <1>2
  <2> QED BY <1>2, <1>5, <1>9, <1>10, <2>1, <2>2, <2>3 DEF CheckSound
<1>12. ASSUME NEW g \in 0 .. MaxGeneration, g # gen PROVE CheckSound(g, cs[g], gen, gen, fr)
  BY <1>12 DEF ChecksSound, CheckSound
<1>13. ChecksSound(new, gen, gen, fr) BY <1>3, <1>4, <1>11, <1>12 DEF ChecksSound
<1> QED BY <1>2, <1>3, <1>9, <1>10, <1>13 DEF new, Fresh

LEMMA Initial == Init => WidgetInv
<1> SUFFICES ASSUME Init PROVE WidgetInv OBVIOUS
<1> USE DEF Init
<1>1. PageInv
  <2>1. generation \in {0, 1} /\ since = generation BY DEF Base
  <2>2. 0 \in 0 .. MaxGeneration /\ 1 \in 0 .. MaxGeneration BY Bounds
  <2>3. NoBase \in Base BY DEF Base
  <2>4. frame \in {"none", "open", "clear", "check", "send"} \X Int BY DEF None
  <2>5. generation \in 0 .. MaxGeneration /\ since \in 0 .. generation
    BY <2>1, <2>2, Bounds
  <2>6. connected \in BOOLEAN /\ apiBase \in Base /\ open \in BOOLEAN /\ stranded \in BOOLEAN
    BY DEF Base
  <2>7. compatibility \in 0 .. MaxGeneration \union {None} /\ chat \in 1 .. MaxSends \union {None}
    OBVIOUS
  <2>8. compatibleBase \in Base /\ session \in Nat BY <2>3
  <2>9. state \in {"closed", "checking", "ready", "sending", "terminal"} OBVIOUS
  <2> QED BY <2>4, <2>5, <2>6, <2>7, <2>8, <2>9 DEF PageInv
<1>2. CheckInv
  <2>1. \A g \in 0 .. MaxGeneration : checks[g] = NoCheck OBVIOUS
  <2>2. checks \in [0 .. MaxGeneration -> Check] BY NoCheckIs
  <2>3. ASSUME NEW g \in 0 .. MaxGeneration
        PROVE  CheckSound(g, NoCheck, generation, compatibility, frame)
    <3>1. frame # <<"check", g>> OBVIOUS
    <3> QED BY <3>1, NoCheckIs DEF CheckSound
  <2> QED BY <2>1, <2>2, <2>3 DEF CheckInv, ChecksSound
<1>3. SendInv
  <2>1. \A s \in 1 .. MaxSends : sends[s] = NoSend OBVIOUS
  <2>2. sends \in [1 .. MaxSends -> Sent] BY NoSendIs
  <2>3. ASSUME NEW s \in 1 .. MaxSends
        PROVE  SendSound(s, NoSend, generation, chat, frame)
    <3>1. frame # <<"send", s>> OBVIOUS
    <3> QED BY <3>1, NoSendIs DEF SendSound
  <2> QED BY <2>1, <2>2, <2>3 DEF SendInv, SendsSound
<1>4. OwnCheckInv /\ OwnSendInv BY DEF OwnCheckInv, OwnSendInv
<1>5. StateInv BY DEF StateInv
<1>6. BaseInv
  <2>1. generation \in 0 .. MaxGeneration BY <1>1 DEF PageInv
  <2>2. checks[generation].verdict = "" BY <2>1, NoCheckIs
  <2> QED BY <2>2 DEF BaseInv
<1>7. SentInv BY NoSendIs DEF SentInv
<1>8. TextInv /\ SessionInv /\ TurnInv
  <2>1. \A s \in 1 .. MaxSends : sends[s] = NoSend OBVIOUS
  <2>2. Len(<<>>) = 0 /\ DOMAIN <<>> = {} /\ <<>> \in Seq(Turn) OBVIOUS
  <2>3. \A s \in 1 .. MaxSends : ~ Active(sends[s]) BY <2>1, NoSendIs
  <2>4. SessionInv BY <2>3 DEF SessionInv
  <2>5. TextInv
    <3>1. \A s \in 1 .. MaxSends : 1 .. Len(sends[s].text) = {}
      <4>1. 1 .. 0 = {} OBVIOUS
      <4> QED BY ONLY <2>1, <2>2, <4>1, NoSendIs
    <3> QED BY ONLY <3>1 DEF TextInv
  <2>6. TurnInv
    <3>1. history \in Seq(Turn) /\ DOMAIN history = {} BY <2>2
    <3> QED BY ONLY <3>1 DEF TurnInv
  <2> QED BY <2>4, <2>5, <2>6
<1>9. PostedInv
  <2>1. \A s \in 1 .. MaxSends : sends[s].posted = <<>> BY NoSendIs
  <2>2. DOMAIN <<>> = {} /\ Len(<<>>) = 0 OBVIOUS
  <2>3. 0 <= HistoryLimit /\ Aggregate(<<>>) <= AggregateMax BY Bounds, AggregateOfNone
  <2> QED BY <2>1, <2>2, <2>3 DEF PostedInv
<1> QED BY <1>1, <1>2, <1>3, <1>4, <1>5, <1>6, <1>7, <1>8, <1>9 DEF WidgetInv

-------------------------------------------------------------------------------
(* The page.                                                               *)

\* What holds of every step to the next generation.
LEMMA SendsInNext ==
  ASSUME WidgetInv, sends' = AbortedSends, chat' = None, generation' = generation + 1,
         \A s \in 1 .. MaxSends : (frame' = <<"send", s>>) <=> (frame = <<"send", s>>)
  PROVE  SendInv' /\ OwnSendInv' /\ Carried /\ TextInv' /\ PostedInv' /\ SessionInv'
<1>1. PageInv /\ SendInv /\ TextInv /\ PostedInv BY DEF WidgetInv
<1>2. SendsSound(AbortedSends, generation + 1, None, frame') BY <1>1, SendsLeft
<1>3. Carried BY <1>1, AbortedCarried
<1>4. TextInv' /\ PostedInv' /\ SessionInv'
  BY <1>1, <1>3, CarriedText, CarriedPosted, SessionNext
<1> QED BY <1>2, <1>3, <1>4 DEF SendInv, OwnSendInv

LEMMA ChecksInNext ==
  ASSUME WidgetInv, checks' = AbortedChecks, compatibility' = None, generation' = generation + 1,
         \A g \in 0 .. MaxGeneration : (frame' = <<"check", g>>) <=> (frame = <<"check", g>>)
  PROVE  CheckInv' /\ OwnCheckInv' /\ VerdictsKept
<1>1. PageInv /\ CheckInv /\ OwnCheckInv BY DEF WidgetInv
<1>2. ChecksSound(AbortedChecks, generation + 1, None, frame') BY <1>1, ChecksLeft
<1>3. VerdictsKept BY <1>1, AbortedVerdicts
<1> QED BY <1>2, <1>3 DEF CheckInv, OwnCheckInv

\* In the next generation nothing has been answered.
LEMMA NextIsNew ==
  ASSUME WidgetInv, generation < MaxGeneration
  PROVE  generation + 1 \in 0 .. MaxGeneration /\ AbortedChecks[generation + 1].verdict = ""
<1>1. PageInv /\ CheckInv BY DEF WidgetInv
<1>2. generation \in Int /\ generation + 1 \in 0 .. MaxGeneration BY <1>1, Bounds DEF PageInv
<1>3. PICK g \in 0 .. MaxGeneration : g = generation + 1 BY <1>2
<1>4. CheckSound(g, checks[g], generation, compatibility, frame)
  BY <1>1 DEF CheckInv, ChecksSound
<1>5. g > generation BY <1>2, <1>3
<1>6. checks[g] = NoCheck BY <1>4, <1>5 DEF CheckSound
<1>7. AbortedChecks[g].verdict = checks[g].verdict BY <1>1, ChecksAborted
<1> QED BY <1>2, <1>3, <1>6, <1>7, NoCheckIs

LEMMA MisconfigureKeeps ==
  ASSUME WidgetInv, Misconfigure
  PROVE  WidgetInv'
<1> USE DEF WidgetInv
<1>1. /\ generation < MaxGeneration /\ apiBase' = NoBase /\ generation' = generation + 1
      /\ since' = generation + 1 /\ compatibleBase' = NoBase
      /\ compatibility' = None /\ chat' = None /\ checks' = AbortedChecks
      /\ sends' = AbortedSends
      /\ state' = IF open THEN "terminal" ELSE "closed"
      /\ stranded' \in BOOLEAN
      /\ UNCHANGED <<connected, open, history, session, frame>>
  BY DEF Misconfigure, AbortWork, SetState
<1>2. PageInv'
  <2>1. generation + 1 \in 0 .. MaxGeneration /\ generation + 1 \in 0 .. generation + 1
    BY <1>1, Bounds DEF PageInv
  <2> QED BY <1>1, <2>1 DEF PageInv, Base
<1>3. SendInv' /\ OwnSendInv' /\ Carried /\ TextInv' /\ PostedInv' /\ SessionInv'
  BY <1>1, SendsInNext
<1>4. CheckInv' /\ OwnCheckInv' /\ VerdictsKept BY <1>1, ChecksInNext
<1>5. TurnInv' BY <1>1, <1>3, CarriedTurns
<1>6. SentInv'
  <2>1. generation <= generation' BY <1>1, Bounds DEF PageInv
  <2> QED BY <1>2, <1>3, <1>4, <2>1, CarriedSent
<1>7. BaseInv'
  <2>1. checks'[generation'].verdict # "available" BY <1>1, NextIsNew
  <2> QED BY <1>1, <2>1 DEF BaseInv
<1>8. StateInv' BY <1>1 DEF StateInv
<1> QED BY <1>2, <1>3, <1>4, <1>5, <1>6, <1>7, <1>8

LEMMA DisconnectKeeps ==
  ASSUME WidgetInv, Disconnect
  PROVE  WidgetInv'
<1> USE DEF WidgetInv
<1>1. /\ generation < MaxGeneration /\ generation' = generation + 1
      /\ compatibility' = None /\ chat' = None /\ checks' = AbortedChecks
      /\ sends' = AbortedSends /\ connected' = FALSE
      /\ stranded' = (stranded \/ state = "checking")
      /\ UNCHANGED <<apiBase, open, state, compatibleBase, history, session, frame, since>>
  BY DEF Disconnect, AbortWork
<1>2. PageInv'
  <2>1. generation + 1 \in 0 .. MaxGeneration /\ since \in 0 .. generation + 1
    BY <1>1, Bounds DEF PageInv
  <2> QED BY <1>1, <2>1 DEF PageInv, Base
<1>3. SendInv' /\ OwnSendInv' /\ Carried /\ TextInv' /\ PostedInv' /\ SessionInv'
  BY <1>1, SendsInNext
<1>4. CheckInv' /\ OwnCheckInv' /\ VerdictsKept BY <1>1, ChecksInNext
<1>5. TurnInv' BY <1>1, <1>3, CarriedTurns
<1>6. SentInv'
  <2>1. generation <= generation' BY <1>1, Bounds DEF PageInv
  <2> QED BY <1>2, <1>3, <1>4, <2>1, CarriedSent
<1>7. BaseInv'
  <2>1. checks'[generation'].verdict # "available" BY <1>1, NextIsNew
  <2>2. ASSUME compatibleBase # NoBase
        PROVE  Answered(checks', compatibleBase, since, generation + 1)
    <3>1. PICK g \in since .. generation :
            checks[g].verdict = "available" /\ checks[g].base = compatibleBase
      BY <2>2 DEF BaseInv, Answered
    <3>2. g \in 0 .. MaxGeneration /\ g \in since .. generation + 1
      BY <1>1, Bounds DEF PageInv
    <3>3. checks[g]'.verdict = "available" /\ checks[g]'.base = compatibleBase
      BY <1>4, <3>1, <3>2 DEF VerdictsKept
    <3> QED BY <3>2, <3>3 DEF Answered
  <2>3. compatibleBase # NoBase => compatibleBase = apiBase BY DEF BaseInv
  <2> QED BY <1>1, <2>1, <2>2, <2>3 DEF BaseInv, Answered
<1>8. StateInv'
  <2>1. state = "sending" => \E s \in 1 .. MaxSends : Active(sends'[s])
    BY <1>3 DEF StateInv, Carried, SameTale, Active
  <2>2. state = "checking" => stranded' BY <1>1 DEF PageInv
  <2> QED BY <1>1, <2>1, <2>2 DEF StateInv
<1> QED BY <1>2, <1>3, <1>4, <1>5, <1>6, <1>7, <1>8

LEMMA ReconnectKeeps ==
  ASSUME WidgetInv, Reconnect
  PROVE  WidgetInv'
<1> USE DEF WidgetInv
<1>1. connected' = TRUE
      /\ UNCHANGED <<apiBase, since, generation, compatibleBase, history, session, open, state,
                     frame, stranded, compatibility, chat, checks, sends>>
  BY DEF Reconnect, panel, work
<1>2. PageInv' BY <1>1 DEF PageInv
<1>3. StateInv' BY <1>1 DEF StateInv
<1>4. CheckInv' /\ OwnCheckInv' /\ SendInv' /\ OwnSendInv'
  BY <1>1 DEF CheckInv, OwnCheckInv, SendInv, OwnSendInv
<1>5. BaseInv' /\ SentInv' BY <1>1 DEF BaseInv, SentInv, Answered
<1>6. TextInv' /\ SessionInv' /\ TurnInv' /\ PostedInv'
  BY <1>1 DEF TextInv, SessionInv, TurnInv, PostedInv
<1> QED BY <1>2, <1>3, <1>4, <1>5, <1>6

\* Other frames than those of the coroutines do not concern them.
LEMMA ChecksFramed ==
  ASSUME NEW cs, NEW gen, NEW owner, NEW fr, NEW fq, ChecksSound(cs, gen, owner, fr),
         \A g \in 0 .. MaxGeneration : (fq = <<"check", g>>) <=> (fr = <<"check", g>>)
  PROVE  ChecksSound(cs, gen, owner, fq)
<1>1. cs \in [0 .. MaxGeneration -> Check] BY DEF ChecksSound
<1>2. ASSUME NEW g \in 0 .. MaxGeneration PROVE CheckSound(g, cs[g], gen, owner, fq)
  <2>1. CheckSound(g, cs[g], gen, owner, fr) BY DEF ChecksSound
  <2>2. (fq = <<"check", g>>) <=> (fr = <<"check", g>>) OBVIOUS
  <2> QED BY <2>1, <2>2 DEF CheckSound
<1> QED BY <1>1, <1>2 DEF ChecksSound

LEMMA SendsFramed ==
  ASSUME NEW ss, NEW gen, NEW owner, NEW fr, NEW fq, SendsSound(ss, gen, owner, fr),
         \A s \in 1 .. MaxSends : (fq = <<"send", s>>) <=> (fr = <<"send", s>>)
  PROVE  SendsSound(ss, gen, owner, fq)
<1>1. ss \in [1 .. MaxSends -> Sent] BY DEF SendsSound
<1>2. ASSUME NEW s \in 1 .. MaxSends PROVE SendSound(s, ss[s], gen, owner, fq)
  <2>1. SendSound(s, ss[s], gen, owner, fr) BY DEF SendsSound
  <2>2. (fq = <<"send", s>>) <=> (fr = <<"send", s>>) OBVIOUS
  <2> QED BY <2>1, <2>2 DEF SendSound
<1> QED BY <1>1, <1>2 DEF SendsSound

\* A check begins, and every answer is still there.
LEMMA CheckStarts ==
  ASSUME NEW cs, NEW gen \in 0 .. MaxGeneration, NEW base \in Bases, NEW fr,
         ChecksSound(cs, gen, None, fr), cs[gen].verdict # "available",
         \A g \in 0 .. MaxGeneration :
           cs[g].verdict = checks[g].verdict /\ cs[g].base = checks[g].base,
         checks' = Begun(cs, gen, base)
  PROVE  /\ ChecksSound(checks', gen, gen, fr)
         /\ Active(checks'[gen]) /\ checks'[gen].base = base /\ checks'[gen].got = ""
         /\ checks'[gen].verdict = "" /\ fr # <<"check", gen>>
         /\ VerdictsKept
<1>1. /\ ChecksSound(checks', gen, gen, fr)
      /\ Active(checks'[gen]) /\ checks'[gen].base = base /\ checks'[gen].got = ""
      /\ checks'[gen].verdict = "" /\ fr # <<"check", gen>>
      /\ \A g \in 0 .. MaxGeneration : g # gen => checks'[g] = cs[g]
  <2>1. Fresh(Begun(cs, gen, base), cs, gen, base, fr) BY CheckBegins
  <2> QED BY <2>1 DEF Fresh
<1>2. VerdictsKept
  <2> SUFFICES ASSUME NEW g \in 0 .. MaxGeneration, checks[g].verdict = "available"
               PROVE  checks'[g].verdict = "available" /\ checks'[g].base = checks[g].base
    BY DEF VerdictsKept
  <2>1. cs[g].verdict = "available" /\ cs[g].base = checks[g].base OBVIOUS
  <2>2. g # gen BY <2>1
  <2> QED BY <1>1, <2>1, <2>2
<1> QED BY <1>1, <1>2

\* An answer stays one when the generation counts on.
LEMMA AnsweredStays ==
  ASSUME PageInv, PageInv', VerdictsKept, NEW base,
         Answered(checks, base, since, generation), since' = since, generation <= generation'
  PROVE  Answered(checks', base, since', generation')
<1>1. PICK g \in since .. generation : checks[g].verdict = "available" /\ checks[g].base = base
  BY DEF Answered
<1>2. /\ generation \in 0 .. MaxGeneration /\ generation' \in 0 .. MaxGeneration
      /\ since \in 0 .. generation
  BY DEF PageInv
<1>3. g \in 0 .. MaxGeneration /\ g \in since .. generation' BY <1>2, Bounds
<1>4. checks'[g].verdict = "available" /\ checks'[g].base = base
  BY <1>1, <1>3 DEF VerdictsKept
<1> QED BY <1>3, <1>4 DEF Answered

LEMMA BaseNext ==
  ASSUME WidgetInv, PageInv', generation < MaxGeneration, generation' = generation + 1,
         checks' = AbortedChecks, VerdictsKept, UNCHANGED <<apiBase, compatibleBase, since>>
  PROVE  BaseInv'
<1>1. PageInv /\ BaseInv BY DEF WidgetInv
<1>2. checks'[generation'].verdict = "" BY NextIsNew
<1>3. ASSUME compatibleBase # NoBase
      PROVE  compatibleBase = apiBase /\ Answered(checks', compatibleBase, since', generation')
  <2>1. compatibleBase = apiBase /\ Answered(checks, compatibleBase, since, generation)
    BY <1>1, <1>3 DEF BaseInv
  <2>2. generation <= generation' BY <1>1, Bounds DEF PageInv
  <2> QED BY <1>1, <2>1, <2>2, AnsweredStays
<1> QED BY <1>2, <1>3 DEF BaseInv

LEMMA CloseKeeps ==
  ASSUME WidgetInv, Close
  PROVE  WidgetInv'
<1>0. PageInv /\ StateInv BY DEF WidgetInv
<1>1. /\ generation < MaxGeneration /\ generation' = generation + 1
      /\ compatibility' = None /\ chat' = None /\ checks' = AbortedChecks
      /\ sends' = AbortedSends /\ open' = FALSE /\ state' = "closed"
      /\ stranded' = FALSE /\ frame = <<"none", None>>
      /\ UNCHANGED <<connected, apiBase, since, compatibleBase, history, session, frame>>
  BY DEF Close, AbortWork, SetState, settings, Drained
<1>2. PageInv'
  <2>1. generation + 1 \in 0 .. MaxGeneration /\ since \in 0 .. generation + 1
    BY <1>0, <1>1, Bounds DEF PageInv
  <2> QED BY <1>0, <1>1, <2>1 DEF PageInv, Base
<1>3. SendInv' /\ OwnSendInv' /\ Carried /\ TextInv' /\ PostedInv' /\ SessionInv'
  BY <1>1, SendsInNext
<1>4. CheckInv' /\ OwnCheckInv' /\ VerdictsKept BY <1>1, ChecksInNext
<1>5. TurnInv' BY <1>1, <1>3, CarriedTurns DEF WidgetInv
<1>6. SentInv'
  <2>1. generation <= generation' BY <1>0, <1>1, Bounds DEF PageInv
  <2> QED BY <1>0, <1>2, <1>3, <1>4, <2>1, CarriedSent DEF WidgetInv
<1>7. BaseInv' BY <1>1, <1>2, <1>4, BaseNext
<1>8. StateInv' BY <1>1 DEF StateInv
<1> QED BY <1>2, <1>3, <1>4, <1>5, <1>6, <1>7, <1>8 DEF WidgetInv

LEMMA ClearChatKeeps ==
  ASSUME WidgetInv, ClearChat
  PROVE  WidgetInv'
<1>0. PageInv /\ StateInv BY DEF WidgetInv
<1>1. /\ generation < MaxGeneration /\ generation' = generation + 1
      /\ compatibility' = None /\ chat' = None /\ checks' = AbortedChecks
      /\ sends' = AbortedSends /\ open = TRUE /\ connected = TRUE
      /\ history' = <<>> /\ session' = session + 1
      /\ state' = IF compatibleBase # NoBase THEN "ready" ELSE "checking"
      /\ stranded' \in BOOLEAN
      /\ frame = <<"none", None>> /\ frame' = <<"clear", None>>
      /\ UNCHANGED <<connected, apiBase, since, open, compatibleBase>>
  BY <1>0 DEF ClearChat, AbortWork, SetState, settings, Drained, Dispatch, PageInv
<1>2. PageInv'
  <2>1. generation + 1 \in 0 .. MaxGeneration /\ since \in 0 .. generation + 1
    BY <1>0, <1>1, Bounds DEF PageInv
  <2>2. frame' \in {"none", "open", "clear", "check", "send"} \X Int BY <1>1 DEF None
  <2>3. session' \in Nat BY <1>0, <1>1 DEF PageInv
  <2> QED BY <1>0, <1>1, <2>1, <2>2, <2>3 DEF PageInv, Base
<1>3. SendInv' /\ OwnSendInv' /\ Carried /\ TextInv' /\ PostedInv' /\ SessionInv'
  BY <1>1, SendsInNext
<1>4. CheckInv' /\ OwnCheckInv' /\ VerdictsKept BY <1>1, ChecksInNext
<1>5. TurnInv'
  <2>1. <<>> \in Seq(Turn) /\ DOMAIN <<>> = {} OBVIOUS
  <2> QED BY <1>1, <2>1 DEF TurnInv
<1>6. SentInv'
  <2>1. generation <= generation' BY <1>0, <1>1, Bounds DEF PageInv
  <2> QED BY <1>0, <1>2, <1>3, <1>4, <2>1, CarriedSent DEF WidgetInv
<1>7. BaseInv' BY <1>1, <1>2, <1>4, BaseNext
<1>8. StateInv'
  <2>1. frame'[1] = "clear" BY <1>1
  <2> QED BY <1>1, <2>1 DEF StateInv
<1> QED BY <1>2, <1>3, <1>4, <1>5, <1>6, <1>7, <1>8 DEF WidgetInv

LEMMA OpenKeeps ==
  ASSUME WidgetInv, Open
  PROVE  WidgetInv'
<1>0. /\ PageInv /\ CheckInv /\ SendInv /\ OwnCheckInv /\ OwnSendInv /\ StateInv
      /\ BaseInv /\ SentInv /\ TextInv /\ SessionInv /\ TurnInv /\ PostedInv
  BY DEF WidgetInv
<1>1. /\ frame = <<"none", None>> /\ frame' = <<"open", None>>
      /\ open = FALSE /\ open' = TRUE
      /\ UNCHANGED <<connected, apiBase, since, state, stranded, generation, compatibleBase,
                     history, session, compatibility, chat, checks, sends>>
  BY <1>0 DEF Open, Drained, Dispatch, settings, work, PageInv
<1>2. frame'[1] = "open" /\ frame' \in {"none", "open", "clear", "check", "send"} \X Int
  BY <1>1 DEF None
<1>3. PageInv' BY <1>0, <1>1, <1>2 DEF PageInv
<1>4. SendInv'
  <2>1. SendsSound(sends, generation, chat, frame) BY <1>0 DEF SendInv
  <2>2. SendsSound(sends, generation, chat, frame') BY <1>1, <2>1, SendsFramed
  <2> QED BY <1>1, <2>2 DEF SendInv
<1>5. CheckInv'
  <2>1. ChecksSound(checks, generation, compatibility, frame) BY <1>0 DEF CheckInv
  <2>2. ChecksSound(checks, generation, compatibility, frame') BY <1>1, <2>1, ChecksFramed
  <2> QED BY <1>1, <2>2 DEF CheckInv
<1>6. chat = None /\ compatibility = None BY <1>0, <1>1 DEF OwnSendInv, OwnCheckInv
<1>7. OwnSendInv' /\ OwnCheckInv' BY <1>1, <1>6 DEF OwnSendInv, OwnCheckInv
<1>8. StateInv'
  <2>1. state = "closed" BY <1>0, <1>1 DEF StateInv
  <2> QED BY <1>1, <1>2, <1>6, <2>1 DEF StateInv
<1>9. BaseInv' /\ SentInv' BY <1>0, <1>1 DEF BaseInv, SentInv
<1>10. TextInv' /\ SessionInv' /\ TurnInv' /\ PostedInv'
  BY <1>0, <1>1 DEF TextInv, SessionInv, TurnInv, PostedInv
<1> QED BY <1>3, <1>4, <1>5, <1>7, <1>8, <1>9, <1>10 DEF WidgetInv

\* checkCompatibility, of the generation and the base that are current.
LEMMA Compatibility ==
  ASSUME WidgetInv, NEW fr,
         \A g \in 0 .. MaxGeneration : fr # <<"check", g>> /\ frame # <<"check", g>>,
         apiBase # NoBase, compatibleBase = NoBase,
         CheckCompatibility(apiBase, generation, compatibility, checks)
  PROVE  /\ ChecksSound(checks', generation, compatibility', fr) /\ VerdictsKept
         /\ compatibility' = generation
         /\ Active(checks'[generation]) /\ checks'[generation].base = apiBase
         /\ checks'[generation].got # "aborted" /\ checks'[generation].verdict # "available"
<1>1. PageInv /\ CheckInv /\ OwnCheckInv /\ BaseInv BY DEF WidgetInv
<1>2. generation \in 0 .. MaxGeneration /\ apiBase \in Bases BY <1>1 DEF PageInv, Base
<1>3. ChecksSound(checks, generation, compatibility, fr)
  <2>1. ChecksSound(checks, generation, compatibility, frame) BY <1>1 DEF CheckInv
  <2> QED BY <2>1, ChecksFramed
<1>4. CASE compatibility = None
  <2>1. checks[generation].verdict # "available" BY <1>1 DEF BaseInv
  <2>2. checks' = Begun(checks, generation, apiBase) /\ compatibility' = generation
    BY <1>4 DEF CheckCompatibility, Begun
  <2>3. ChecksSound(checks, generation, None, fr) BY <1>3, <1>4
  <2>4. /\ ChecksSound(checks', generation, generation, fr)
        /\ Active(checks'[generation]) /\ checks'[generation].base = apiBase
        /\ checks'[generation].got = ""
        /\ checks'[generation].verdict = "" /\ fr # <<"check", generation>>
        /\ VerdictsKept
    BY <1>2, <2>1, <2>2, <2>3, CheckStarts
  <2> QED BY <2>2, <2>4
<1>5. CASE compatibility # None
  <2>1. checks' = checks /\ compatibility' = compatibility BY <1>5 DEF CheckCompatibility
  <2>2. /\ compatibility = generation /\ Active(checks[generation])
        /\ checks[generation].base = apiBase /\ checks[generation].got # "aborted"
    BY <1>1, <1>5 DEF OwnCheckInv
  <2>3. CheckSound(generation, checks[generation], generation, compatibility, frame)
    BY <1>1, <1>2 DEF CheckInv, ChecksSound
  <2>4. checks[generation].verdict # "available" BY <2>2, <2>3 DEF CheckSound
  <2>5. VerdictsKept BY <2>1, SameChecks
  <2> QED BY <1>3, <2>1, <2>2, <2>4, <2>5
<1> QED BY <1>4, <1>5

\* A step of no send, in the same generation.
LEMMA SendsRest ==
  ASSUME WidgetInv, UNCHANGED <<generation, chat, history, session, sends>>,
         \A s \in 1 .. MaxSends : (frame' = <<"send", s>>) <=> (frame = <<"send", s>>)
  PROVE  SendInv' /\ Carried /\ TextInv' /\ SessionInv' /\ TurnInv' /\ PostedInv'
<1>1. SendInv /\ TextInv /\ SessionInv /\ TurnInv /\ PostedInv BY DEF WidgetInv
<1>2. SendInv'
  <2>1. SendsSound(sends, generation, chat, frame) BY <1>1 DEF SendInv
  <2>2. SendsSound(sends, generation, chat, frame') BY <2>1, SendsFramed
  <2> QED BY <2>2 DEF SendInv
<1>3. Carried BY <1>1, SameSends
<1>4. TextInv' /\ SessionInv' /\ TurnInv' /\ PostedInv'
  BY <1>1 DEF TextInv, SessionInv, TurnInv, PostedInv
<1> QED BY <1>2, <1>3, <1>4

\* The same for the checks.
LEMMA ChecksRest ==
  ASSUME WidgetInv, UNCHANGED <<generation, compatibility, checks>>,
         \A g \in 0 .. MaxGeneration : (frame' = <<"check", g>>) <=> (frame = <<"check", g>>)
  PROVE  CheckInv' /\ VerdictsKept
<1>1. CheckInv BY DEF WidgetInv
<1>2. ChecksSound(checks, generation, compatibility, frame) BY <1>1 DEF CheckInv
<1>3. ChecksSound(checks, generation, compatibility, frame') BY <1>2, ChecksFramed
<1> QED BY <1>3, SameChecks DEF CheckInv

LEMMA OpenedKeeps ==
  ASSUME WidgetInv, Opened
  PROVE  WidgetInv'
<1>0. PageInv /\ OwnCheckInv /\ OwnSendInv /\ StateInv /\ BaseInv /\ SentInv BY DEF WidgetInv
<1>1. /\ frame[1] = "open" /\ frame' = <<"none", None>>
      /\ state' = IF apiBase = NoBase THEN "terminal"
                  ELSE IF compatibleBase = apiBase THEN "ready" ELSE "checking"
      /\ stranded' = (state' = "checking" /\ ~connected)
      /\ UNCHANGED <<connected, apiBase, since, open, generation, compatibleBase, history,
                     session, chat, sends>>
  BY DEF Opened, Return, SetState, settings
<1>2. IF state' = "checking"
        THEN CheckCompatibility(apiBase, generation, compatibility, checks)
        ELSE UNCHANGED <<compatibility, checks>>
  BY DEF Opened
<1>3. open /\ chat = None BY <1>0, <1>1 DEF StateInv
<1>4. /\ \A g \in 0 .. MaxGeneration : frame # <<"check", g>> /\ frame' # <<"check", g>>
      /\ \A s \in 1 .. MaxSends : frame # <<"send", s>> /\ frame' # <<"send", s>>
      /\ frame' \in {"none", "open", "clear", "check", "send"} \X Int /\ frame'[1] = "none"
  BY <1>1 DEF None
<1>5. SendInv' /\ Carried /\ TextInv' /\ SessionInv' /\ TurnInv' /\ PostedInv'
  BY <1>1, <1>4, SendsRest
<1>6. OwnSendInv' BY <1>1, <1>3 DEF OwnSendInv
<1>7. CASE state' = "checking"
  <2>1. apiBase # NoBase /\ compatibleBase # apiBase BY <1>1, <1>7
  <2>2. compatibleBase = NoBase BY <1>0, <2>1 DEF BaseInv
  <2>3. CheckCompatibility(apiBase, generation, compatibility, checks) BY <1>2, <1>7
  <2>4. /\ ChecksSound(checks', generation, compatibility', frame') /\ VerdictsKept
        /\ compatibility' = generation
        /\ Active(checks'[generation]) /\ checks'[generation].base = apiBase
        /\ checks'[generation].got # "aborted" /\ checks'[generation].verdict # "available"
    BY <1>4, <2>1, <2>2, <2>3, Compatibility
  <2>5. generation \in 0 .. MaxGeneration /\ generation # None
    BY <1>0, Bounds DEF PageInv, None
  <2>6. PageInv' BY <1>0, <1>1, <1>4, <1>7, <2>4, <2>5 DEF PageInv
  <2>7. CheckInv' BY <1>1, <2>4 DEF CheckInv
  <2>8. OwnCheckInv' BY <1>1, <1>3, <1>4, <1>7, <2>2, <2>4, <2>5 DEF OwnCheckInv
  <2>9. BaseInv' BY <1>1, <2>2, <2>4 DEF BaseInv
  <2>10. generation <= generation' BY <1>1, <2>5, Bounds
  <2>11. SentInv' BY <1>0, <1>5, <2>4, <2>6, <2>10, CarriedSent
  <2>12. StateInv' BY <1>1, <1>3, <1>4, <1>7, <2>2, <2>4, <2>5 DEF StateInv
  <2> QED BY <1>5, <1>6, <2>6, <2>7, <2>8, <2>9, <2>11, <2>12 DEF WidgetInv
<1>8. CASE state' # "checking"
  <2>1. UNCHANGED <<compatibility, checks>> BY <1>2, <1>8
  <2>2. CheckInv' /\ VerdictsKept BY <1>1, <1>4, <2>1, ChecksRest
  <2>3. compatibility = None
    <3> SUFFICES ASSUME compatibility # None PROVE FALSE OBVIOUS
    <3>1. /\ compatibility = generation /\ Active(checks[generation])
          /\ checks[generation].base = apiBase /\ compatibleBase = NoBase
      BY <1>0 DEF OwnCheckInv
    <3>2. generation \in 0 .. MaxGeneration BY <1>0 DEF PageInv
    <3>3. checks[generation].base # NoBase
      BY <3>1, <3>2 DEF WidgetInv, CheckInv, ChecksSound, CheckSound
    <3> QED BY <1>1, <1>8, <3>1, <3>3
  <2>4. OwnCheckInv' BY <2>1, <2>3 DEF OwnCheckInv
  <2>5. PageInv' BY <1>0, <1>1, <1>4, <2>1 DEF PageInv
  <2>6. BaseInv' /\ SentInv' BY <1>0, <1>1, <2>1 DEF BaseInv, SentInv
  <2>7. StateInv' BY <1>1, <1>3, <1>4, <1>8 DEF StateInv
  <2> QED BY <1>5, <1>6, <2>2, <2>4, <2>5, <2>6, <2>7 DEF WidgetInv
<1> QED BY <1>7, <1>8

LEMMA ClearedKeeps ==
  ASSUME WidgetInv, Cleared
  PROVE  WidgetInv'
<1>0. PageInv /\ OwnCheckInv /\ OwnSendInv /\ StateInv /\ BaseInv /\ SentInv BY DEF WidgetInv
<1>1. /\ frame[1] = "clear" /\ frame' = <<"none", None>>
      /\ UNCHANGED <<connected, apiBase, since, open, state, stranded, generation,
                     compatibleBase, history, session, chat, sends>>
  BY DEF Cleared, Return, settings
<1>2. IF state # "ready" /\ open
        THEN CheckCompatibility(apiBase, generation, compatibility, checks)
        ELSE UNCHANGED <<compatibility, checks>>
  BY DEF Cleared
<1>3. open /\ chat = None BY <1>0, <1>1 DEF StateInv
<1>4. /\ \A g \in 0 .. MaxGeneration : frame # <<"check", g>> /\ frame' # <<"check", g>>
      /\ \A s \in 1 .. MaxSends : frame # <<"send", s>> /\ frame' # <<"send", s>>
      /\ frame' \in {"none", "open", "clear", "check", "send"} \X Int /\ frame'[1] = "none"
  BY <1>1 DEF None
<1>5. SendInv' /\ Carried /\ TextInv' /\ SessionInv' /\ TurnInv' /\ PostedInv'
  BY <1>1, <1>4, SendsRest
<1>6. OwnSendInv' BY <1>1, <1>3 DEF OwnSendInv
<1>7. CASE state # "ready" /\ apiBase # NoBase
  <2>1. state = "checking" /\ compatibleBase = NoBase BY <1>0, <1>1, <1>7 DEF StateInv
  <2>3. CheckCompatibility(apiBase, generation, compatibility, checks) BY <1>2, <1>3, <1>7
  <2>4. /\ ChecksSound(checks', generation, compatibility', frame') /\ VerdictsKept
        /\ compatibility' = generation
        /\ Active(checks'[generation]) /\ checks'[generation].base = apiBase
        /\ checks'[generation].got # "aborted" /\ checks'[generation].verdict # "available"
    BY <1>4, <1>7, <2>1, <2>3, Compatibility
  <2>5. generation \in 0 .. MaxGeneration /\ generation # None
    BY <1>0, Bounds DEF PageInv, None
  <2>6. PageInv' BY <1>0, <1>1, <1>4, <2>4, <2>5 DEF PageInv
  <2>7. CheckInv' BY <1>1, <2>4 DEF CheckInv
  <2>8. OwnCheckInv' BY <1>1, <1>3, <1>4, <2>1, <2>4, <2>5 DEF OwnCheckInv
  <2>9. BaseInv' BY <1>1, <2>1, <2>4 DEF BaseInv
  <2>10. generation <= generation' BY <1>1, <2>5, Bounds
  <2>11. SentInv' BY <1>0, <1>5, <2>4, <2>6, <2>10, CarriedSent
  <2>12. StateInv' BY <1>0, <1>1, <1>3, <1>4, <2>1, <2>4, <2>5 DEF StateInv
  <2> QED BY <1>5, <1>6, <2>6, <2>7, <2>8, <2>9, <2>11, <2>12 DEF WidgetInv
<1>8. CASE ~ (state # "ready" /\ apiBase # NoBase)
  <2>1. UNCHANGED <<compatibility, checks>> BY <1>2, <1>8 DEF CheckCompatibility
  <2>2. CheckInv' /\ VerdictsKept BY <1>1, <1>4, <2>1, ChecksRest
  <2>4. OwnCheckInv' BY <1>0, <1>1, <1>4, <2>1 DEF OwnCheckInv
  <2>5. PageInv' BY <1>0, <1>1, <1>4, <2>1 DEF PageInv
  <2>6. BaseInv' /\ SentInv' BY <1>0, <1>1, <2>1 DEF BaseInv, SentInv
  <2>7. StateInv' BY <1>0, <1>1, <1>3, <1>4, <1>8 DEF StateInv
  <2> QED BY <1>5, <1>6, <2>2, <2>4, <2>5, <2>6, <2>7 DEF WidgetInv
<1> QED BY <1>7, <1>8

LEMMA ConfigureKeeps ==
  ASSUME WidgetInv, NEW base \in Bases, Configure(base)
  PROVE  WidgetInv'
<1>0. /\ PageInv /\ CheckInv /\ SendInv /\ OwnCheckInv /\ OwnSendInv /\ StateInv /\ BaseInv
      /\ SentInv
  BY DEF WidgetInv
<1>1. /\ base # apiBase /\ apiBase' = base /\ compatibleBase' = NoBase
      /\ since' = generation'
      /\ IF open THEN state' = "checking" /\ stranded' = ~connected
                 ELSE UNCHANGED <<state, stranded>>
      /\ UNCHANGED <<connected, open, history, session, frame>>
  <2>1. apiBase = NoBase => compatibleBase = NoBase BY <1>0 DEF BaseInv
  <2>2. base # NoBase BY Bounds
  <2> QED BY <2>1, <2>2 DEF Configure, SetState
<1>2. base # NoBase BY Bounds
<1>3. ~ open => state = "closed" /\ frame[1] \notin {"open", "clear"} BY <1>0 DEF StateInv
<1>4. CASE apiBase # NoBase
  <2>1. /\ generation + 1 <= MaxGeneration /\ generation' = generation + 1
        /\ chat' = None /\ sends' = AbortedSends
        /\ IF open THEN CheckCompatibility(base, generation + 1, None, AbortedChecks)
                   ELSE compatibility' = None /\ checks' = AbortedChecks
    BY <1>2, <1>4 DEF Configure
  <2>2. generation < MaxGeneration /\ generation + 1 \in 0 .. MaxGeneration
        /\ generation + 1 # None /\ generation <= generation + 1
        /\ generation + 1 \in 0 .. generation + 1
    BY <1>0, <2>1, Bounds DEF PageInv, None
  <2>3. SendInv' /\ OwnSendInv' /\ Carried /\ TextInv' /\ PostedInv' /\ SessionInv'
    BY <1>1, <2>1, SendsInNext
  <2>4. TurnInv' BY <1>1, <2>3, CarriedTurns DEF WidgetInv
  <2>5. ChecksSound(AbortedChecks, generation + 1, None, frame) BY <1>0, ChecksLeft
  <2>6. AbortedChecks[generation + 1].verdict = "" BY <2>2, NextIsNew
  <2>7. CASE open
    <3>1. checks' = Begun(AbortedChecks, generation + 1, base) /\ compatibility' = generation + 1
      BY <1>2, <2>1, <2>7 DEF CheckCompatibility, Begun
    <3>2. \A g \in 0 .. MaxGeneration :
            AbortedChecks[g].verdict = checks[g].verdict /\ AbortedChecks[g].base = checks[g].base
      BY <1>0, ChecksAborted
    <3>3. /\ ChecksSound(checks', generation + 1, generation + 1, frame)
          /\ Active(checks'[generation + 1]) /\ checks'[generation + 1].base = base
          /\ checks'[generation + 1].got = ""
          /\ checks'[generation + 1].verdict = "" /\ frame # <<"check", generation + 1>>
          /\ VerdictsKept
      BY <2>2, <2>5, <2>6, <3>1, <3>2, CheckStarts
    <3>4. PageInv' BY <1>0, <1>1, <2>1, <2>2, <2>7, <3>1 DEF PageInv, Base
    <3>5. CheckInv' BY <1>1, <2>1, <3>1, <3>3 DEF CheckInv
    <3>6. OwnCheckInv' BY <1>1, <2>1, <2>7, <3>1, <3>3 DEF OwnCheckInv
    <3>7. BaseInv' BY <1>1, <2>1, <3>3 DEF BaseInv
    <3>8. SentInv' BY <1>0, <2>1, <2>2, <2>3, <3>3, <3>4, CarriedSent
    <3>9. StateInv' BY <1>0, <1>1, <2>1, <2>2, <2>7, <3>1 DEF StateInv, PageInv
    <3> QED BY <2>3, <2>4, <3>4, <3>5, <3>6, <3>7, <3>8, <3>9 DEF WidgetInv
  <2>8. CASE ~ open
    <3>1. compatibility' = None /\ checks' = AbortedChecks BY <2>1, <2>8
    <3>2. CheckInv' /\ OwnCheckInv' /\ VerdictsKept BY <1>1, <2>1, <3>1, ChecksInNext
    <3>4. PageInv' BY <1>0, <1>1, <2>1, <2>2, <2>8, <3>1 DEF PageInv, Base
    <3>7. BaseInv' BY <1>1, <2>1, <2>6, <3>1 DEF BaseInv
    <3>8. SentInv' BY <1>0, <2>1, <2>2, <2>3, <3>2, <3>4, CarriedSent
    <3>9. StateInv' BY <1>0, <1>1, <1>3, <2>8 DEF StateInv
    <3> QED BY <2>3, <2>4, <3>2, <3>4, <3>7, <3>8, <3>9 DEF WidgetInv
  <2> QED BY <2>7, <2>8
<1>5. CASE apiBase = NoBase
  <2>0. generation \in 0 .. MaxGeneration /\ generation # None BY <1>0, Bounds DEF PageInv, None
  <2>1. compatibility = None
    <3> SUFFICES ASSUME compatibility # None PROVE FALSE OBVIOUS
    <3>1. Active(checks[generation]) /\ checks[generation].base = NoBase
      BY <1>0, <1>5 DEF OwnCheckInv
    <3> QED BY <1>0, <2>0, <3>1 DEF CheckInv, ChecksSound, CheckSound
  <2>2. chat = None
    <3> SUFFICES ASSUME chat # None PROVE FALSE OBVIOUS
    <3>1. Active(sends[chat]) /\ sends[chat].base = NoBase BY <1>0, <1>5 DEF OwnSendInv
    <3>2. chat \in 1 .. MaxSends BY <1>0 DEF PageInv
    <3> QED BY <1>0, <3>1, <3>2 DEF SendInv, SendsSound, SendSound
  <2>3. compatibleBase = NoBase BY <1>0, <1>5 DEF BaseInv
  <2>4. /\ generation' = generation /\ UNCHANGED <<chat, sends>>
        /\ IF open THEN CheckCompatibility(base, generation, None, checks)
                   ELSE compatibility' = None /\ checks' = checks
    BY <1>2, <1>5, <2>1, <2>3 DEF Configure
  <2>5. SendInv' /\ Carried /\ TextInv' /\ SessionInv' /\ TurnInv' /\ PostedInv'
    BY <1>1, <2>4, SendsRest
  <2>6. OwnSendInv' BY <2>2, <2>4 DEF OwnSendInv
  <2>7. since' \in 0 .. generation' BY <1>1, <2>0, <2>4, Bounds
  <2>8. checks[generation].verdict # "available" BY <1>0, <2>3 DEF BaseInv
  <2>9. CASE open
    <3>1. checks' = Begun(checks, generation, base) /\ compatibility' = generation
      BY <1>2, <2>4, <2>9 DEF CheckCompatibility, Begun
    <3>2. ChecksSound(checks, generation, None, frame) BY <1>0, <2>1 DEF CheckInv
    <3>3. /\ ChecksSound(checks', generation, generation, frame)
          /\ Active(checks'[generation]) /\ checks'[generation].base = base
          /\ checks'[generation].got = ""
          /\ checks'[generation].verdict = "" /\ frame # <<"check", generation>>
          /\ VerdictsKept
      BY <2>0, <2>8, <3>1, <3>2, CheckStarts
    <3>4. PageInv' BY <1>0, <1>1, <2>0, <2>4, <2>7, <2>9, <3>1 DEF PageInv, Base
    <3>5. CheckInv' BY <1>1, <2>4, <3>1, <3>3 DEF CheckInv
    <3>6. OwnCheckInv' BY <1>1, <2>2, <2>4, <2>9, <3>1, <3>3 DEF OwnCheckInv
    <3>7. BaseInv' BY <1>1, <2>4, <3>3 DEF BaseInv
    <3>8. generation <= generation' BY <2>0, <2>4, Bounds
    <3>9. SentInv' BY <1>0, <2>5, <3>3, <3>4, <3>8, CarriedSent
    <3>10. StateInv' BY <1>0, <1>1, <2>0, <2>2, <2>4, <2>9, <3>1 DEF StateInv, PageInv
    <3> QED BY <2>5, <2>6, <3>4, <3>5, <3>6, <3>7, <3>9, <3>10 DEF WidgetInv
  <2>10. CASE ~ open
    <3>1. UNCHANGED <<compatibility, checks>> BY <2>1, <2>4, <2>10
    <3>2. CheckInv' /\ VerdictsKept BY <1>1, <2>4, <3>1, ChecksRest
    <3>3. OwnCheckInv' BY <2>1, <3>1 DEF OwnCheckInv
    <3>4. PageInv' BY <1>0, <1>1, <2>0, <2>4, <2>7, <2>10, <3>1 DEF PageInv, Base
    <3>5. BaseInv' BY <1>1, <2>4, <2>8, <3>1 DEF BaseInv
    <3>6. SentInv' BY <1>0, <2>4, <3>1 DEF SentInv
    <3>7. StateInv' BY <1>0, <1>1, <1>3, <2>10 DEF StateInv
    <3> QED BY <2>5, <2>6, <3>2, <3>3, <3>4, <3>5, <3>6, <3>7 DEF WidgetInv
  <2> QED BY <2>9, <2>10
<1> QED BY <1>4, <1>5

-------------------------------------------------------------------------------
(* checkCompatibility.                                                     *)

\* A step of one check.
LEMMA OneCheck ==
  ASSUME WidgetInv, UNCHANGED generation, NEW g \in 0 .. MaxGeneration, NEW new \in Check,
         checks' = [checks EXCEPT ![g] = new],
         CheckSound(g, new, generation, compatibility', frame'),
         \A h \in 0 .. MaxGeneration : h # g =>
           /\ compatibility = h => compatibility' = h
           /\ (frame' = <<"check", h>>) <=> (frame = <<"check", h>>),
         checks[g].verdict = "available" => new.verdict = "available" /\ new.base = checks[g].base
  PROVE  /\ CheckInv' /\ VerdictsKept /\ checks'[g] = new
         /\ \A h \in 0 .. MaxGeneration : h # g => checks'[h] = checks[h]
<1>1. checks \in [0 .. MaxGeneration -> Check] BY DEF WidgetInv, CheckInv, ChecksSound
<1>2. checks' \in [0 .. MaxGeneration -> Check] BY <1>1
<1>3. checks'[g] = new /\ \A h \in 0 .. MaxGeneration : h # g => checks'[h] = checks[h]
  BY <1>1
<1>4. ASSUME NEW h \in 0 .. MaxGeneration, h # g
      PROVE  CheckSound(h, checks[h], generation, compatibility', frame')
  <2>1. CheckSound(h, checks[h], generation, compatibility, frame)
    BY DEF WidgetInv, CheckInv, ChecksSound
  <2>2. /\ compatibility = h => compatibility' = h
        /\ (frame' = <<"check", h>>) <=> (frame = <<"check", h>>)
    BY <1>4
  <2> QED BY <2>1, <2>2 DEF CheckSound
<1>5. ASSUME NEW h \in 0 .. MaxGeneration
      PROVE  CheckSound(h, checks'[h], generation, compatibility', frame')
  <2>1. CASE h = g BY <1>3, <2>1
  <2>2. CASE h # g
    <3>1. CheckSound(h, checks[h], generation, compatibility', frame') BY <1>4, <2>2
    <3>2. checks'[h] = checks[h] BY <1>3, <2>2
    <3> QED BY <3>1, <3>2
  <2> QED BY <2>1, <2>2
<1>6. CheckInv' BY <1>2, <1>5 DEF CheckInv, ChecksSound
<1>7. VerdictsKept BY <1>3 DEF VerdictsKept
<1> QED BY <1>3, <1>6, <1>7

LEMMA OverIs ==
  ASSUME NEW check \in Check
  PROVE  /\ Over(check) \in Check /\ Over(check).at = "over" /\ Over(check).got = ""
         /\ Over(check).verdict = check.verdict /\ Over(check).base = check.base
         /\ ~ Active(Over(check))
BY DEF Over, Check, CheckGot, Active

\* The finally of a check: what it does when the handler of its event has
\* returned, and where it is no longer current.
CheckLeaves(g) ==
  /\ checks' = [checks EXCEPT ![g] = Over(@)]
  /\ Release(g)
  /\ UNCHANGED <<connected, apiBase, since, open, state, stranded, generation,
                 compatibleBase, history, session, chat, sends>>
  /\ \/ frame[1] = "none" /\ frame' = frame
     \/ frame = <<"check", g>> /\ frame' = <<"none", None>>

LEMMA CheckEnds ==
  ASSUME WidgetInv, NEW g \in 0 .. MaxGeneration, Active(checks[g]), CheckLeaves(g),
         compatibility = g => state = "terminal" \/ stranded
  PROVE  WidgetInv'
<1> USE DEF CheckLeaves
<1>0. /\ PageInv /\ CheckInv /\ OwnCheckInv /\ OwnSendInv /\ StateInv /\ BaseInv /\ SentInv
  BY DEF WidgetInv
<1>1. /\ frame'[1] = "none" /\ frame[1] \in {"none", "check"}
      /\ frame' \in {"none", "open", "clear", "check", "send"} \X Int
      /\ \A h \in 0 .. MaxGeneration :
           frame' # <<"check", h>> /\ (h # g => frame # <<"check", h>>)
      /\ \A s \in 1 .. MaxSends : frame' # <<"send", s>> /\ frame # <<"send", s>>
  BY <1>0 DEF None, PageInv
<1>2. checks[g] \in Check /\ CheckSound(g, checks[g], generation, compatibility, frame)
  BY <1>0 DEF CheckInv, ChecksSound
<1>3. compatibility' = IF compatibility = g THEN None ELSE compatibility BY DEF Release
<1>4. generation \in 0 .. MaxGeneration /\ g \in Int /\ generation \in Int /\ g # None
  BY <1>0, Bounds DEF PageInv, None
<1>5. ~ (g > generation)
  <2> SUFFICES ASSUME g > generation PROVE FALSE OBVIOUS
  <2>1. checks[g] = NoCheck BY <1>2 DEF CheckSound
  <2> QED BY <2>1, NoCheckIs
<1>6. checks[g].verdict = "" BY <1>2 DEF CheckSound
<1> DEFINE new == Over(checks[g])
<1>7. /\ new \in Check /\ new.at = "over" /\ new.got = "" /\ new.verdict = ""
      /\ ~ Active(new)
  BY <1>2, <1>6, OverIs
<1>8. checks' = [checks EXCEPT ![g] = new] OBVIOUS
<1> HIDE DEF new
<1>9. CheckSound(g, new, generation, compatibility', frame')
  <2>1. frame' # <<"check", g>> BY <1>1
  <2> QED BY <1>5, <1>7, <2>1 DEF CheckSound
<1>10. /\ CheckInv' /\ VerdictsKept /\ checks'[g] = new
       /\ \A h \in 0 .. MaxGeneration : h # g => checks'[h] = checks[h]
  <2>1. \A h \in 0 .. MaxGeneration : h # g =>
           /\ compatibility = h => compatibility' = h
           /\ (frame' = <<"check", h>>) <=> (frame = <<"check", h>>)
    BY <1>1, <1>3
  <2>2. checks[g].verdict # "available" BY <1>6
  <2> QED BY <1>7, <1>8, <1>9, <2>1, <2>2, OneCheck
<1>11. SendInv' /\ Carried /\ TextInv' /\ SessionInv' /\ TurnInv' /\ PostedInv'
  BY <1>1, SendsRest
<1>12. PageInv' BY <1>0, <1>1, <1>3 DEF PageInv
<1>13. OwnCheckInv'
  <2> SUFFICES ASSUME compatibility' # None PROVE OwnCheckInv' BY DEF OwnCheckInv
  <2>1. compatibility' = compatibility /\ compatibility # g BY <1>3
  <2>2. /\ compatibility = generation
        /\ Active(checks[generation]) /\ checks[generation].base = apiBase
        /\ checks[generation].got # "aborted"
        /\ compatibleBase = NoBase /\ open /\ chat = None
        /\ IF frame = <<"check", generation>> THEN state = "terminal" ELSE state = "checking"
    BY <1>0, <2>1 DEF OwnCheckInv
  <2>3. generation # g BY <2>1, <2>2
  <2>4. checks'[generation] = checks[generation] BY <1>4, <1>10, <2>3
  <2>5. frame # <<"check", generation>> /\ frame' # <<"check", generation>>
    BY <1>1, <1>4, <2>3
  <2> QED BY <2>1, <2>2, <2>4, <2>5 DEF OwnCheckInv
<1>14. OwnSendInv'
  <2>1. chat # None => chat \in 1 .. MaxSends BY <1>0 DEF PageInv
  <2>2. chat # None => frame # <<"send", chat>> /\ frame' # <<"send", chat>> BY <1>1, <2>1
  <2> QED BY <1>0, <2>2 DEF OwnSendInv
<1>15. StateInv'
  <2>1. state = "checking" /\ apiBase # NoBase => compatibility' # None \/ stranded
    BY <1>0, <1>1, <1>3 DEF StateInv
  <2>2. open => state # "closed" BY <1>0, <1>1 DEF StateInv
  <2> QED BY <1>0, <1>1, <2>1, <2>2 DEF StateInv
<1>16. BaseInv'
  <2>1. checks'[generation].verdict = "available" => checks[generation].verdict = "available"
    BY <1>4, <1>7, <1>10
  <2>2. compatibleBase # NoBase => Answered(checks', compatibleBase, since', generation')
    <3>1. generation <= generation' BY <1>4
    <3> QED BY <1>0, <1>10, <1>12, <3>1, AnsweredStays DEF BaseInv
  <2> QED BY <1>0, <2>1, <2>2 DEF BaseInv
<1>17. SentInv'
  <2>1. generation <= generation' BY <1>4
  <2> QED BY <1>0, <1>10, <1>11, <1>12, <2>1, CarriedSent
<1> QED BY <1>10, <1>11, <1>12, <1>13, <1>14, <1>15, <1>16, <1>17 DEF WidgetInv

LEMMA NoFrame ==
  ASSUME NEW fr, fr[1] = "none", NEW n
  PROVE  fr # <<"check", n>> /\ fr # <<"send", n>>
OBVIOUS

\* A check that is current is the one the element owns.
LEMMA CurrentOwns ==
  ASSUME WidgetInv, NEW g \in 0 .. MaxGeneration, Active(checks[g]), generation = g
  PROVE  /\ compatibility = g /\ checks[g].base = apiBase /\ apiBase # NoBase
         /\ compatibleBase = NoBase /\ open /\ chat = None
         /\ checks[g].got # "aborted" /\ checks[g].verdict = ""
<1>1. CheckSound(g, checks[g], generation, compatibility, frame)
  BY DEF WidgetInv, CheckInv, ChecksSound
<1>2. compatibility = g /\ checks[g].base # NoBase /\ checks[g].verdict = ""
  BY <1>1 DEF CheckSound
<1>3. g # None BY Bounds DEF None
<1> QED BY <1>2, <1>3 DEF WidgetInv, OwnCheckInv

\* A step of the check the element owns, which goes on.
LEMMA CheckGoesOn ==
  ASSUME WidgetInv, NEW g \in 0 .. MaxGeneration, Active(checks[g]), frame[1] = "none",
         NEW new \in Check, checks' = [checks EXCEPT ![g] = new],
         new.at \in {"fetch", "body"}, new.base = checks[g].base, new.verdict = checks[g].verdict,
         new.got \notin {"aborted", "told"},
         new.at = "fetch" => new.got \in {"", "response", "rejected", "timeout"},
         new.at = "body" => new.got \in {"", "available", "mismatch", "broken", "timeout"},
         UNCHANGED <<connected, apiBase, since, open, state, stranded, generation,
                     compatibleBase, compatibility, history, session, chat, sends, frame>>
  PROVE  WidgetInv'
<1>0. /\ PageInv /\ CheckInv /\ OwnCheckInv /\ OwnSendInv /\ StateInv /\ BaseInv /\ SentInv
  BY DEF WidgetInv
<1>1. /\ \A h \in 0 .. MaxGeneration : frame' # <<"check", h>> /\ frame # <<"check", h>>
      /\ \A s \in 1 .. MaxSends : frame' # <<"send", s>> /\ frame # <<"send", s>>
  <2>1. frame' = frame /\ frame[1] = "none" OBVIOUS
  <2> QED BY ONLY <2>1, NoFrame
<1>2. CheckSound(g, checks[g], generation, compatibility, frame)
  BY <1>0 DEF CheckInv, ChecksSound
<1>3. /\ generation \in 0 .. MaxGeneration /\ g \in Int /\ generation \in Int
      /\ generation <= generation'
  <2>1. generation' = generation OBVIOUS
  <2>2. g \in 0 .. MaxGeneration OBVIOUS
  <2>3. generation \in 0 .. MaxGeneration BY <1>0 DEF PageInv
  <2> QED BY ONLY <2>1, <2>2, <2>3, Bounds
<1>4. ~ (g > generation)
  <2> SUFFICES ASSUME g > generation PROVE FALSE OBVIOUS
  <2>1. checks[g] = NoCheck BY <1>2 DEF CheckSound
  <2> QED BY <2>1, NoCheckIs
<1>5. Active(new) /\ new.verdict = "" /\ new.base # NoBase
  BY <1>2 DEF CheckSound, Active
<1>6. CheckSound(g, new, generation, compatibility', frame')
  <2>1. g = generation => compatibility' = g BY <1>2 DEF CheckSound
  <2>2. frame' # <<"check", g>> BY <1>1
  <2> QED BY <1>4, <1>5, <2>1, <2>2 DEF CheckSound
<1>7. /\ CheckInv' /\ VerdictsKept /\ checks'[g] = new
      /\ \A h \in 0 .. MaxGeneration : h # g => checks'[h] = checks[h]
  <2>1. checks[g].verdict # "available" BY <1>5
  <2> QED BY <1>1, <1>6, <2>1, OneCheck
<1>8. SendInv' /\ Carried /\ TextInv' /\ SessionInv' /\ TurnInv' /\ PostedInv'
  BY <1>1, SendsRest
<1>9. PageInv' BY <1>0 DEF PageInv
<1>10. OwnCheckInv'
  <2>1. CASE generation = g
    <3>1. /\ Active(checks'[generation]) /\ checks'[generation].base = checks[generation].base
          /\ checks'[generation].got # "aborted"
      BY <1>5, <1>7, <2>1
    <3> QED BY <1>0, <3>1 DEF OwnCheckInv
  <2>2. CASE generation # g
    <3>1. checks'[generation] = checks[generation] BY <1>3, <1>7, <2>2
    <3> QED BY <1>0, <3>1 DEF OwnCheckInv
  <2> QED BY <2>1, <2>2
<1>11. OwnSendInv' BY <1>0 DEF OwnSendInv
<1>12. StateInv' BY <1>0 DEF StateInv
<1>13. BaseInv'
  <2>1. checks'[generation].verdict = checks[generation].verdict BY <1>3, <1>7
  <2>2. compatibleBase # NoBase => Answered(checks', compatibleBase, since', generation')
    BY <1>0, <1>3, <1>7, <1>9, AnsweredStays DEF BaseInv
  <2> QED BY <1>0, <2>1, <2>2 DEF BaseInv
<1>14. SentInv' BY <1>0, <1>3, <1>7, <1>8, <1>9, CarriedSent
<1> QED BY <1>7, <1>8, <1>9, <1>10, <1>11, <1>12, <1>13, <1>14 DEF WidgetInv

LEMMA CheckWakesKeeps ==
  ASSUME WidgetInv, NEW g \in 0 .. MaxGeneration, CheckWakes(g)
  PROVE  WidgetInv'
<1>1. PICK got : /\ \/ checks[g].at = "fetch" /\ got \in {"response", "rejected", "timeout"}
                    \/ checks[g].at = "body"
                         /\ got \in {"available", "mismatch", "broken", "timeout"}
                 /\ checks' = [checks EXCEPT ![g].got = got]
  BY DEF CheckWakes
<1>2. /\ frame[1] = "none"
      /\ UNCHANGED <<connected, apiBase, since, open, state, stranded, generation,
                     compatibleBase, compatibility, history, session, chat, sends, frame>>
  BY DEF CheckWakes, Drained, settings, panel
<1>3. checks[g] \in Check BY DEF WidgetInv, CheckInv, ChecksSound
<1>4. Active(checks[g]) BY <1>1 DEF Active
<1> DEFINE new == [checks[g] EXCEPT !.got = got]
<1>5. checks' = [checks EXCEPT ![g] = new] BY <1>1
<1>6. /\ new \in Check /\ new.at = checks[g].at /\ new.got = got
      /\ new.base = checks[g].base /\ new.verdict = checks[g].verdict
  BY <1>1, <1>3 DEF Check, CheckGot
<1> HIDE DEF new
<1>7. /\ new.at \in {"fetch", "body"} /\ new.got \notin {"aborted", "told"}
      /\ new.at = "fetch" => new.got \in {"", "response", "rejected", "timeout"}
      /\ new.at = "body" => new.got \in {"", "available", "mismatch", "broken", "timeout"}
  BY <1>1, <1>6
<1> QED BY <1>2, <1>4, <1>5, <1>6, <1>7, CheckGoesOn

\* compatibilityFailure, up to the listeners of its event.
LEMMA CheckFails ==
  ASSUME WidgetInv, NEW g \in 0 .. MaxGeneration, Active(checks[g]), generation = g,
         frame[1] = "none", CompatibilityFailure(g),
         UNCHANGED <<settings, open, generation, history, session, chat, sends>>
  PROVE  WidgetInv'
<1>0. /\ PageInv /\ CheckInv /\ OwnCheckInv /\ OwnSendInv /\ StateInv /\ BaseInv /\ SentInv
  BY DEF WidgetInv
<1>1. /\ compatibleBase' = NoBase /\ state' = "terminal" /\ stranded' = FALSE
      /\ frame' = <<"check", g>> /\ compatibility' = compatibility
      /\ checks' = [checks EXCEPT ![g].got = "told"]
      /\ UNCHANGED <<connected, apiBase, since, open, generation, history, session, chat, sends>>
  BY DEF CompatibilityFailure, SetState, Dispatch, settings
<1>2. /\ compatibility = g /\ checks[g].base = apiBase /\ apiBase # NoBase
      /\ compatibleBase = NoBase /\ open /\ chat = None
      /\ checks[g].got # "aborted" /\ checks[g].verdict = ""
  BY CurrentOwns
<1>3. /\ \A h \in 0 .. MaxGeneration : frame # <<"check", h>>
      /\ \A h \in 0 .. MaxGeneration : h # g => frame' # <<"check", h>>
      /\ \A s \in 1 .. MaxSends : frame' # <<"send", s>> /\ frame # <<"send", s>>
      /\ frame' \in {"none", "open", "clear", "check", "send"} \X Int /\ frame'[1] = "check"
  BY <1>1
<1>4. checks[g] \in Check /\ CheckSound(g, checks[g], generation, compatibility, frame)
  BY <1>0 DEF CheckInv, ChecksSound
<1>5. g \in Int /\ generation <= generation' /\ ~ (g > generation) BY <1>0, <1>1, Bounds DEF PageInv
<1> DEFINE new == [checks[g] EXCEPT !.got = "told"]
<1>6. checks' = [checks EXCEPT ![g] = new] BY <1>1
<1>7. /\ new \in Check /\ new.at = checks[g].at /\ new.got = "told"
      /\ new.base = checks[g].base /\ new.verdict = ""
  BY <1>2, <1>4 DEF Check, CheckGot
<1> HIDE DEF new
<1>8. Active(new) /\ new.base # NoBase BY <1>2, <1>7 DEF Active
<1>9. CheckSound(g, new, generation, compatibility', frame')
  <2>1. compatibility' = g BY <1>1, <1>2
  <2> QED BY <1>1, <1>5, <1>7, <1>8, <2>1 DEF CheckSound
<1>10. /\ CheckInv' /\ VerdictsKept /\ checks'[g] = new
       /\ \A h \in 0 .. MaxGeneration : h # g => checks'[h] = checks[h]
  <2>1. checks[g].verdict # "available" BY <1>2
  <2>2. \A h \in 0 .. MaxGeneration : h # g =>
           /\ compatibility = h => compatibility' = h
           /\ (frame' = <<"check", h>>) <=> (frame = <<"check", h>>)
    BY <1>1, <1>3
  <2>3. UNCHANGED generation BY <1>1
  <2> QED BY <1>6, <1>7, <1>9, <2>1, <2>2, <2>3, OneCheck
<1>11. SendInv' /\ Carried /\ TextInv' /\ SessionInv' /\ TurnInv' /\ PostedInv'
  BY <1>1, <1>3, SendsRest
<1>12. PageInv' BY <1>0, <1>1, <1>3 DEF PageInv, Base
<1>13. OwnCheckInv'
  <2>1. checks'[generation'] = new /\ frame' = <<"check", generation'>> BY <1>1, <1>10
  <2>2. /\ compatibility' = generation' /\ apiBase' = apiBase /\ compatibleBase' = NoBase
        /\ open' /\ chat' = None /\ state' = "terminal"
    <3>1. generation = g OBVIOUS
    <3> QED BY ONLY <1>1, <1>2, <3>1
  <2> QED BY ONLY <1>2, <1>7, <1>8, <2>1, <2>2 DEF OwnCheckInv
<1>14. OwnSendInv' BY <1>1, <1>2 DEF OwnSendInv
<1>15. StateInv'
  <2>1. state' = "terminal" /\ open' /\ frame'[1] = "check" BY ONLY <1>1, <1>2, <1>3
  <2> QED BY ONLY <2>1 DEF StateInv
<1>16. BaseInv' BY <1>1, <1>7, <1>10 DEF BaseInv
<1>17. SentInv' BY <1>0, <1>5, <1>10, <1>11, <1>12, CarriedSent
<1> QED BY <1>10, <1>11, <1>12, <1>13, <1>14, <1>15, <1>16, <1>17 DEF WidgetInv

\* A check that finds it is not current.
LEMMA CheckQuitsKeeps ==
  ASSUME WidgetInv, NEW g \in 0 .. MaxGeneration, Active(checks[g]), frame[1] = "none",
         checks[g].got = "aborted" \/ ~ IsCurrent(g, checks[g].base), CheckQuits(g),
         UNCHANGED <<settings, open, generation, history, session, chat, sends>>
  PROVE  WidgetInv'
<1>1. /\ checks' = [checks EXCEPT ![g] = Over(@)] /\ Release(g)
      /\ UNCHANGED <<connected, apiBase, since, open, state, stranded, generation,
                     compatibleBase, history, session, chat, sends, frame>>
  BY DEF CheckQuits, settings, panel
<1>2. compatibility = g => state = "terminal" \/ stranded
  <2> SUFFICES ASSUME compatibility = g PROVE state = "terminal" \/ stranded OBVIOUS
  <2>1. g # None BY Bounds DEF None
  <2>2. /\ generation = g /\ checks[g].base = apiBase /\ checks[g].got # "aborted"
        /\ state \in {"terminal", "checking"}
    BY <2>1 DEF WidgetInv, OwnCheckInv
  <2>3. ~ connected BY <2>2 DEF IsCurrent
  <2> QED BY <2>2, <2>3 DEF WidgetInv, StateInv
<1>3. CheckLeaves(g) BY <1>1 DEF CheckLeaves
<1> QED BY <1>2, <1>3, CheckEnds

LEMMA CheckFetchedKeeps ==
  ASSUME WidgetInv, NEW g \in 0 .. MaxGeneration, CheckFetched(g)
  PROVE  WidgetInv'
<1>1. /\ frame[1] = "none" /\ checks[g].at = "fetch" /\ checks[g].got # ""
      /\ UNCHANGED <<settings, open, generation, history, session, chat, sends>>
  BY DEF CheckFetched
<1>2. /\ checks[g] \in Check /\ Active(checks[g])
      /\ checks[g].got \in {"response", "rejected", "timeout", "aborted"}
  <2>1. checks[g] \in Check /\ CheckSound(g, checks[g], generation, compatibility, frame)
    BY DEF WidgetInv, CheckInv, ChecksSound
  <2>2. frame # <<"check", g>> BY <1>1, NoFrame
  <2> QED BY <1>1, <2>1, <2>2 DEF CheckSound, Active
<1>3. CASE checks[g].got = "aborted"
  <2>1. CheckQuits(g) BY <1>3 DEF CheckFetched
  <2> QED BY <1>1, <1>2, <1>3, <2>1, CheckQuitsKeeps
<1>4. CASE checks[g].got # "aborted" /\ ~ IsCurrent(g, checks[g].base)
  <2>1. CheckQuits(g)
    <3>1. CASE checks[g].got \in {"rejected", "timeout"} BY <1>4, <3>1 DEF CheckFetched
    <3>2. CASE checks[g].got = "response" BY <1>4, <3>2 DEF CheckFetched
    <3> QED BY <1>2, <1>4, <3>1, <3>2
  <2> QED BY <1>1, <1>2, <1>4, <2>1, CheckQuitsKeeps
<1>5. CASE checks[g].got \in {"rejected", "timeout"} /\ IsCurrent(g, checks[g].base)
  <2>1. CompatibilityFailure(g) BY <1>5 DEF CheckFetched
  <2>2. generation = g BY <1>5 DEF IsCurrent
  <2> QED BY <1>1, <1>2, <2>1, <2>2, CheckFails
<1>6. CASE checks[g].got = "response" /\ IsCurrent(g, checks[g].base)
  <2>1. /\ checks' = [checks EXCEPT ![g].at = "body", ![g].got = ""]
        /\ UNCHANGED <<compatibleBase, compatibility, panel>>
    BY <1>6 DEF CheckFetched
  <2> DEFINE new == [checks[g] EXCEPT !.at = "body", !.got = ""]
  <2>2. checks' = [checks EXCEPT ![g] = new]
    <3>1. checks \in [0 .. MaxGeneration -> Check] BY DEF WidgetInv, CheckInv, ChecksSound
    <3> QED BY <2>1, <3>1
  <2>3. /\ new \in Check /\ new.at = "body" /\ new.got = ""
        /\ new.base = checks[g].base /\ new.verdict = checks[g].verdict
    BY <1>2 DEF Check, CheckGot
  <2> HIDE DEF new
  <2> QED BY <1>1, <1>2, <2>1, <2>2, <2>3, CheckGoesOn DEF settings, panel
<1> QED BY <1>2, <1>3, <1>4, <1>5, <1>6

\* The base is available.
LEMMA CheckAccepts ==
  ASSUME WidgetInv, NEW g \in 0 .. MaxGeneration, Active(checks[g]), generation = g,
         frame[1] = "none", compatibleBase' = checks[g].base, SetState("ready"),
         checks' = [checks EXCEPT ![g] = [Over(@) EXCEPT !.verdict = "available"]], Release(g),
         UNCHANGED <<connected, apiBase, since, open, generation, history, session, chat, sends,
                     frame>>
  PROVE  WidgetInv'
<1>0. /\ PageInv /\ CheckInv /\ OwnCheckInv /\ OwnSendInv /\ StateInv /\ BaseInv /\ SentInv
  BY DEF WidgetInv
<1>1. /\ compatibleBase' = apiBase /\ state' = "ready" /\ stranded' = FALSE
      /\ compatibility' = None
      /\ compatibility = g /\ checks[g].base = apiBase /\ apiBase # NoBase
      /\ open /\ chat = None /\ checks[g].verdict = ""
  <2>1. /\ compatibility = g /\ checks[g].base = apiBase /\ apiBase # NoBase
        /\ open /\ chat = None /\ checks[g].verdict = ""
    BY CurrentOwns
  <2> QED BY <2>1 DEF SetState, Release
<1>2. /\ \A h \in 0 .. MaxGeneration : frame # <<"check", h>>
      /\ \A s \in 1 .. MaxSends : frame # <<"send", s>>
  BY NoFrame
<1>3. checks[g] \in Check /\ CheckSound(g, checks[g], generation, compatibility, frame)
  BY <1>0 DEF CheckInv, ChecksSound
<1>4. g \in Int /\ ~ (g > generation) /\ g <= generation /\ since \in 0 .. g
      /\ generation <= generation'
  <2>1. generation' = generation /\ generation = g OBVIOUS
  <2>2. since \in 0 .. generation BY <1>0 DEF PageInv
  <2>3. g \in 0 .. MaxGeneration OBVIOUS
  <2> QED BY ONLY <2>1, <2>2, <2>3, Bounds
<1> DEFINE new == [Over(checks[g]) EXCEPT !.verdict = "available"]
<1>5. checks' = [checks EXCEPT ![g] = new] OBVIOUS
<1>6. /\ new \in Check /\ new.at = "over" /\ new.got = "" /\ new.verdict = "available"
      /\ new.base = apiBase
  BY <1>1, <1>3 DEF Over, Check, CheckGot
<1> HIDE DEF new
<1>7. ~ Active(new) BY <1>6 DEF Active
<1>8. CheckSound(g, new, generation, compatibility', frame')
  <2>1. frame' # <<"check", g>> BY <1>2
  <2> QED BY <1>4, <1>6, <1>7, <2>1 DEF CheckSound
<1>9. /\ CheckInv' /\ VerdictsKept /\ checks'[g] = new
       /\ \A h \in 0 .. MaxGeneration : h # g => checks'[h] = checks[h]
  <2>1. checks[g].verdict # "available" BY <1>1
  <2>2. \A h \in 0 .. MaxGeneration : h # g =>
           /\ compatibility = h => compatibility' = h
           /\ (frame' = <<"check", h>>) <=> (frame = <<"check", h>>)
    BY <1>1
  <2> QED BY <1>5, <1>6, <1>8, <2>1, <2>2, OneCheck
<1>10. SendInv' /\ Carried /\ TextInv' /\ SessionInv' /\ TurnInv' /\ PostedInv'
  BY <1>2, SendsRest
<1>11. PageInv' BY <1>0, <1>1 DEF PageInv
<1>12. OwnCheckInv' /\ OwnSendInv' BY <1>1 DEF OwnCheckInv, OwnSendInv
<1>13. StateInv'
  <2>1. state' = "ready" /\ frame'[1] = "none" BY <1>1
  <2>2. open' = open BY <1>1
  <2> QED BY ONLY <1>1, <2>1, <2>2 DEF StateInv
<1>14. BaseInv'
  <2>1. Answered(checks', apiBase, since, g)
    <3>1. g \in since .. g BY ONLY <1>4, Bounds
    <3> QED BY <1>6, <1>9, <3>1 DEF Answered
  <2> QED BY <1>1, <2>1 DEF BaseInv
<1>15. SentInv' BY <1>0, <1>4, <1>9, <1>10, <1>11, CarriedSent
<1> QED BY <1>9, <1>10, <1>11, <1>12, <1>13, <1>14, <1>15 DEF WidgetInv

LEMMA CheckReadKeeps ==
  ASSUME WidgetInv, NEW g \in 0 .. MaxGeneration, CheckRead(g)
  PROVE  WidgetInv'
<1>1. /\ frame[1] = "none" /\ checks[g].at = "body" /\ checks[g].got # ""
      /\ UNCHANGED <<settings, open, generation, history, session, chat, sends>>
  BY DEF CheckRead
<1>2. Active(checks[g]) BY <1>1 DEF Active
<1>3. CASE ~ IsCurrent(g, checks[g].base)
  <2>1. CheckQuits(g) BY <1>3 DEF CheckRead
  <2> QED BY <1>1, <1>2, <1>3, <2>1, CheckQuitsKeeps
<1>4. CASE IsCurrent(g, checks[g].base) /\ checks[g].got = "available"
  <2>1. /\ compatibleBase' = checks[g].base /\ SetState("ready")
        /\ checks' = [checks EXCEPT ![g] = [Over(@) EXCEPT !.verdict = "available"]]
        /\ Release(g) /\ UNCHANGED <<open, frame>>
    BY <1>4 DEF CheckRead
  <2>2. generation = g BY <1>4 DEF IsCurrent
  <2> QED BY <1>1, <1>2, <2>1, <2>2, CheckAccepts DEF settings
<1>5. CASE IsCurrent(g, checks[g].base) /\ checks[g].got # "available"
  <2>1. CompatibilityFailure(g) BY <1>5 DEF CheckRead
  <2>2. generation = g BY <1>5 DEF IsCurrent
  <2> QED BY <1>1, <1>2, <2>1, <2>2, CheckFails
<1> QED BY <1>3, <1>4, <1>5

LEMMA CheckToldKeeps ==
  ASSUME WidgetInv, NEW g \in 0 .. MaxGeneration, CheckTold(g)
  PROVE  WidgetInv'
<1>1. frame = <<"check", g>> BY DEF CheckTold
<1>2. CheckLeaves(g) BY DEF CheckTold, Return, settings, CheckLeaves
<1>3. CheckSound(g, checks[g], generation, compatibility, frame)
  BY DEF WidgetInv, CheckInv, ChecksSound
<1>4. checks[g].got = "told" /\ Active(checks[g]) BY <1>1, <1>3 DEF CheckSound
<1>5. compatibility = g => state = "terminal" \/ stranded
  <2>1. g # None BY Bounds DEF None
  <2> QED BY <1>1, <2>1 DEF WidgetInv, OwnCheckInv
<1> QED BY <1>2, <1>4, <1>5, CheckEnds

-------------------------------------------------------------------------------
(* send and streamAttempt.                                                 *)

\* A send that goes on is for what it was for; what it has kept it keeps.
Furthers(new, old) ==
  /\ new.base = old.base /\ new.gen = old.gen /\ new.session = old.session
  /\ new.posted = old.posted /\ new.since = old.since
  /\ old.at # "unused" /\ (Active(new) => Active(old))
  /\ Kept(old) => Kept(new) /\ new.text = old.text /\ new.result = old.result
  /\ \A k \in 1 .. Len(new.text) : new.text[k] = new.attempt

\* A step of one send.
OneSend(s, new) ==
  /\ new \in Sent
  /\ sends' = [sends EXCEPT ![s] = new]
  /\ Furthers(new, sends[s])
  /\ SendSound(s, new, generation, chat', frame')
  /\ \A h \in 1 .. MaxSends : h # s =>
       /\ chat = h => chat' = h
       /\ (frame' = <<"send", h>>) <=> (frame = <<"send", h>>)
  /\ UNCHANGED <<generation, session, checks>>

LEMMA OneSendKeeps ==
  ASSUME WidgetInv, NEW s \in 1 .. MaxSends, NEW new, OneSend(s, new)
  PROVE  /\ SendInv' /\ SentInv' /\ TextInv' /\ SessionInv' /\ PostedInv'
         /\ sends'[s] = new
         /\ \A h \in 1 .. MaxSends : h # s => sends'[h] = sends[h]
<1>0. SendInv /\ SentInv /\ TextInv /\ SessionInv /\ PostedInv BY DEF WidgetInv
<1>1. sends \in [1 .. MaxSends -> Sent] BY <1>0 DEF SendInv, SendsSound
<1>2. /\ sends' = [sends EXCEPT ![s] = new] /\ new \in Sent
      /\ Furthers(new, sends[s])
      /\ SendSound(s, new, generation, chat', frame')
      /\ generation' = generation /\ session' = session /\ checks' = checks
  BY DEF OneSend
<1>3. \A h \in 1 .. MaxSends : h # s =>
        /\ chat = h => chat' = h
        /\ (frame' = <<"send", h>>) <=> (frame = <<"send", h>>)
  BY DEF OneSend
<1>4. /\ sends' \in [1 .. MaxSends -> Sent] /\ sends'[s] = new
      /\ \A h \in 1 .. MaxSends : h # s => sends'[h] = sends[h]
  BY <1>1, <1>2
<1>5. ASSUME NEW h \in 1 .. MaxSends
      PROVE  SendSound(h, sends'[h], generation, chat', frame')
  <2>1. CASE h = s BY <1>2, <1>4, <2>1
  <2>2. CASE h # s
    <3>1. SendSound(h, sends[h], generation, chat, frame) BY <1>0 DEF SendInv, SendsSound
    <3>2. /\ chat = h => chat' = h
          /\ (frame' = <<"send", h>>) <=> (frame = <<"send", h>>)
      BY <1>3, <2>2
    <3>3. SendSound(h, sends[h], generation, chat', frame') BY <3>1, <3>2 DEF SendSound
    <3> QED BY <1>4, <2>2, <3>3
  <2> QED BY <2>1, <2>2
<1>6. SendInv' BY <1>2, <1>4, <1>5 DEF SendInv, SendsSound
<1>7. SentInv'
  <2> SUFFICES ASSUME NEW h \in 1 .. MaxSends, sends'[h].at # "unused"
               PROVE  /\ sends'[h].since \in 0 .. generation /\ sends'[h].gen \in 0 .. generation
                      /\ Answered(checks, sends'[h].base, sends'[h].since, sends'[h].gen)
    BY <1>2 DEF SentInv
  <2>1. /\ sends[h].at # "unused" /\ sends'[h].since = sends[h].since
        /\ sends'[h].gen = sends[h].gen /\ sends'[h].base = sends[h].base
    <3>1. CASE h = s BY <1>2, <1>4, <3>1 DEF Furthers
    <3>2. CASE h # s BY <1>4, <3>2
    <3> QED BY <3>1, <3>2
  <2> QED BY <1>0, <2>1 DEF SentInv
<1>8. TextInv'
  <2> SUFFICES ASSUME NEW h \in 1 .. MaxSends
               PROVE  \A k \in 1 .. Len(sends'[h].text) : sends'[h].text[k] = sends'[h].attempt
    BY DEF TextInv
  <2>1. CASE h = s BY <1>2, <1>4, <2>1 DEF Furthers
  <2>2. CASE h # s BY <1>0, <1>4, <2>2 DEF TextInv
  <2> QED BY <2>1, <2>2
<1>9. SessionInv'
  <2> SUFFICES ASSUME NEW h \in 1 .. MaxSends, Active(sends'[h]), sends'[h].gen = generation
               PROVE  sends'[h].session = session
    BY <1>2 DEF SessionInv
  <2>1. CASE h = s BY <1>0, <1>2, <1>4, <2>1 DEF Furthers, SessionInv
  <2>2. CASE h # s BY <1>0, <1>4, <2>2 DEF SessionInv
  <2> QED BY <2>1, <2>2
<1>10. ASSUME NEW o \in 1 .. MaxSends
       PROVE  /\ sends'[o].session = sends[o].session
              /\ sends'[o].posted = sends[o].posted
              /\ Kept(sends[o]) => Kept(sends'[o])
  <2>1. CASE o = s BY <1>2, <1>4, <2>1 DEF Furthers
  <2>2. CASE o # s BY <1>4, <2>2
  <2> QED BY <2>1, <2>2
<1>11. PostedInv'
  <2> SUFFICES ASSUME NEW h \in 1 .. MaxSends
               PROVE  LET posted == sends'[h].posted
                      IN  /\ \A i \in DOMAIN posted :
                               /\ Kept(sends'[posted[i].of])
                               /\ sends'[posted[i].of].session = sends'[h].session
                          /\ Len(posted) <= HistoryLimit /\ Aggregate(posted) <= AggregateMax
    BY DEF PostedInv
  <2> DEFINE posted == sends[h].posted
  <2>1. sends'[h].posted = posted /\ sends'[h].session = sends[h].session BY <1>10
  <2>2. posted \in Seq(Turn) BY <1>0, PostedTyped
  <2>3. ASSUME NEW i \in DOMAIN posted
        PROVE  \E o \in 1 .. MaxSends :
                 /\ posted[i].of = o /\ Kept(sends'[o])
                 /\ sends'[o].session = sends[h].session
    <3>1. PICK o \in 1 .. MaxSends : o = posted[i].of BY <2>2, TurnsNamed
    <3>2. Kept(sends[o]) /\ sends[o].session = sends[h].session BY <1>0, <3>1 DEF PostedInv
    <3> QED BY <1>10, <3>1, <3>2
  <2>4. Len(posted) <= HistoryLimit /\ Aggregate(posted) <= AggregateMax BY <1>0 DEF PostedInv
  <2> HIDE DEF posted
  <2>5. \A i \in DOMAIN posted :
          Kept(sends'[posted[i].of]) /\ sends'[posted[i].of].session = sends[h].session
    BY <2>3
  <2> QED BY <2>1, <2>4, <2>5
<1> QED BY <1>4, <1>6, <1>7, <1>8, <1>9, <1>11

\* The history after a step of one send: turns it had, and turns of that send.
LEMMA OneSendTurns ==
  ASSUME WidgetInv, NEW s \in 1 .. MaxSends, NEW new, OneSend(s, new), history' \in Seq(Turn),
         \A i \in DOMAIN history' :
           \/ \E j \in DOMAIN history : history'[i] = history[j]
           \/ /\ history'[i].of = s /\ Kept(new) /\ new.session = session /\ new.result = "stop"
              /\ history'[i].role = "assistant" => history'[i].text = new.text
  PROVE  TurnInv'
<1>1. TurnInv BY DEF WidgetInv
<1>2. /\ sends'[s] = new
      /\ \A h \in 1 .. MaxSends : h # s => sends'[h] = sends[h]
  BY OneSendKeeps
<1>3. session' = session /\ Furthers(new, sends[s]) BY DEF OneSend
<1>4. ASSUME NEW i \in DOMAIN history'
      PROVE  LET send == sends'[history'[i].of]
             IN  /\ Kept(send) /\ send.session = session /\ send.result = "stop"
                 /\ history'[i].role = "assistant" => history'[i].text = send.text
  <2>1. CASE \E j \in DOMAIN history : history'[i] = history[j]
    <3>1. PICK j \in DOMAIN history : history'[i] = history[j] BY <2>1
    <3>2. PICK turn : turn = history[j] OBVIOUS
    <3>3. history \in Seq(Turn) BY <1>1 DEF TurnInv
    <3>4. PICK o \in 1 .. MaxSends : o = turn.of BY <3>2, <3>3, TurnsNamed
    <3>5. /\ Kept(sends[o]) /\ sends[o].session = session /\ sends[o].result = "stop"
          /\ turn.role = "assistant" => turn.text = sends[o].text
      BY <1>1, <3>2, <3>4 DEF TurnInv
    <3>6. /\ Kept(sends'[o]) /\ sends'[o].session = session /\ sends'[o].result = "stop"
          /\ sends'[o].text = sends[o].text
      <4>1. CASE o = s BY <1>2, <1>3, <3>5, <4>1 DEF Furthers
      <4>2. CASE o # s BY <1>2, <3>5, <4>2
      <4> QED BY <4>1, <4>2
    <3>7. history'[i] = turn BY <3>1, <3>2
    <3> QED BY <3>4, <3>5, <3>6, <3>7
  <2>2. CASE /\ history'[i].of = s /\ Kept(new) /\ new.session = session /\ new.result = "stop"
             /\ history'[i].role = "assistant" => history'[i].text = new.text
    BY <1>2, <2>2
  <2> QED BY <2>1, <2>2
<1> QED BY <1>3, <1>4 DEF TurnInv

LEMMA OneSendSameTurns ==
  ASSUME WidgetInv, NEW s \in 1 .. MaxSends, NEW new, OneSend(s, new), UNCHANGED history
  PROVE  TurnInv'
<1>1. history' = history /\ history \in Seq(Turn) BY DEF WidgetInv, TurnInv
<1>2. \A i \in DOMAIN history' : \E j \in DOMAIN history : history'[i] = history[j] BY <1>1
<1> QED BY <1>1, <1>2, OneSendTurns

\* Of the sends, only the owner's is active beside an owner.
LEMMA OneSendOwned ==
  ASSUME WidgetInv, NEW s \in 1 .. MaxSends, NEW new, OneSend(s, new)
  PROVE  \A h \in 1 .. MaxSends : Active(sends'[h]) => Active(sends[h])
<1>1. /\ sends'[s] = new
      /\ \A h \in 1 .. MaxSends : h # s => sends'[h] = sends[h]
  BY OneSendKeeps
<1>2. Active(new) => Active(sends[s]) BY DEF OneSend, Furthers
<1>3. ASSUME NEW h \in 1 .. MaxSends PROVE Active(sends'[h]) => Active(sends[h])
  <2>1. CASE h = s BY <1>1, <1>2, <2>1
  <2>2. CASE h # s BY <1>1, <2>2
  <2> QED BY <2>1, <2>2
<1> QED BY <1>3

\* A step of a send that goes on, and of nothing else.
LEMMA SendGoesOn ==
  ASSUME WidgetInv, NEW s \in 1 .. MaxSends, NEW new, OneSend(s, new), Active(new),
         UNCHANGED <<connected, apiBase, since, open, state, stranded, compatibleBase,
                     compatibility, chat, history, frame>>
  PROVE  WidgetInv'
<1>0. /\ PageInv /\ OwnCheckInv /\ OwnSendInv /\ StateInv /\ BaseInv BY DEF WidgetInv
<1>1. /\ SendInv' /\ SentInv' /\ TextInv' /\ SessionInv' /\ PostedInv'
      /\ sends'[s] = new
      /\ \A h \in 1 .. MaxSends : h # s => sends'[h] = sends[h]
  BY OneSendKeeps
<1>2. TurnInv' BY OneSendSameTurns
<1>3. /\ UNCHANGED <<generation, session, checks>> /\ Furthers(new, sends[s])
  BY DEF OneSend
<1>4. CheckInv' BY <1>3, ChecksRest
<1>5. PageInv' BY <1>0, <1>3 DEF PageInv
<1>6. OwnCheckInv' BY <1>0, <1>3 DEF OwnCheckInv
<1>7. OwnSendInv'
  <2> SUFFICES ASSUME chat # None PROVE OwnSendInv' BY DEF OwnSendInv
  <2>1. /\ Active(sends[chat]) /\ sends[chat].gen = generation
        /\ sends[chat].base = apiBase /\ open
        /\ \A h \in 1 .. MaxSends : Active(sends[h]) => h = chat
        /\ IF frame = <<"send", chat>> THEN state = "terminal" ELSE state = "sending"
    BY <1>0 DEF OwnSendInv
  <2>2. chat \in 1 .. MaxSends BY <1>0 DEF PageInv
  <2>3. /\ Active(sends'[chat]) /\ sends'[chat].gen = generation
        /\ sends'[chat].base = apiBase
    <3>1. CASE chat = s BY <1>1, <1>3, <2>1, <3>1 DEF Furthers
    <3>2. CASE chat # s BY <1>1, <2>1, <2>2, <3>2
    <3> QED BY <3>1, <3>2
  <2>4. \A h \in 1 .. MaxSends : Active(sends'[h]) => h = chat BY <2>1, OneSendOwned
  <2> QED BY <1>3, <2>1, <2>3, <2>4 DEF OwnSendInv
<1>8. StateInv'
  <2>1. state = "sending" => \E h \in 1 .. MaxSends : Active(sends'[h]) BY <1>1
  <2> QED BY <1>0, <2>1 DEF StateInv
<1>9. BaseInv' BY <1>0, <1>3 DEF BaseInv
<1> QED BY <1>1, <1>2, <1>4, <1>5, <1>6, <1>7, <1>8, <1>9 DEF WidgetInv

\* What the invariant says of a send that is active.
LEMMA ActiveSend ==
  ASSUME WidgetInv, NEW s \in 1 .. MaxSends, Active(sends[s])
  PROVE  /\ sends[s] \in Sent /\ SendSound(s, sends[s], generation, chat, frame)
         /\ sends[s].gen <= generation /\ sends[s].base # NoBase
         /\ sends[s].gen = generation => chat = s
         /\ chat # s => sends[s].got # "" /\ chat = None
         /\ \A k \in 1 .. Len(sends[s].text) : sends[s].text[k] = sends[s].attempt
<1>1. sends[s] \in Sent /\ SendSound(s, sends[s], generation, chat, frame)
  BY DEF WidgetInv, SendInv, SendsSound
<1>2. chat # None => s = chat BY DEF WidgetInv, OwnSendInv
<1>3. \A k \in 1 .. Len(sends[s].text) : sends[s].text[k] = sends[s].attempt
  BY DEF WidgetInv, TextInv
<1> QED BY <1>1, <1>2, <1>3 DEF SendSound

LEMMA BatchesAre ==
  ASSUME NEW batch \in Batches
  PROVE  batch \in Seq(Events) /\ batch # <<>>
<1>1. PICK n \in 0 .. BatchMax : batch \in [1 .. n -> Events]
  BY DEF Batches, BoundedSeq, SeqOf
<1>2. batch \in Seq(Events) BY <1>1, Bounds
<1> QED BY <1>2 DEF Batches

LEMMA SendWakesKeeps ==
  ASSUME WidgetInv, NEW s \in 1 .. MaxSends, SendWakes(s)
  PROVE  WidgetInv'
<1>1. /\ frame[1] = "none" /\ sends[s].got = ""
      /\ UNCHANGED <<connected, apiBase, since, open, state, stranded, generation,
                     compatibleBase, compatibility, chat, history, session, checks, frame>>
  <2>1. sends \in [1 .. MaxSends -> Sent] BY DEF WidgetInv, SendInv, SendsSound
  <2>2. sends[s].got = "" BY <2>1 DEF SendWakes, Drained
  <2> QED BY <2>2 DEF SendWakes, Drained, settings, panel
<1>2. PICK got, batch :
        /\ \/ sends[s].at = "fetch" /\ got \in {"response", "failed", "timeout"}
           \/ sends[s].at = "read" /\ got \in {"failed", "eof", "timeout", "batch"}
        /\ batch \in Seq(Events) /\ (got = "batch" => batch # <<>>)
        /\ sends' = [sends EXCEPT ![s] = [@ EXCEPT !.got = got, !.batch = batch]]
  <2>0. sends \in [1 .. MaxSends -> Sent] BY DEF WidgetInv, SendInv, SendsSound
  <2>1. sends[s] \in Sent BY <2>0
  <2>2. sends[s].batch \in Seq(Events) BY <2>1 DEF Sent
  <2>3. ASSUME NEW got
        PROVE  [sends EXCEPT ![s].got = got]
                 = [sends EXCEPT ![s] = [@ EXCEPT !.got = got, !.batch = sends[s].batch]]
    BY <2>0, <2>1 DEF Sent
  <2>4. CASE /\ sends[s].at = "fetch"
             /\ \E got \in {"response", "failed", "timeout"} :
                  sends' = [sends EXCEPT ![s].got = got]
    <3>1. PICK got \in {"response", "failed", "timeout"} : sends' = [sends EXCEPT ![s].got = got]
      BY <2>4
    <3>2. sends' = [sends EXCEPT ![s] = [@ EXCEPT !.got = got, !.batch = sends[s].batch]]
      BY <2>3, <3>1
    <3>3. sends[s].at = "fetch" /\ got # "batch" BY <2>4
    <3> QED BY <2>2, <3>2, <3>3
  <2>5. CASE /\ sends[s].at = "read"
             /\ \E got \in {"failed", "eof", "timeout"} : sends' = [sends EXCEPT ![s].got = got]
    <3>1. PICK got \in {"failed", "eof", "timeout"} : sends' = [sends EXCEPT ![s].got = got]
      BY <2>5
    <3>2. sends' = [sends EXCEPT ![s] = [@ EXCEPT !.got = got, !.batch = sends[s].batch]]
      BY <2>3, <3>1
    <3>3. sends[s].at = "read" /\ got # "batch" BY <2>5
    <3> QED BY <2>2, <3>2, <3>3
  <2>6. CASE /\ sends[s].at = "read"
             /\ \E batch \in Batches :
                  sends' = [sends EXCEPT ![s].got = "batch", ![s].batch = batch]
    <3>1. PICK batch \in Batches :
            sends' = [sends EXCEPT ![s].got = "batch", ![s].batch = batch]
      BY <2>6
    <3>2. sends' = [sends EXCEPT ![s] = [@ EXCEPT !.got = "batch", !.batch = batch]]
      BY <2>0, <3>1
    <3>3. batch \in Seq(Events) /\ batch # <<>> BY BatchesAre
    <3>4. sends[s].at = "read" BY <2>6
    <3> QED BY <3>2, <3>3, <3>4
  <2> QED BY <2>4, <2>5, <2>6 DEF SendWakes
<1>3. Active(sends[s]) BY <1>2 DEF Active
<1>4. /\ sends[s] \in Sent /\ SendSound(s, sends[s], generation, chat, frame)
      /\ sends[s].gen <= generation /\ sends[s].base # NoBase
      /\ sends[s].gen = generation => chat = s
      /\ \A k \in 1 .. Len(sends[s].text) : sends[s].text[k] = sends[s].attempt
  BY <1>3, ActiveSend
<1> DEFINE old == sends[s]
           new == [old EXCEPT !.got = got, !.batch = batch]
<1>5. sends' = [sends EXCEPT ![s] = new] BY <1>2
<1>6. /\ new \in Sent /\ new.at = old.at /\ new.got = got /\ new.batch = batch
      /\ new.base = old.base /\ new.gen = old.gen /\ new.session = old.session
      /\ new.posted = old.posted /\ new.since = old.since /\ new.text = old.text
      /\ new.attempt = old.attempt
  <2>1. got \in SendGot BY <1>2 DEF SendGot
  <2>2. old \in Sent /\ batch \in Seq(Events) BY <1>2, <1>4
  <2> HIDE DEF old
  <2> QED BY <2>1, <2>2 DEF Sent
<1> HIDE DEF new
<1>7. Active(new) BY <1>2, <1>6 DEF Active
<1>8. Furthers(new, sends[s])
  <2>1. ~ Kept(sends[s]) /\ sends[s].at # "unused" BY <1>1, <1>2 DEF Kept
  <2> QED BY <1>3, <1>4, <1>6, <2>1 DEF Furthers
<1>9. SendSound(s, new, generation, chat', frame')
  <2>1. frame' # <<"send", s>> /\ chat' = chat BY <1>1, NoFrame
  <2>2. got # "" /\ got # "told" BY <1>2
  <2>3. /\ new.at = "fetch" => new.got \in {"", "response", "failed", "timeout", "aborted"}
        /\ new.at = "read" => new.got \in {"", "failed", "eof", "timeout", "batch", "aborted"}
        /\ new.at # "result"
        /\ new.got = "batch" => new.batch # <<>>
    BY <1>2, <1>6
  <2> QED BY <1>4, <1>6, <1>7, <2>1, <2>2, <2>3 DEF SendSound
<1>10. OneSend(s, new) BY <1>1, <1>5, <1>6, <1>8, <1>9 DEF OneSend
<1> QED BY <1>1, <1>7, <1>10, SendGoesOn

\* What an attempt does not change of its send.
SameSend(new, old) ==
  /\ new.base = old.base /\ new.gen = old.gen /\ new.session = old.session
  /\ new.posted = old.posted /\ new.since = old.since /\ new.attempt = old.attempt
OneAttempts(send) == \A k \in 1 .. Len(send.text) : send.text[k] = send.attempt

LEMMA ResultingIs ==
  ASSUME NEW send \in Sent, NEW result \in Result
  PROVE  /\ Resulting(send, result) \in Sent /\ SameSend(Resulting(send, result), send)
         /\ Resulting(send, result).at = "result" /\ Resulting(send, result).got = "returned"
         /\ Resulting(send, result).text = send.text
<1>1. <<>> \in Seq(Events) OBVIOUS
<1>2. "result" \in {"unused", "fetch", "read", "result", "over"} /\ "returned" \in SendGot
  BY DEF SendGot
<1> QED BY <1>1, <1>2 DEF Resulting, Sent, SameSend

LEMMA ChunksAre ==
  ASSUME NEW batch \in Seq(Events)
  PROVE  Chunks(batch) \in Nat
<1>1. Len(batch) \in Nat /\ DOMAIN batch = 1 .. Len(batch) OBVIOUS
<1>2. IsFiniteSet(1 .. Len(batch)) BY <1>1, FS_Interval
<1>3. IsFiniteSet({i \in DOMAIN batch : batch[i] = "chunk"}) BY <1>1, <1>2, FS_Subset
<1> QED BY <1>3, FS_CardinalityType DEF Chunks

LEMMA Joined ==
  ASSUME NEW a \in Seq(Nat), NEW b \in Seq(Nat)
  PROVE  /\ a \o b \in Seq(Nat) /\ Len(a \o b) = Len(a) + Len(b)
         /\ \A k \in 1 .. Len(a) : (a \o b)[k] = a[k]
         /\ \A k \in 1 .. Len(b) : (a \o b)[Len(a) + k] = b[k]
OBVIOUS

\* What is heard in one read is text of the attempt.
LEMMA AppliedIs ==
  ASSUME NEW send \in Sent, send.at = "read", send.batch # <<>>, OneAttempts(send)
  PROVE  /\ Applied(send) \in Sent /\ SameSend(Applied(send), send) /\ OneAttempts(Applied(send))
         /\ \/ Applied(send).at = "result" /\ Applied(send).got = "returned"
            \/ Applied(send).at = "read" /\ Applied(send).got = ""
<1> DEFINE n == Chunks(send.batch)
           more == [i \in 1 .. n |-> send.attempt]
           text == send.text \o more
           saw == send.saw \union (ToSet(send.batch) \ {"status"})
           heard == [send EXCEPT !.text = text, !.saw = saw, !.got = "", !.batch = <<>>]
<1>1. /\ send.batch \in Seq(Events) /\ send.text \in Seq(Nat) /\ send.saw \in SUBSET Events
      /\ send.attempt \in 0 .. 2
  BY DEF Sent
<1>2. n \in Nat BY <1>1, ChunksAre
<1> HIDE DEF n
<1>3. more \in Seq(Nat) /\ Len(more) = n /\ \A k \in 1 .. n : more[k] = send.attempt
  BY <1>1, <1>2
<1> HIDE DEF more
<1>4. text \in Seq(Nat) /\ Len(text) = Len(send.text) + n BY <1>1, <1>3, Joined
<1>5. \A k \in 1 .. Len(text) : text[k] = send.attempt
  <2> SUFFICES ASSUME NEW k \in 1 .. Len(text) PROVE text[k] = send.attempt OBVIOUS
  <2>1. Len(send.text) \in Nat BY <1>1
  <2>2. CASE k <= Len(send.text)
    <3>1. k \in 1 .. Len(send.text) BY <1>2, <1>4, <2>1, <2>2
    <3>2. text[k] = send.text[k] BY <1>1, <1>3, <3>1, Joined DEF text
    <3> QED BY <3>1, <3>2 DEF OneAttempts
  <2>3. CASE ~ (k <= Len(send.text))
    <3>1. k - Len(send.text) \in 1 .. n BY <1>2, <1>4, <2>1, <2>3
    <3>2. text[k] = more[k - Len(send.text)] BY <1>1, <1>2, <1>3, <1>4, <2>1, <2>3, <3>1
    <3> QED BY <1>3, <3>1, <3>2
  <2> QED BY <2>2, <2>3
<1> HIDE DEF text
<1>6. saw \in SUBSET Events
  <2>1. \A i \in DOMAIN send.batch : send.batch[i] \in Events BY <1>1
  <2> QED BY <1>1, <2>1 DEF ToSet
<1> HIDE DEF saw
<1>7. /\ heard \in Sent /\ heard.text = text /\ heard.at = "read" /\ heard.got = ""
      /\ SameSend(heard, send)
  <2>1. <<>> \in Seq(Events) /\ "" \in SendGot BY DEF SendGot
  <2> QED BY <1>4, <1>6, <2>1 DEF Sent, SameSend
<1> DEFINE last == Last(send.batch)
<1>8. Applied(send) = IF last \in Terminal THEN Resulting(heard, last) ELSE heard
  BY DEF Applied, heard, n, text, more, saw
<1> HIDE DEF heard, last
<1>9. OneAttempts(heard) BY <1>5, <1>7 DEF OneAttempts, SameSend
<1>10. CASE last \in Terminal
  <2>1. last \in Result BY <1>10 DEF Result
  <2>2. Applied(send) = Resulting(heard, last) BY <1>8, <1>10
  <2> DEFINE r == Resulting(heard, last)
  <2>3. r \in Sent /\ SameSend(r, heard) /\ r.at = "result" /\ r.got = "returned"
        /\ r.text = heard.text
    BY <1>7, <2>1, ResultingIs
  <2> HIDE DEF r
  <2>4. OneAttempts(r) /\ SameSend(r, send) BY <1>7, <1>9, <2>3 DEF OneAttempts, SameSend
  <2> QED BY <2>2, <2>3, <2>4 DEF r
<1>11. CASE last \notin Terminal
  <2>1. Applied(send) = heard BY <1>8, <1>11
  <2> QED BY <1>7, <1>9, <2>1
<1> QED BY <1>10, <1>11

\* What streamAttempt makes of its send when it wakes.
Ended(new) == new.at = "result" /\ new.got = "returned"
LEMMA AttemptedIs ==
  ASSUME NEW send \in Sent, OneAttempts(send), send.at \in {"fetch", "read"},
         send.got \in {"timeout", "aborted", "failed", "response", "eof", "batch"},
         send.got = "batch" => send.at = "read" /\ send.batch # <<>>
  PROVE  /\ Attempted(send) \in Sent /\ SameSend(Attempted(send), send)
         /\ OneAttempts(Attempted(send))
         /\ \/ Ended(Attempted(send))
            \/ /\ Attempted(send).at = "read" /\ Attempted(send).got = ""
               /\ IsCurrent(send.gen, send.base)
<1> DEFINE live == IsCurrent(send.gen, send.base) /\ ~send.aborted
           new == Attempted(send)
           Good(r) == r \in Sent /\ SameSend(r, send) /\ OneAttempts(r) /\ Ended(r)
<1>0. {"protocol", "aborted", "network"} \subseteq Result BY DEF Result
<1>1. ASSUME NEW result \in Result PROVE Good(Resulting(send, result))
  <2> DEFINE r == Resulting(send, result)
  <2>1. r \in Sent /\ SameSend(r, send) /\ r.at = "result" /\ r.got = "returned"
        /\ r.text = send.text
    BY ResultingIs
  <2> HIDE DEF r
  <2>2. OneAttempts(r) BY <2>1 DEF OneAttempts, SameSend
  <2> QED BY <2>1, <2>2 DEF r, Ended
<1>2. CASE send.got = "timeout"
  <2> DEFINE r == Resulting(send, "protocol")
  <2>1. new = [r EXCEPT !.aborted = TRUE] BY <1>2 DEF Attempted
  <2>2. Good(r) BY <1>0, <1>1
  <2> HIDE DEF r
  <2>3. Good([r EXCEPT !.aborted = TRUE]) BY <2>2 DEF Sent, SameSend, OneAttempts, Ended
  <2> QED BY <2>1, <2>3
<1>3. CASE send.got = "aborted"
  <2>1. new = Resulting(send, "aborted") BY <1>3 DEF Attempted
  <2> QED BY <1>0, <1>1, <2>1
<1>4. CASE send.got = "failed"
  <2>1. new = Resulting(send, IF send.aborted THEN "aborted" ELSE "network")
    BY <1>4 DEF Attempted
  <2>2. (IF send.aborted THEN "aborted" ELSE "network") \in Result BY <1>0
  <2> QED BY <1>1, <2>1, <2>2
<1>5. CASE send.got \in {"response", "eof", "batch"} /\ ~ live
  <2>1. new = Resulting(send, "aborted")
    <3>1. CASE send.got = "response" BY <1>5, <3>1 DEF Attempted
    <3>2. CASE send.got = "eof" BY <1>5, <3>2 DEF Attempted
    <3>3. CASE send.got = "batch" BY <1>5, <3>3 DEF Attempted
    <3> QED BY <1>5, <3>1, <3>2, <3>3
  <2> QED BY <1>0, <1>1, <2>1
<1>6. CASE send.got = "response" /\ live
  <2>1. new = [send EXCEPT !.at = "read", !.got = ""] BY <1>6 DEF Attempted
  <2>2. /\ [send EXCEPT !.at = "read", !.got = ""] \in Sent
        /\ SameSend([send EXCEPT !.at = "read", !.got = ""], send)
        /\ OneAttempts([send EXCEPT !.at = "read", !.got = ""])
    <3>1. "" \in SendGot BY DEF SendGot
    <3> QED BY <3>1 DEF Sent, SameSend, OneAttempts
  <2>3. /\ [send EXCEPT !.at = "read", !.got = ""].at = "read"
        /\ [send EXCEPT !.at = "read", !.got = ""].got = ""
    BY DEF Sent
  <2> QED BY <1>6, <2>1, <2>2, <2>3
<1>7. CASE send.got = "eof" /\ live
  <2>1. new = Resulting(send, "protocol") BY <1>7 DEF Attempted
  <2> QED BY <1>0, <1>1, <2>1
<1>8. CASE send.got = "batch" /\ live
  <2>1. new = IF ValidBatch(send.batch, send.saw) THEN Applied(send)
                                                  ELSE Resulting(send, "protocol")
    BY <1>8 DEF Attempted
  <2>2. CASE ~ ValidBatch(send.batch, send.saw)
    <3>1. new = Resulting(send, "protocol") BY <2>1, <2>2
    <3> QED BY <1>0, <1>1, <3>1
  <2>3. CASE ValidBatch(send.batch, send.saw)
    <3>1. new = Applied(send) BY <2>1, <2>3
    <3>2. /\ Applied(send) \in Sent /\ SameSend(Applied(send), send)
          /\ OneAttempts(Applied(send))
          /\ \/ Applied(send).at = "result" /\ Applied(send).got = "returned"
             \/ Applied(send).at = "read" /\ Applied(send).got = ""
      BY <1>8, AppliedIs
    <3> QED BY <1>8, <3>1, <3>2 DEF Ended
  <2> QED BY <2>2, <2>3
<1> QED BY <1>2, <1>3, <1>4, <1>5, <1>6, <1>7, <1>8

LEMMA StreamAttemptKeeps ==
  ASSUME WidgetInv, NEW s \in 1 .. MaxSends, StreamAttempt(s)
  PROVE  WidgetInv'
<1>1. /\ frame[1] = "none" /\ sends[s].at \in {"fetch", "read"} /\ sends[s].got # ""
      /\ sends' = [sends EXCEPT ![s] = Attempted(sends[s])]
      /\ UNCHANGED <<connected, apiBase, since, open, state, stranded, generation,
                     compatibleBase, compatibility, chat, history, session, checks, frame>>
  BY DEF StreamAttempt, settings, panel
<1>2. Active(sends[s]) BY <1>1 DEF Active
<1>3. /\ sends[s] \in Sent /\ SendSound(s, sends[s], generation, chat, frame)
      /\ sends[s].gen <= generation /\ sends[s].base # NoBase
      /\ sends[s].gen = generation => chat = s
      /\ OneAttempts(sends[s])
  BY <1>2, ActiveSend DEF OneAttempts
<1>4. frame # <<"send", s>> BY <1>1, NoFrame
<1> DEFINE old == sends[s]
           new == Attempted(old)
<1>5. /\ new \in Sent /\ SameSend(new, old) /\ OneAttempts(new)
      /\ \/ Ended(new)
         \/ new.at = "read" /\ new.got = "" /\ IsCurrent(old.gen, old.base)
  <2>1. /\ old.got \in {"timeout", "aborted", "failed", "response", "eof", "batch"}
        /\ old.got = "batch" => old.at = "read" /\ old.batch # <<>>
    BY <1>1, <1>3, <1>4 DEF SendSound
  <2>2. old \in Sent /\ OneAttempts(old) /\ old.at \in {"fetch", "read"} BY <1>1, <1>3
  <2> HIDE DEF old
  <2> QED BY <2>1, <2>2, AttemptedIs
<1>6. sends' = [sends EXCEPT ![s] = new] BY <1>1
<1> HIDE DEF new
<1>7. Active(new) BY <1>5 DEF Active, Ended
<1>8. Furthers(new, sends[s])
  <2>1. ~ Kept(sends[s]) /\ sends[s].at # "unused" BY <1>1, <1>3, <1>4 DEF Kept, SendSound
  <2> QED BY <1>2, <1>5, <2>1 DEF Furthers, SameSend, OneAttempts
<1>9. SendSound(s, new, generation, chat', frame')
  <2>1. frame' # <<"send", s>> /\ chat' = chat BY <1>1, <1>4
  <2>2. new.gen = old.gen /\ new.base = old.base BY <1>5 DEF SameSend
  <2>3. new.got \in {"returned", ""} /\ (new.got = "returned" => new.at = "result")
        /\ (new.got = "" => new.at = "read" /\ chat = s)
    BY <1>3, <1>5 DEF Ended, IsCurrent
  <2> QED BY <1>3, <1>7, <2>1, <2>2, <2>3 DEF SendSound
<1>10. OneSend(s, new) BY <1>1, <1>5, <1>6, <1>8, <1>9 DEF OneSend
<1> QED BY <1>1, <1>7, <1>10, SendGoesOn

LEMMA RetryKeeps ==
  ASSUME WidgetInv, NEW s \in 1 .. MaxSends, Retry(s)
  PROVE  WidgetInv'
<1>1. /\ frame[1] = "none" /\ sends[s].at = "result" /\ sends[s].got = "returned"
      /\ sends[s].gen = generation
      /\ UNCHANGED <<connected, apiBase, since, open, state, stranded, generation,
                     compatibleBase, compatibility, chat, history, session, checks, frame>>
  BY DEF Retry, settings, panel, IsCurrent
<1>2. Active(sends[s]) BY <1>1 DEF Active
<1>3. sends[s] \in Sent /\ sends[s].base # NoBase /\ chat = s BY <1>1, <1>2, ActiveSend
<1>4. frame # <<"send", s>> BY <1>1, NoFrame
<1> DEFINE old == sends[s]
           got == IF old.aborted THEN "aborted" ELSE ""
           new == [old EXCEPT !.at = "fetch", !.attempt = 2, !.text = <<>>, !.saw = {},
                              !.result = "", !.got = got]
<1>5. sends' = [sends EXCEPT ![s] = new]
  <2>1. sends \in [1 .. MaxSends -> Sent] BY DEF WidgetInv, SendInv, SendsSound
  <2> QED BY <1>3, <2>1 DEF Retry, Sent
<1>6. /\ new \in Sent /\ new.at = "fetch" /\ new.got \in {"", "aborted"}
      /\ new.base = old.base /\ new.gen = old.gen /\ new.session = old.session
      /\ new.posted = old.posted /\ new.since = old.since /\ new.text = <<>>
  <2>1. got \in SendGot /\ got \in {"", "aborted"} BY DEF SendGot
  <2> HIDE DEF got
  <2>2. <<>> \in Seq(Nat) /\ "" \in Result /\ 2 \in 0 .. 2 /\ {} \in SUBSET Events
    BY DEF Result
  <2>3. old \in Sent BY <1>3
  <2> HIDE DEF old
  <2> QED BY ONLY <2>1, <2>2, <2>3 DEF Sent
<1> HIDE DEF new
<1>7. Active(new) BY <1>6 DEF Active
<1>8. Furthers(new, sends[s])
  <2>1. ~ Kept(sends[s]) /\ sends[s].at # "unused" BY <1>1 DEF Kept
  <2>2. 1 .. 0 = {} /\ Len(<<>>) = 0 OBVIOUS
  <2>3. 1 .. Len(new.text) = {} BY ONLY <1>6, <2>2
  <2> QED BY <1>2, <1>6, <2>1, <2>3 DEF Furthers
<1>9. SendSound(s, new, generation, chat', frame')
  <2>1. frame' # <<"send", s>> /\ chat' = s BY <1>1, <1>3, <1>4
  <2>2. generation \in 0 .. MaxGeneration BY DEF WidgetInv, PageInv
  <2>3. generation <= generation BY <2>2, Bounds
  <2> QED BY <1>1, <1>3, <1>6, <1>7, <2>1, <2>3 DEF SendSound
<1>10. OneSend(s, new) BY <1>1, <1>5, <1>6, <1>8, <1>9 DEF OneSend
<1> QED BY <1>1, <1>7, <1>10, SendGoesOn

LEMMA FinishedIs ==
  ASSUME NEW send \in Sent
  PROVE  /\ Finished(send) \in Sent /\ Finished(send).at = "over" /\ Finished(send).got = ""
         /\ SameSend(Finished(send), send) /\ Finished(send).text = send.text
         /\ Finished(send).result = send.result
<1>1. "" \in SendGot BY DEF SendGot
<1> QED BY <1>1 DEF Finished, Sent, SameSend

\* The finally of a send.
SendLeaves(s) ==
  /\ SendQuits(s)
  /\ UNCHANGED <<connected, apiBase, since, open, generation, compatibleBase, compatibility,
                 history, session, checks>>
  /\ \/ frame[1] = "none" /\ frame' = frame
     \/ frame = <<"send", s>> /\ frame' = <<"none", None>>

LEMMA SendEnds ==
  ASSUME WidgetInv, NEW s \in 1 .. MaxSends, Active(sends[s]), SendLeaves(s)
  PROVE  WidgetInv'
<1>0. /\ PageInv /\ OwnCheckInv /\ OwnSendInv /\ StateInv /\ BaseInv BY DEF WidgetInv
<1>1. /\ frame'[1] = "none" /\ frame[1] \in {"none", "send"}
      /\ frame' \in {"none", "open", "clear", "check", "send"} \X Int
      /\ \A h \in 1 .. MaxSends :
           frame' # <<"send", h>> /\ (h # s => frame # <<"send", h>>)
      /\ \A g \in 0 .. MaxGeneration : frame' # <<"check", g>> /\ frame # <<"check", g>>
  BY <1>0 DEF None, PageInv, SendLeaves
<1>2. /\ sends' = [sends EXCEPT ![s] = Finished(sends[s])]
      /\ chat' = IF chat = s THEN None ELSE chat
      /\ state' = IF state = "sending" THEN "ready" ELSE state
      /\ stranded' = IF state = "sending" THEN FALSE ELSE stranded
      /\ UNCHANGED <<connected, apiBase, since, open, generation, compatibleBase,
                     compatibility, history, session, checks>>
  BY DEF SendLeaves, SendQuits, SetState
<1>3. /\ sends[s] \in Sent
      /\ chat # s => chat = None
      /\ OneAttempts(sends[s])
  BY ActiveSend DEF OneAttempts
<1>4. chat' = None BY ONLY <1>2, <1>3
<1> DEFINE new == Finished(sends[s])
<1>5. /\ new \in Sent /\ new.at = "over" /\ new.got = "" /\ SameSend(new, sends[s])
      /\ new.text = sends[s].text /\ new.result = sends[s].result
  BY ONLY <1>3, FinishedIs
<1>6. sends' = [sends EXCEPT ![s] = new] BY <1>2
<1> HIDE DEF new
<1>7. ~ Active(new) BY <1>5 DEF Active
<1>8. Furthers(new, sends[s])
  <2>1. Kept(new) /\ sends[s].at # "unused" BY <1>5 DEF Kept, Active
  <2> QED BY <1>3, <1>5, <1>7, <2>1 DEF Furthers, SameSend, OneAttempts
<1>9. SendSound(s, new, generation, chat', frame')
  BY <1>1, <1>5, <1>7 DEF SendSound
<1>10. OneSend(s, new)
  <2>1. \A h \in 1 .. MaxSends : h # s =>
          /\ chat = h => chat' = h
          /\ (frame' = <<"send", h>>) <=> (frame = <<"send", h>>)
    BY <1>1, <1>2
  <2> QED BY <1>2, <1>5, <1>6, <1>8, <1>9, <2>1 DEF OneSend
<1>11. SendInv' /\ SentInv' /\ TextInv' /\ SessionInv' /\ PostedInv' BY <1>10, OneSendKeeps
<1>12. TurnInv' BY <1>2, <1>10, OneSendSameTurns
<1>13. CheckInv' BY <1>1, <1>2, ChecksRest
<1>14. PageInv' BY <1>0, <1>1, <1>2, <1>4 DEF PageInv
<1>15. OwnSendInv' BY <1>4 DEF OwnSendInv
<1>16. OwnCheckInv'
  <2> SUFFICES ASSUME compatibility # None PROVE OwnCheckInv' BY <1>2 DEF OwnCheckInv
  <2>1. generation \in 0 .. MaxGeneration BY <1>0 DEF PageInv
  <2>2. frame # <<"check", generation>> /\ frame' # <<"check", generation>> BY <1>1, <2>1
  <2>3. state = "checking" BY <1>0, <2>2 DEF OwnCheckInv
  <2> QED BY <1>0, <1>2, <1>4, <2>2, <2>3 DEF OwnCheckInv
<1>17. StateInv'
  <2>1. state' # "sending" /\ (state' = "checking" => state = "checking") BY <1>2
  <2>2. state = "checking" => stranded' = stranded BY <1>2
  <2>3. open => state' # "closed" BY <1>0, <1>1, <1>2 DEF StateInv
  <2>4. ~ open => state' = "closed" BY <1>0, <1>2 DEF StateInv
  <2>5. frame[1] # "clear" /\ frame'[1] = "none" BY <1>1
  <2> QED BY <1>0, <1>2, <2>1, <2>2, <2>3, <2>4, <2>5 DEF StateInv
<1>18. BaseInv' BY <1>0, <1>2 DEF BaseInv
<1> QED BY <1>11, <1>12, <1>13, <1>14, <1>15, <1>16, <1>17, <1>18 DEF WidgetInv

LEMMA DiscardKeeps ==
  ASSUME WidgetInv, NEW s \in 1 .. MaxSends, Discard(s)
  PROVE  WidgetInv'
<1>1. SendLeaves(s) BY DEF Discard, settings, SendLeaves
<1>2. Active(sends[s]) BY DEF Discard, Active
<1> QED BY <1>1, <1>2, SendEnds

LEMMA SendToldKeeps ==
  ASSUME WidgetInv, NEW s \in 1 .. MaxSends, SendTold(s)
  PROVE  WidgetInv'
<1>1. SendLeaves(s) BY DEF SendTold, settings, SendLeaves, Return
<1>2. SendSound(s, sends[s], generation, chat, frame)
  BY DEF WidgetInv, SendInv, SendsSound
<1>3. Active(sends[s]) BY <1>2 DEF SendTold, SendSound
<1> QED BY <1>1, <1>3, SendEnds

LEMMA JoinedTurns ==
  ASSUME NEW a \in Seq(Turn), NEW b \in Seq(Turn)
  PROVE  /\ a \o b \in Seq(Turn) /\ Len(a \o b) = Len(a) + Len(b)
         /\ \A k \in 1 .. Len(a) : (a \o b)[k] = a[k]
         /\ \A k \in 1 .. Len(b) : (a \o b)[Len(a) + k] = b[k]
OBVIOUS

LEMMA Appended ==
  ASSUME NEW a \in Seq(Turn), NEW x \in Turn, NEW y \in Turn
  PROVE  /\ a \o <<x, y>> \in Seq(Turn)
         /\ \A j \in DOMAIN (a \o <<x, y>>) :
              \/ j \in DOMAIN a /\ (a \o <<x, y>>)[j] = a[j]
              \/ (a \o <<x, y>>)[j] \in {x, y}
<1> DEFINE b == <<x, y>>
<1>1. b \in Seq(Turn) /\ Len(b) = 2 /\ b[1] = x /\ b[2] = y OBVIOUS
<1> HIDE DEF b
<1>2. a \o b \in Seq(Turn) /\ Len(a \o b) = Len(a) + 2
  <2>1. a \o b \in Seq(Turn) /\ Len(a \o b) = Len(a) + Len(b)
    BY <1>1, JoinedTurns
  <2>2. Len(b) = 2 BY <1>1
  <2> QED BY ONLY <2>1, <2>2
<1>3. ASSUME NEW j \in DOMAIN (a \o b)
      PROVE  \/ j \in DOMAIN a /\ (a \o b)[j] = a[j]
             \/ (a \o b)[j] \in {x, y}
  <2>1. j \in 1 .. Len(a) + 2 /\ Len(a) \in Nat BY <1>2
  <2>2. CASE j <= Len(a)
    <3>1. j \in 1 .. Len(a) BY <2>1, <2>2
    <3> QED BY <1>1, <3>1
  <2>3. CASE j = Len(a) + 1 BY <1>1, <2>1, <2>3
  <2>4. CASE j = Len(a) + 2 BY <1>1, <2>1, <2>4
  <2> QED BY <2>1, <2>2, <2>3, <2>4
<1> QED BY <1>2, <1>3 DEF b

\* The turns of a completed history are the history's and the exchange's.
LEMMA CompletedTurns ==
  ASSUME NEW turns \in Seq(Turn), NEW s \in 1 .. MaxSends, NEW text \in Seq(Nat), NEW finish
  PROVE  /\ CompletedHistory(turns, s, text, finish) \in Seq(Turn)
         /\ \A i \in DOMAIN CompletedHistory(turns, s, text, finish) :
              \E turn \in Turn :
                /\ turn = CompletedHistory(turns, s, text, finish)[i]
                /\ \/ \E j \in DOMAIN turns : turn = turns[j]
                   \/ /\ finish # "refused" /\ turn.of = s
                      /\ turn.role = "assistant" => turn.text = text
<1> DEFINE x == [of |-> s, role |-> "user", text |-> <<>>]
           y == [of |-> s, role |-> "assistant", text |-> text]
           all == turns \o <<x, y>>
           done == CompletedHistory(turns, s, text, finish)
<1>1. x \in Turn /\ y \in Turn BY DEF Turn
<1>2. /\ x.of = s /\ (x.role = "assistant" => x.text = text)
      /\ y.of = s /\ (y.role = "assistant" => y.text = text)
  OBVIOUS
<1>3. CASE finish = "refused" \/ text = <<>>
  <2>1. done = BoundedHistory(turns) BY <1>3 DEF CompletedHistory
  <2>2. Within(done, turns, HistoryLimit) BY <2>1, HistoryIsBounded
  <2> HIDE DEF done
  <2>3. done \in Seq(Turn) /\ \A i \in DOMAIN done : done[i] \in Turn BY <2>2 DEF Within
  <2> QED BY <2>2, <2>3 DEF Within, done
<1>4. CASE ~ (finish = "refused" \/ text = <<>>)
  <2>1. done = BoundedHistory(all) BY <1>4 DEF CompletedHistory
  <2> HIDE DEF x, y
  <2>2. /\ all \in Seq(Turn)
        /\ \A j \in DOMAIN all : (j \in DOMAIN turns /\ all[j] = turns[j]) \/ all[j] \in {x, y}
    BY <1>1, Appended
  <2> HIDE DEF all
  <2>3. Within(done, all, HistoryLimit) BY <2>1, <2>2, HistoryIsBounded
  <2> HIDE DEF done
  <2>4. done \in Seq(Turn) /\ \A i \in DOMAIN done : done[i] \in Turn BY <2>3 DEF Within
  <2>5. ASSUME NEW i \in DOMAIN done
        PROVE  \/ \E j \in DOMAIN turns : done[i] = turns[j]
               \/ /\ finish # "refused" /\ done[i].of = s
                  /\ done[i].role = "assistant" => done[i].text = text
    <3>1. PICK j \in DOMAIN all : done[i] = all[j] BY <2>3 DEF Within
    <3>2. CASE j \in DOMAIN turns /\ all[j] = turns[j] BY <3>1, <3>2
    <3>3. CASE all[j] \in {x, y} BY <1>2, <1>4, <3>1, <3>3
    <3> QED BY <2>2, <3>2, <3>3
  <2> QED BY <2>4, <2>5 DEF done
<1> QED BY <1>3, <1>4

LEMMA ConcludeKeeps ==
  ASSUME WidgetInv, NEW s \in 1 .. MaxSends, Conclude(s)
  PROVE  WidgetInv'
<1>0. /\ PageInv /\ OwnCheckInv /\ OwnSendInv /\ StateInv /\ BaseInv /\ SessionInv /\ TurnInv
  BY DEF WidgetInv
<1>1. /\ frame[1] = "none" /\ sends[s].at = "result" /\ sends[s].got = "returned"
      /\ sends[s].gen = generation /\ sends[s].base = apiBase
      /\ history' = IF sends[s].result \in {"stop", "refused"}
                      THEN CompletedHistory(history, s, sends[s].text, sends[s].result)
                      ELSE history
      /\ state' = "terminal" /\ stranded' = FALSE /\ frame' = <<"send", s>>
      /\ sends' = [sends EXCEPT ![s].got = "told"]
      /\ UNCHANGED <<connected, apiBase, since, open, generation, compatibleBase,
                     compatibility, chat, session, checks>>
  BY DEF Conclude, SetState, Dispatch, settings, IsCurrent
<1>2. Active(sends[s]) BY <1>1 DEF Active
<1>3. /\ sends[s] \in Sent /\ sends[s].base # NoBase /\ chat = s /\ OneAttempts(sends[s])
  BY <1>1, <1>2, ActiveSend DEF OneAttempts
<1>4. /\ \A h \in 1 .. MaxSends : frame # <<"send", h>>
      /\ \A h \in 1 .. MaxSends : h # s => frame' # <<"send", h>>
      /\ \A g \in 0 .. MaxGeneration : frame' # <<"check", g>> /\ frame # <<"check", g>>
      /\ frame' \in {"none", "open", "clear", "check", "send"} \X Int /\ frame'[1] = "send"
  <2>1. \A g : frame # <<"check", g>> /\ frame # <<"send", g>> BY <1>1, NoFrame
  <2>2. s \in Int BY Bounds
  <2> QED BY ONLY <1>1, <2>1, <2>2
<1>5. chat # None /\ compatibility = None
  <2>1. chat # None BY <1>3, Bounds DEF None
  <2> QED BY <1>0, <2>1 DEF OwnCheckInv
<1>6. /\ open /\ \A h \in 1 .. MaxSends : Active(sends[h]) => h = s
  BY <1>0, <1>3, <1>5 DEF OwnSendInv
<1>7. sends[s].session = session BY <1>0, <1>1, <1>2 DEF SessionInv
<1> DEFINE old == sends[s]
           new == [old EXCEPT !.got = "told"]
<1>8. sends' = [sends EXCEPT ![s] = new] BY <1>1
<1>9. /\ new \in Sent /\ new.at = "result" /\ new.got = "told" /\ SameSend(new, old)
      /\ new.text = old.text /\ new.result = old.result
  <2>1. old \in Sent /\ old.at = "result" /\ "told" \in SendGot BY <1>1, <1>3 DEF SendGot
  <2> HIDE DEF old
  <2> QED BY ONLY <2>1 DEF Sent, SameSend
<1> HIDE DEF new
<1>10. Active(new) /\ Kept(new) BY <1>9 DEF Active, Kept
<1>11. Furthers(new, sends[s])
  <2>1. ~ Kept(sends[s]) /\ sends[s].at # "unused" BY <1>1 DEF Kept
  <2> QED BY <1>2, <1>3, <1>9, <2>1 DEF Furthers, SameSend, OneAttempts
<1>12. SendSound(s, new, generation, chat', frame')
  <2>1. frame' = <<"send", s>> /\ chat' = s BY <1>1, <1>3
  <2>2. new.gen = generation /\ new.base # NoBase BY <1>1, <1>3, <1>9 DEF SameSend
  <2>3. generation \in 0 .. MaxGeneration BY <1>0 DEF PageInv
  <2>4. generation <= generation BY <2>3, Bounds
  <2> QED BY <1>9, <1>10, <2>1, <2>2, <2>4 DEF SendSound
<1>13. OneSend(s, new)
  <2>1. \A h \in 1 .. MaxSends : h # s =>
          /\ chat = h => chat' = h
          /\ (frame' = <<"send", h>>) <=> (frame = <<"send", h>>)
    BY <1>1, <1>4
  <2> QED BY <1>1, <1>8, <1>9, <1>11, <1>12, <2>1 DEF OneSend
<1>14. /\ SendInv' /\ SentInv' /\ TextInv' /\ SessionInv' /\ PostedInv'
       /\ sends'[s] = new
  BY <1>13, OneSendKeeps
<1>15. TurnInv'
  <2>1. history \in Seq(Turn) BY <1>0 DEF TurnInv
  <2>2. CASE old.result \notin {"stop", "refused"}
    <3>1. history' = history BY <1>1, <2>2
    <3> QED BY <1>13, <3>1, OneSendSameTurns
  <2>3. CASE old.result \in {"stop", "refused"}
    <3>1. history' = CompletedHistory(history, s, old.text, old.result) BY <1>1, <2>3
    <3>2. old.text \in Seq(Nat) BY <1>3 DEF Sent
    <3>3. /\ history' \in Seq(Turn)
          /\ \A i \in DOMAIN history' :
               \E turn \in Turn :
                 /\ turn = history'[i]
                 /\ \/ \E j \in DOMAIN history : turn = history[j]
                    \/ /\ old.result # "refused" /\ turn.of = s
                       /\ turn.role = "assistant" => turn.text = old.text
      BY <2>1, <3>1, <3>2, CompletedTurns
    <3>4. ASSUME NEW i \in DOMAIN history'
          PROVE  \/ \E j \in DOMAIN history : history'[i] = history[j]
                 \/ /\ history'[i].of = s /\ Kept(new) /\ new.session = session
                    /\ new.result = "stop"
                    /\ history'[i].role = "assistant" => history'[i].text = new.text
      <4>1. \/ \E j \in DOMAIN history : history'[i] = history[j]
            \/ /\ old.result # "refused" /\ history'[i].of = s
               /\ history'[i].role = "assistant" => history'[i].text = old.text
        BY <3>3
      <4>2. new.session = session BY <1>7, <1>9 DEF SameSend
      <4>3. old.result # "refused" => new.result = "stop" BY <1>9, <2>3
      <4> QED BY <1>9, <1>10, <4>1, <4>2, <4>3
    <3> QED BY <1>13, <3>3, <3>4, OneSendTurns
  <2> QED BY <2>2, <2>3
<1>16. CheckInv' BY <1>1, <1>4, ChecksRest
<1>17. PageInv' BY <1>0, <1>1, <1>4 DEF PageInv
<1>18. OwnSendInv'
  <2>1. \A h \in 1 .. MaxSends : Active(sends'[h]) => h = s BY <1>6, <1>13, OneSendOwned
  <2>2. chat' = s /\ frame' = <<"send", chat'>> /\ state' = "terminal" /\ open' = open
        /\ generation' = generation /\ apiBase' = apiBase
    BY <1>1, <1>3
  <2>3. new.gen = generation /\ new.base = apiBase BY <1>1, <1>9 DEF SameSend
  <2> QED BY <1>6, <1>10, <1>14, <2>1, <2>2, <2>3 DEF OwnSendInv
<1>19. OwnCheckInv' BY <1>1, <1>5 DEF OwnCheckInv
<1>20. StateInv'
  <2>1. state' = "terminal" /\ open' = open /\ frame'[1] = "send" BY <1>1, <1>4
  <2> QED BY ONLY <1>6, <2>1 DEF StateInv
<1>21. BaseInv' BY <1>0, <1>1 DEF BaseInv
<1> QED BY <1>14, <1>15, <1>16, <1>17, <1>18, <1>19, <1>20, <1>21 DEF WidgetInv

\* The turns of a bounded history are the history's.
LEMMA BoundedTurns ==
  ASSUME NEW turns \in Seq(Turn)
  PROVE  /\ BoundedHistory(turns) \in Seq(Turn) /\ Len(BoundedHistory(turns)) <= HistoryLimit
         /\ Aggregate(BoundedHistory(turns)) <= AggregateMax
         /\ \A i \in DOMAIN BoundedHistory(turns) :
              \E j \in DOMAIN turns : BoundedHistory(turns)[i] = turns[j]
<1>1. Within(BoundedHistory(turns), turns, HistoryLimit) BY HistoryIsBounded
<1> DEFINE kept == BoundedHistory(turns)
<1>2. Within(kept, turns, HistoryLimit) BY <1>1
<1> HIDE DEF kept
<1>3. /\ kept \in Seq(Turn) /\ Len(kept) <= HistoryLimit /\ Aggregate(kept) <= AggregateMax
      /\ \A i \in DOMAIN kept : \E j \in DOMAIN turns : kept[i] = turns[j]
  BY <1>2 DEF Within
<1> QED BY <1>3 DEF kept

LEMMA SendKeeps ==
  ASSUME WidgetInv, NEW s \in 1 .. MaxSends, Send(s)
  PROVE  WidgetInv'
<1>0. /\ PageInv /\ CheckInv /\ OwnCheckInv /\ SendInv /\ OwnSendInv /\ StateInv /\ BaseInv
      /\ SentInv /\ TextInv /\ SessionInv /\ TurnInv /\ PostedInv
  BY DEF WidgetInv
<1> DEFINE new == [NoSend EXCEPT
             !.at = "fetch", !.base = apiBase, !.gen = generation, !.attempt = 1,
             !.session = session, !.posted = BoundedHistory(history), !.since = since]
<1>1. /\ frame[1] = "none" /\ (\A h \in DOMAIN sends : sends[h].got = "")
      /\ open /\ sends[s].at = "unused" /\ apiBase # NoBase /\ compatibleBase = apiBase
      /\ chat = None /\ chat' = s /\ sends' = [sends EXCEPT ![s] = new]
      /\ state' = "sending" /\ stranded' = FALSE
      /\ UNCHANGED <<connected, apiBase, since, open, generation, compatibleBase, history, session,
                     compatibility, checks, frame>>
  BY DEF Send, Drained, SetState, settings
<1>2. sends \in [1 .. MaxSends -> Sent] BY <1>0 DEF SendInv, SendsSound
<1>3. history \in Seq(Turn) BY <1>0 DEF TurnInv
<1>4. /\ generation \in 0 .. MaxGeneration /\ since \in 0 .. generation /\ apiBase \in Base
      /\ session \in Nat /\ frame' = frame
  BY <1>0, <1>1 DEF PageInv
<1>5. generation \in Int /\ since \in Int /\ session \in Int /\ s # None /\ s \in Int
      /\ generation <= generation /\ generation \in 0 .. generation
  BY <1>4, Bounds DEF None
<1>6. /\ new \in Sent /\ new.at = "fetch" /\ new.got = "" /\ new.base = apiBase
      /\ new.gen = generation /\ new.session = session /\ new.since = since
      /\ new.posted = BoundedHistory(history) /\ new.text = <<>>
  <2> DEFINE posted == BoundedHistory(history)
  <2>1. posted \in Seq(Turn) BY <1>3, BoundedTurns
  <2> HIDE DEF posted
  <2>2. NoSend \in Sent /\ NoSend.got = "" /\ NoSend.text = <<>> BY NoSendIs
  <2> DEFINE n == [NoSend EXCEPT
             !.at = "fetch", !.base = apiBase, !.gen = generation, !.attempt = 1,
             !.session = session, !.posted = posted, !.since = since]
  <2>3. /\ n \in Sent /\ n.at = "fetch" /\ n.got = "" /\ n.base = apiBase
        /\ n.gen = generation /\ n.session = session /\ n.since = since
        /\ n.posted = posted /\ n.text = <<>>
    <3>1. "fetch" \in {"unused", "fetch", "read", "result", "over"} /\ 1 \in 0 .. 2 OBVIOUS
    <3> QED BY ONLY <1>4, <1>5, <2>1, <2>2, <3>1 DEF Sent
  <2>4. n = new BY DEF posted, new
  <2> QED BY ONLY <2>3, <2>4 DEF posted
<1> HIDE DEF new
<1>7. /\ sends' \in [1 .. MaxSends -> Sent] /\ sends'[s] = new
      /\ \A h \in 1 .. MaxSends : h # s => sends'[h] = sends[h]
  BY <1>1, <1>2, <1>6
<1>8. Active(new) BY <1>6 DEF Active
<1>9. \A h \in 1 .. MaxSends : frame' # <<"send", h>> /\ frame # <<"send", h>>
  BY <1>1, <1>4, NoFrame
<1>10. \A h \in 1 .. MaxSends : ~ Active(sends[h])
  <2> SUFFICES ASSUME NEW h \in 1 .. MaxSends, Active(sends[h]) PROVE FALSE OBVIOUS
  <2>1. chat # h
    <3>1. h # None BY Bounds DEF None
    <3> QED BY <1>1, <3>1
  <2>2. sends[h].got # "" BY <2>1, ActiveSend
  <2> QED BY <1>1, <1>2, <2>2
<1>11. SendInv'
  <2>1. SendSound(s, new, generation, s, frame)
    BY <1>1, <1>5, <1>6, <1>8, <1>9 DEF SendSound
  <2>2. ASSUME NEW h \in 1 .. MaxSends, h # s PROVE SendSound(h, sends[h], generation, s, frame)
    <3>1. SendSound(h, sends[h], generation, chat, frame) BY <1>0 DEF SendInv, SendsSound
    <3> QED BY <1>10, <3>1 DEF SendSound
  <2>3. ASSUME NEW h \in 1 .. MaxSends PROVE SendSound(h, sends'[h], generation, s, frame)
    <3>1. CASE h = s BY <1>7, <2>1, <3>1
    <3>2. CASE h # s BY <1>7, <2>2, <3>2
    <3> QED BY <3>1, <3>2
  <2> QED BY <1>1, <1>7, <2>3 DEF SendInv, SendsSound
<1>12. OwnSendInv'
  <2>1. \A h \in 1 .. MaxSends : Active(sends'[h]) => h = s BY <1>7, <1>10
  <2>2. frame' # <<"send", s>> BY <1>9
  <2>3. chat' = s /\ state' = "sending" /\ open' /\ generation' = generation
        /\ apiBase' = apiBase
    BY ONLY <1>1
  <2> QED BY ONLY <1>6, <1>7, <1>8, <2>1, <2>2, <2>3 DEF OwnSendInv
<1>13. compatibility = None BY <1>0, <1>1 DEF OwnCheckInv
<1>14. CheckInv' BY <1>1, ChecksRest
<1>15. OwnCheckInv' BY <1>1, <1>13 DEF OwnCheckInv
<1>16. PageInv' BY <1>0, <1>1 DEF PageInv
<1>17. StateInv'
  <2>1. \E h \in 1 .. MaxSends : Active(sends'[h]) BY <1>7, <1>8
  <2>2. state' = "sending" /\ open' /\ frame'[1] = "none" BY ONLY <1>1
  <2> QED BY ONLY <2>1, <2>2 DEF StateInv
<1>18. BaseInv' BY <1>0, <1>1 DEF BaseInv
<1>19. SentInv'
  <2> SUFFICES ASSUME NEW h \in 1 .. MaxSends, sends'[h].at # "unused"
               PROVE  /\ sends'[h].since \in 0 .. generation /\ sends'[h].gen \in 0 .. generation
                      /\ Answered(checks, sends'[h].base, sends'[h].since, sends'[h].gen)
    BY <1>1 DEF SentInv
  <2>1. CASE h = s
    <3>1. Answered(checks, apiBase, since, generation) BY <1>0, <1>1 DEF BaseInv
    <3> QED BY <1>4, <1>5, <1>6, <1>7, <2>1, <3>1
  <2>2. CASE h # s BY <1>0, <1>7, <2>2 DEF SentInv
  <2> QED BY <2>1, <2>2
<1>20. TextInv'
  <2> SUFFICES ASSUME NEW h \in 1 .. MaxSends
               PROVE  \A k \in 1 .. Len(sends'[h].text) : sends'[h].text[k] = sends'[h].attempt
    BY DEF TextInv
  <2>1. CASE h = s
    <3>1. 1 .. 0 = {} /\ Len(<<>>) = 0 OBVIOUS
    <3>2. 1 .. Len(sends'[h].text) = {} BY <1>6, <1>7, <2>1, <3>1
    <3> QED BY <3>2
  <2>2. CASE h # s BY <1>0, <1>7, <2>2 DEF TextInv
  <2> QED BY <2>1, <2>2
<1>21. SessionInv'
  <2> SUFFICES ASSUME NEW h \in 1 .. MaxSends, Active(sends'[h])
               PROVE  sends'[h].session = session
    BY <1>1 DEF SessionInv
  <2>1. h = s BY <1>7, <1>10
  <2> QED BY <1>6, <1>7, <2>1
\* A turn names an exchange that is over, not this one.
<1>22. ASSUME NEW o \in 1 .. MaxSends, Kept(sends[o]) PROVE sends'[o] = sends[o]
  <2>1. ~ Kept(sends[s]) BY <1>1, <1>2 DEF Kept
  <2> QED BY <1>7, <1>22, <2>1
<1>23. ASSUME NEW turn \in Turn, NEW j \in DOMAIN history, turn = history[j]
       PROVE  \E o \in 1 .. MaxSends :
                /\ turn.of = o /\ Kept(sends'[o]) /\ sends'[o].session = session
                /\ sends'[o].result = "stop"
                /\ turn.role = "assistant" => turn.text = sends'[o].text
  <2>1. PICK o \in 1 .. MaxSends : o = history[j].of BY <1>3, TurnsNamed
  <2>2. /\ Kept(sends[o]) /\ sends[o].session = session /\ sends[o].result = "stop"
        /\ history[j].role = "assistant" => history[j].text = sends[o].text
    BY <1>0, <2>1 DEF TurnInv
  <2>3. sends'[o] = sends[o] BY <1>22, <2>2
  <2> QED BY <1>23, <2>1, <2>2, <2>3
<1>24. TurnInv'
  <2>1. ASSUME NEW i \in DOMAIN history
        PROVE  LET send == sends'[history[i].of]
               IN  /\ Kept(send) /\ send.session = session /\ send.result = "stop"
                   /\ history[i].role = "assistant" => history[i].text = send.text
    <3>1. history[i] \in Turn BY <1>3, TurnsNamed
    <3>2. PICK turn \in Turn : turn = history[i] BY <3>1
    <3>3. PICK o \in 1 .. MaxSends :
            /\ turn.of = o /\ Kept(sends'[o]) /\ sends'[o].session = session
            /\ sends'[o].result = "stop"
            /\ turn.role = "assistant" => turn.text = sends'[o].text
      BY <1>23, <3>2
    <3> QED BY <3>2, <3>3
  <2> QED BY <1>1, <1>3, <2>1 DEF TurnInv
<1>25. PostedInv'
  <2> SUFFICES ASSUME NEW h \in 1 .. MaxSends
               PROVE  LET posted == sends'[h].posted
                      IN  /\ \A i \in DOMAIN posted :
                               /\ Kept(sends'[posted[i].of])
                               /\ sends'[posted[i].of].session = sends'[h].session
                          /\ Len(posted) <= HistoryLimit /\ Aggregate(posted) <= AggregateMax
    BY DEF PostedInv
  <2>1. CASE h = s
    <3> DEFINE posted == BoundedHistory(history)
    <3>1. sends'[h].posted = posted /\ sends'[h].session = session BY <1>6, <1>7, <2>1
    <3>2. /\ posted \in Seq(Turn) /\ Len(posted) <= HistoryLimit
          /\ Aggregate(posted) <= AggregateMax
          /\ \A i \in DOMAIN posted : \E j \in DOMAIN history : posted[i] = history[j]
      BY <1>3, BoundedTurns
    <3> HIDE DEF posted
    <3>3. ASSUME NEW i \in DOMAIN posted
          PROVE  /\ Kept(sends'[posted[i].of])
                 /\ sends'[posted[i].of].session = session
      <4>1. posted[i] \in Turn BY <3>2, TurnsNamed
      <4>2. PICK turn \in Turn : turn = posted[i] BY <4>1
      <4>3. PICK j \in DOMAIN history : turn = history[j] BY <3>2, <4>2
      <4>4. PICK o \in 1 .. MaxSends :
              turn.of = o /\ Kept(sends'[o]) /\ sends'[o].session = session
        BY <1>23, <4>3
      <4> QED BY <4>2, <4>4
    <3> QED BY <3>1, <3>2, <3>3
  <2>2. CASE h # s
    <3> DEFINE posted == sends[h].posted
    <3>1. sends'[h] = sends[h] BY <1>7, <2>2
    <3>2. posted \in Seq(Turn) BY <1>0, PostedTyped
    <3>3. ASSUME NEW i \in DOMAIN posted
          PROVE  /\ Kept(sends'[posted[i].of])
                 /\ sends'[posted[i].of].session = sends[h].session
      <4>1. PICK o \in 1 .. MaxSends : o = posted[i].of BY <3>2, TurnsNamed
      <4>2. Kept(sends[o]) /\ sends[o].session = sends[h].session BY <1>0, <4>1 DEF PostedInv
      <4>3. sends'[o] = sends[o] BY <1>22, <4>2
      <4> QED BY <4>1, <4>2, <4>3
    <3>4. Len(posted) <= HistoryLimit /\ Aggregate(posted) <= AggregateMax
      BY <1>0 DEF PostedInv
    <3> QED BY <3>1, <3>3, <3>4
  <2> QED BY <2>1, <2>2
<1> QED BY <1>11, <1>12, <1>14, <1>15, <1>16, <1>17, <1>18, <1>19, <1>20, <1>21, <1>24, <1>25
        DEF WidgetInv

LEMMA StepKeeps ==
  ASSUME WidgetInv, [Next]_vars
  PROVE  WidgetInv'
<1>1. CASE Misconfigure BY <1>1, MisconfigureKeeps
<1>2. CASE \E base \in Bases : Configure(base) BY <1>2, ConfigureKeeps
<1>3. CASE Disconnect BY <1>3, DisconnectKeeps
<1>4. CASE Reconnect BY <1>4, ReconnectKeeps
<1>5. CASE Open BY <1>5, OpenKeeps
<1>6. CASE Close BY <1>6, CloseKeeps
<1>7. CASE ClearChat BY <1>7, ClearChatKeeps
<1>8. CASE \E s \in 1 .. MaxSends : Send(s) BY <1>8, SendKeeps
<1>9. CASE Opened BY <1>9, OpenedKeeps
<1>10. CASE Cleared BY <1>10, ClearedKeeps
<1>11. CASE \E g \in 0 .. MaxGeneration : CheckWakes(g) BY <1>11, CheckWakesKeeps
<1>12. CASE \E g \in 0 .. MaxGeneration : CheckRuns(g)
  BY <1>12, CheckFetchedKeeps, CheckReadKeeps, CheckToldKeeps DEF CheckRuns
<1>13. CASE \E s \in 1 .. MaxSends : SendWakes(s) BY <1>13, SendWakesKeeps
<1>14. CASE \E s \in 1 .. MaxSends : SendRuns(s)
  BY <1>14, StreamAttemptKeeps, RetryKeeps, ConcludeKeeps, DiscardKeeps, SendToldKeeps
     DEF SendRuns
<1>15. CASE UNCHANGED vars
  <2>1. UNCHANGED <<connected, apiBase, open, state, generation, compatibleBase, compatibility,
                    chat, history, session, checks, sends, frame, since, stranded>>
    BY <1>15 DEF vars
  <2>2. CheckInv' /\ SendInv' /\ TextInv' /\ SessionInv' /\ TurnInv' /\ PostedInv'
    BY <2>1, ChecksRest, SendsRest
  <2>3. PageInv' /\ OwnCheckInv' /\ OwnSendInv' /\ StateInv' /\ BaseInv' /\ SentInv'
    BY <2>1 DEF WidgetInv, PageInv, OwnCheckInv, OwnSendInv, StateInv, BaseInv, SentInv
  <2> QED BY <2>2, <2>3 DEF WidgetInv
<1> QED
  BY <1>1, <1>2, <1>3, <1>4, <1>5, <1>6, <1>7, <1>8, <1>9, <1>10, <1>11, <1>12, <1>13, <1>14,
     <1>15 DEF Next, Page, Visitor

LEMMA InvHolds == Spec => []WidgetInv
<1>1. Init => WidgetInv BY Initial
<1>2. WidgetInv /\ [Next]_vars => WidgetInv' BY StepKeeps
<1> QED BY <1>1, <1>2, PTL DEF Spec

LEMMA HistorySound == WidgetInv => HistoryIsOfThisSession
<1> SUFFICES ASSUME WidgetInv PROVE HistoryIsOfThisSession OBVIOUS
<1>1. /\ sends \in [1 .. MaxSends -> Sent] /\ TurnInv /\ PostedInv /\ TextInv
      /\ history \in Seq(Turn)
  BY DEF WidgetInv, SendInv, SendsSound, TurnInv
<1>2. ASSUME NEW i \in DOMAIN history
      PROVE  LET send == sends[history[i].of]
             IN  /\ send.session = session /\ send.result = "stop"
                 /\ history[i].role = "assistant" =>
                      history[i].text = [k \in 1 .. Len(send.text) |-> send.attempt]
  <2>1. PICK o \in 1 .. MaxSends : o = history[i].of BY <1>1, TurnsNamed
  <2>2. PICK send \in Sent : send = sends[o] BY <1>1
  <2>3. /\ send.session = session /\ send.result = "stop"
        /\ history[i].role = "assistant" => history[i].text = send.text
    BY <1>1, <2>1, <2>2 DEF TurnInv
  <2>4. \A k \in 1 .. Len(send.text) : send.text[k] = send.attempt
    BY <1>1, <2>2 DEF TextInv
  <2>5. send.text = [k \in 1 .. Len(send.text) |-> send.text[k]]
    <3>1. send.text \in Seq(Nat) BY DEF Sent
    <3> QED BY <3>1
  <2>6. send.text = [k \in 1 .. Len(send.text) |-> send.attempt] BY <2>4, <2>5
  <2> QED BY <2>1, <2>2, <2>3, <2>6
<1>3. ASSUME NEW s \in 1 .. MaxSends
      PROVE  LET posted == sends[s].posted
             IN  /\ \A i \in DOMAIN posted : sends[posted[i].of].session = sends[s].session
                 /\ Len(posted) <= HistoryLimit
                 /\ Aggregate(posted) <= AggregateMax
  BY <1>1 DEF PostedInv
<1>4. DOMAIN sends = 1 .. MaxSends BY <1>1
<1> QED BY <1>2, <1>3, <1>4 DEF HistoryIsOfThisSession

LEMMA ShownSound == WidgetInv => WorkIsShown
<1> SUFFICES ASSUME WidgetInv, Drained PROVE
        /\ state = "sending" <=> chat # None
        /\ compatibility # None => state = "checking"
        /\ state = "checking" /\ apiBase # NoBase => compatibility # None \/ stranded
        /\ open <=> state # "closed"
  BY DEF WorkIsShown
<1>1. /\ PageInv /\ OwnCheckInv /\ OwnSendInv /\ StateInv
      /\ sends \in [1 .. MaxSends -> Sent]
  BY DEF WidgetInv, SendInv, SendsSound
<1>2. /\ frame = <<"none", None>> /\ frame[1] = "none"
      /\ \A s \in 1 .. MaxSends : sends[s].got = ""
  BY <1>1 DEF Drained
<1>3. state = "sending" => chat # None
  <2> SUFFICES ASSUME state = "sending", chat = None PROVE FALSE OBVIOUS
  <2>1. PICK s \in 1 .. MaxSends : Active(sends[s]) BY <1>1 DEF StateInv
  <2>2. chat # s BY Bounds DEF None
  <2> QED BY <1>2, <2>1, <2>2, ActiveSend
<1>4. chat # None => state = "sending"
  <2>1. frame # <<"send", chat>> BY <1>2
  <2> QED BY <1>1, <2>1 DEF OwnSendInv
<1>5. compatibility # None => state = "checking"
  <2>1. frame # <<"check", generation>> BY <1>2
  <2> QED BY <1>1, <2>1 DEF OwnCheckInv
<1>6. state = "checking" /\ apiBase # NoBase => compatibility # None \/ stranded
  BY <1>1, <1>2 DEF StateInv
<1>7. open <=> state # "closed" BY <1>1, <1>2 DEF StateInv
<1> QED BY <1>3, <1>4, <1>5, <1>6, <1>7

LEMMA NegotiatedSound == WidgetInv => SendIsNegotiated
<1> SUFFICES ASSUME WidgetInv, NEW s \in DOMAIN sends, sends[s].at # "unused"
             PROVE  \E g \in sends[s].since .. sends[s].gen :
                      checks[g].verdict = "available" /\ checks[g].base = sends[s].base
  BY DEF SendIsNegotiated
<1>1. sends \in [1 .. MaxSends -> Sent] BY DEF WidgetInv, SendInv, SendsSound
<1>2. s \in 1 .. MaxSends BY <1>1
<1> QED BY <1>2 DEF WidgetInv, SentInv, Answered

\* CairnChat: configuration, clear, close and removal keep what was begun
\* before them out of what comes after, whatever the page, the visitor and
\* the network do, for any bases, generations, messages and limits.
THEOREM GenerationsStayApart == Spec => []GenerationsApart
<1>1. WidgetInv => GenerationsApart
  BY HistorySound, ShownSound, NegotiatedSound DEF GenerationsApart
<1> QED BY <1>1, InvHolds, PTL
===============================================================================
