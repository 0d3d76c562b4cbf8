----------------------------- MODULE Parts_proofs ------------------------------
(***************************************************************************)
(* Proofs about the parts of MCParts, and about static ingestion.          *)
(*                                                                         *)
(* The application, for any number of releases, statements and faults: the *)
(* inductive invariant adds to the properties what start-up knows half     *)
(* way: of the script under way, the statements before the cursor are in   *)
(* effect (ScriptInv); past the first step no migration is pending, and a  *)
(* handle is held of each resource opened so far (HeldInv); and closing    *)
(* has called the closing of all whose turn has come (TurnInv).            *)
(*                                                                         *)
(* Telemetry, for any set of responses and any faults of the sink: of each *)
(* response, its unit's flags cover what was told, and nothing but prompt  *)
(* events is told before it ends (UnitSound); the tracker counts the units *)
(* that hold a place (TrackerInv).  What keeps the order of a response's   *)
(* events is proved of one event and of a delivery that may stop half way  *)
(* (ToldOneMore, DeliverOne, DeliverTwo).                                  *)
(*                                                                         *)
(* Readiness, for the compositions and answers of MCParts, of which only   *)
(* ReadinessBounds is used, that they are ones the code can meet: of one   *)
(* evaluation, place by place, which checks exist and of which answer each *)
(* is the judgement (JudgedAt), which no later check revises               *)
(* (JudgedStays); of any set of evaluations, the filter's users are those  *)
(* that read (FilterInv).                                                  *)
(*                                                                         *)
(* Static ingestion, for every corpus and every way the process may stop:  *)
(* one condition is enough for it to be right: the process does not stop   *)
(* between the two commits of a document, or the operator leaves the corpus*)
(* alone until it is served.  The invariant says how far the two databases *)
(* may then disagree (StoreInv).                                           *)
(***************************************************************************)
EXTENDS MCParts, StaticIngestion, SequenceTheorems, FiniteSetTheorems, TLAPS

USE ApplicationAssumption

ScriptInv ==
  stage = "starting" =>
    \A v \in 1 .. MaxRelease : Current(v) => \A i \in 1 .. cursor : <<v, i>> \in ran

HeldInv ==
  /\ stage # "down" => Opened \ Unreturned \subseteq held
  /\ stage = "starting" /\ step > 1 => Pending = {}
  /\ stage = "serving" => ready /\ Pending = {} /\ step = 7

TurnInv ==
  /\ stage \in {"down", "starting", "serving"} => closed = {} /\ turn = 1
  /\ cancelled => stage = "ended" /\ turn <= 5 /\ CloseOrder[turn] \in closed
  /\ stage = "ended" /\ ~cancelled => turn = 6
  /\ \A r \in closed : uses[r] = "owned"
  /\ \A i \in 1 .. turn - 1 :
       CloseOrder[i] \in held /\ uses[CloseOrder[i]] = "owned" => CloseOrder[i] \in closed

LifeInv == ApplicationTypeOK /\ SchemaIsSound /\ ScriptInv /\ HeldInv /\ TurnInv

-----------------------------------------------------------------------------

\* The two orders, position by position.
LEMMA Orders ==
  /\ Len(Steps) = 7 /\ Len(CloseOrder) = 5
  /\ Steps[1] = "database" /\ Steps[2] = "vector" /\ Steps[3] = "collection"
  /\ Steps[4] = "retrieval" /\ Steps[5] = "route" /\ Steps[6] = "catalog"
  /\ Steps[7] = "corpus"
  /\ CloseOrder[1] = "retrieval" /\ CloseOrder[2] = "vector"
  /\ CloseOrder[3] = "database" /\ CloseOrder[4] = "catalog"
  /\ CloseOrder[5] = "provider"
BY DEF Steps, CloseOrder

\* Initially nothing is open and no migration has run.
LEMMA InitLifeInv == Init => LifeInv
<1> SUFFICES ASSUME Init PROVE LifeInv
  OBVIOUS
<1>1. ApplicationTypeOK
  <2>1. connected \in BOOLEAN /\ ready \in BOOLEAN /\ cancelled \in BOOLEAN
    BY DEF Init
  <2> QED
    BY <2>1, Orders DEF Init, ApplicationTypeOK
<1>2. SchemaIsSound /\ ScriptInv /\ HeldInv
  BY DEF Init, SchemaIsSound, ScriptInv, HeldInv
<1>3. TurnInv
  BY DEF Init, TurnInv
<1> QED
  BY <1>1, <1>2, <1>3 DEF LifeInv

\* The loop is at one migration only, and those before it are recorded.
LEMMA CurrentIsFirst ==
  ASSUME ApplicationTypeOK, NEW v \in 1 .. MaxRelease, Current(v)
  PROVE  /\ \A w \in 1 .. MaxRelease : Current(w) => w = v
         /\ v <= release /\ v \notin recorded
         /\ \A w \in 1 .. v - 1 : w \in recorded
BY DEF ApplicationTypeOK, Current, Pending

-----------------------------------------------------------------------------

\* The database file is opened, before anything else.
LEMMA ConnectKeeps ==
  ASSUME LifeInv, Connect
  PROVE  LifeInv'
<1>1. ApplicationTypeOK /\ SchemaIsSound /\ ScriptInv /\ HeldInv /\ TurnInv
  BY DEF LifeInv
<1>2. stage = "starting" /\ step = 1 /\ connected' = TRUE
  BY <1>1, Orders DEF Connect, Starting, ApplicationTypeOK
<1>3. UNCHANGED <<release, ran, recorded, stage, step, cursor, ready, uses, held, turn, closed,
                  cancelled, faults>>
  BY DEF Connect, closeVars, diskVars
<1>4. connected' \in BOOLEAN
  BY <1>2
<1>5. ApplicationTypeOK'
  BY <1>1, <1>3, <1>4 DEF ApplicationTypeOK
<1>6. SchemaIsSound' /\ ScriptInv' /\ TurnInv'
  BY <1>1, <1>3 DEF SchemaIsSound, ScriptInv, TurnInv, Current, Pending
<1>7. HeldInv'
  BY <1>1, <1>2, <1>3 DEF HeldInv, Opened, Unreturned, Pending
<1> QED
  BY <1>5, <1>6, <1>7 DEF LifeInv

\* A statement is executed: its migration is the first pending one.
LEMMA RunStatementKeeps ==
  ASSUME LifeInv, NEW v \in 1 .. MaxRelease, RunStatement(v)
  PROVE  LifeInv'
<1>1. ApplicationTypeOK /\ SchemaIsSound /\ ScriptInv /\ HeldInv /\ TurnInv
  BY DEF LifeInv
<1>2. /\ Current(v) /\ cursor < Statements /\ stage = "starting"
      /\ ran' = ran \cup {<<v, cursor + 1>>} /\ cursor' = cursor + 1
  BY DEF RunStatement, Starting
<1>3. UNCHANGED <<release, recorded, stage, step, connected, ready, uses, held, turn, closed,
                  cancelled, faults>>
  BY DEF RunStatement, closeVars
<1>4. ApplicationTypeOK'
  BY <1>1, <1>2, <1>3 DEF ApplicationTypeOK
<1>5. SchemaIsSound'
  <2>1. \A w \in recorded' : \A i \in 1 .. Statements : <<w, i>> \in ran'
    BY <1>1, <1>2, <1>3 DEF SchemaIsSound
  <2>2. \A s \in ran : \A w \in 1 .. s[1] - 1 : w \in recorded'
    BY <1>1, <1>3 DEF SchemaIsSound
  <2>3. \A w \in 1 .. v - 1 : w \in recorded'
    BY <1>1, <1>2, <1>3, CurrentIsFirst
  <2> QED
    BY <2>1, <2>2, <2>3, <1>2 DEF SchemaIsSound
<1>6. ScriptInv'
  <2> SUFFICES ASSUME NEW w \in 1 .. MaxRelease, Current(w)', NEW i \in 1 .. cursor'
               PROVE  <<w, i>> \in ran'
    BY DEF ScriptInv
  <2>1. Current(w)
    BY <1>3 DEF Current, Pending
  <2>2. w = v
    BY <2>1, <1>1, <1>2, CurrentIsFirst
  <2>3. i \in 1 .. cursor \/ i = cursor + 1
    BY <1>1, <1>2 DEF ApplicationTypeOK
  <2> QED
    BY <2>1, <2>2, <2>3, <1>1, <1>2 DEF ScriptInv
<1>7. HeldInv' /\ TurnInv'
  BY <1>1, <1>3 DEF HeldInv, TurnInv, Opened, Unreturned, Pending
<1> QED
  BY <1>4, <1>5, <1>6, <1>7 DEF LifeInv

\* A version is recorded once its script has run.
LEMMA RecordVersionKeeps ==
  ASSUME LifeInv, NEW v \in 1 .. MaxRelease, RecordVersion(v)
  PROVE  LifeInv'
<1>1. ApplicationTypeOK /\ SchemaIsSound /\ ScriptInv /\ HeldInv /\ TurnInv
  BY DEF LifeInv
<1>2. /\ Current(v) /\ cursor = Statements /\ stage = "starting"
      /\ recorded' = recorded \cup {v} /\ cursor' = 0
  BY DEF RecordVersion, Starting, Executed
<1>3. UNCHANGED <<release, ran, stage, step, connected, ready, uses, held, turn, closed,
                  cancelled, faults>>
  BY DEF RecordVersion, closeVars
<1>4. ApplicationTypeOK'
  BY <1>1, <1>2, <1>3 DEF ApplicationTypeOK
<1>5. SchemaIsSound'
  <2>1. \A i \in 1 .. Statements : <<v, i>> \in ran
    BY <1>1, <1>2 DEF ScriptInv
  <2> QED
    BY <2>1, <1>1, <1>2, <1>3 DEF SchemaIsSound
<1>6. ScriptInv'
  BY <1>2 DEF ScriptInv
<1>7. HeldInv'
  <2>1. Pending' \subseteq Pending
    BY <1>2, <1>3 DEF Pending
  <2> QED
    BY <2>1, <1>1, <1>2, <1>3 DEF HeldInv, Opened, Unreturned
<1>8. TurnInv'
  BY <1>1, <1>3 DEF TurnInv
<1> QED
  BY <1>4, <1>5, <1>6, <1>7, <1>8 DEF LifeInv

\* A step of start-up is done; the first one only with no migration pending.
LEMMA SucceedKeeps ==
  ASSUME LifeInv, Succeed
  PROVE  LifeInv'
<1>1. ApplicationTypeOK /\ SchemaIsSound /\ ScriptInv /\ HeldInv /\ TurnInv
  BY DEF LifeInv
<1>2. /\ stage = "starting" /\ Done /\ cursor' = 0
      /\ held' = held \cup Handles(Steps[step])
      /\ Advance
      /\ \/ step < 7 /\ step' = step + 1 /\ stage' = stage
         \/ step = 7 /\ stage' = "serving" /\ step' = step
  BY <1>1, Orders DEF Succeed, ApplicationTypeOK
<1>3. UNCHANGED <<release, ran, recorded, connected, uses, turn, closed, cancelled, faults>>
  BY DEF Succeed, closeVars, diskVars
<1>4. ready' \in BOOLEAN
  BY <1>2 DEF Advance
<1>5. step \in 1 .. 7 /\ step' \in 1 .. 7
  BY <1>1, <1>2, Orders DEF ApplicationTypeOK
<1>6. ApplicationTypeOK'
  <2>1. held' \subseteq Resource /\ closed' \subseteq held'
    BY <1>1, <1>2, <1>3 DEF ApplicationTypeOK, Handles
  <2>2. stage' \in {"down", "starting", "serving", "closing", "ended"} /\ cursor' \in 0 .. Statements
    BY <1>2
  <2> QED
    BY <2>1, <2>2, <1>1, <1>3, <1>4, <1>5, Orders DEF ApplicationTypeOK
<1>7. Pending = {} /\ Pending' = {}
  <2>1. step = 1 \/ step > 1
    BY <1>5
  <2>2. CASE step = 1
    BY <2>2, <1>2, <1>3, Orders DEF Done, Pending
  <2>3. CASE step > 1
    BY <2>3, <1>1, <1>2, <1>3 DEF HeldInv, Pending
  <2> QED
    BY <2>1, <2>2, <2>3
<1>8. Opened' \ Unreturned' \subseteq held'
  <2> SUFFICES ASSUME NEW r \in Resource, uses[r] = "owned", r \notin Unreturned',
                      \/ r = "provider" \/ r = "database"
                      \/ \E i \in 1 .. step' - 1 : Steps[i] = r
               PROVE  r \in held'
    BY <1>3 DEF Opened, Unreturned
  <2>0. CASE r = "database"
    <3>1. step' # 1
      BY <2>0 DEF Unreturned
    <3>2. CASE step = 1
      BY <2>0, <3>2, <1>2, Orders DEF Handles
    <3>3. CASE step # 1
      <4>1. 1 \in 1 .. step - 1
        BY <3>3, <1>5
      <4>2. r \in Opened \ Unreturned
        BY <2>0, <3>3, <4>1, Orders DEF Opened, Unreturned
      <4> QED
        BY <4>2, <1>1, <1>2 DEF HeldInv
    <3> QED
      BY <3>2, <3>3
  <2>1. CASE r # "database" /\ (r = "provider" \/ \E i \in 1 .. step - 1 : Steps[i] = r)
    BY <2>1, <1>1, <1>2 DEF HeldInv, Opened, Unreturned
  <2>2. CASE Steps[step] = r
    BY <2>2, <1>2 DEF Handles
  <2>3. \A i \in 1 .. step' - 1 : i \in 1 .. step - 1 \/ i = step
    <3>1. step' = step \/ step' = step + 1
      BY <1>2
    <3>2. step \in Int
      BY <1>5
    <3>3. CASE step' = step
      BY <3>3
    <3>4. CASE step' = step + 1
      BY <3>2, <3>4
    <3> QED
      BY <3>1, <3>3, <3>4
  <2> QED
    BY <2>0, <2>1, <2>2, <2>3
<1>9. stage' = "serving" => ready' = TRUE /\ step' = 7
  <2>1. step = 7 => ready' = TRUE
    BY <1>2, Orders DEF Advance
  <2> QED
    BY <2>1, <1>2
<1>10. HeldInv'
  BY <1>7, <1>8, <1>9 DEF HeldInv
<1>11. SchemaIsSound' /\ ScriptInv'
  BY <1>1, <1>2, <1>3 DEF SchemaIsSound, ScriptInv
<1>12. TurnInv'
  <2>1. closed = {} /\ turn = 1 /\ ~cancelled
    BY <1>1, <1>2 DEF TurnInv
  <2>2. stage' \in {"starting", "serving"}
    BY <1>2
  <2> QED
    BY <2>1, <2>2, <1>3 DEF TurnInv
<1> QED
  BY <1>6, <1>10, <1>11, <1>12 DEF LifeInv

-----------------------------------------------------------------------------

\* The process is started, with the handles create_app has.
LEMMA BootKeeps ==
  ASSUME LifeInv, NEW u \in Compositions, Boot(u)
  PROVE  LifeInv'
<1>1. ApplicationTypeOK /\ SchemaIsSound
  BY DEF LifeInv
<1>2. /\ uses' = u /\ stage' = "starting" /\ step' = 1 /\ cursor' = 0
      /\ held' = {"provider"} \cup {r \in {"retrieval"} : u[r] = "given"}
      /\ turn' = 1 /\ closed' = {}
  BY DEF Boot
<1>3. connected' = FALSE /\ ready' = FALSE /\ cancelled' = FALSE
  BY DEF Boot
<1>4. UNCHANGED <<release, ran, recorded, faults>>
  BY DEF Boot, diskVars
<1>5. ApplicationTypeOK'
  <2>1. connected' \in BOOLEAN /\ ready' \in BOOLEAN /\ cancelled' \in BOOLEAN
    BY <1>3
  <2>2. held' \subseteq Resource /\ closed' \subseteq held'
    BY <1>2 DEF Resource
  <2> QED
    BY <2>1, <2>2, <1>1, <1>2, <1>4, Orders DEF ApplicationTypeOK
<1>6. SchemaIsSound' /\ ScriptInv'
  BY <1>1, <1>2, <1>4 DEF SchemaIsSound, ScriptInv
<1>7. HeldInv'
  BY <1>2, <1>3 DEF HeldInv, Opened, Unreturned
<1>8. TurnInv'
  BY <1>2, <1>3 DEF TurnInv
<1> QED
  BY <1>5, <1>6, <1>7, <1>8 DEF LifeInv

\* Start-up fails, or the application is shut down: closing begins.
LEMMA ClosingBegins ==
  ASSUME LifeInv, Fail \/ Shutdown
  PROVE  LifeInv'
<1>1. ApplicationTypeOK /\ SchemaIsSound /\ ScriptInv /\ HeldInv /\ TurnInv
  BY DEF LifeInv
<1>2. stage \in {"starting", "serving"} /\ stage' = "closing"
  BY DEF Fail, Raise, Shutdown
<1>3. UNCHANGED <<release, ran, recorded, step, connected, cursor, ready, uses, held, turn, closed, cancelled>>
  BY DEF Fail, Raise, Shutdown, diskVars, startVars, closeVars
<1>4. faults' \in 0 .. MaxFaults
  BY <1>1 DEF ApplicationTypeOK, Fail, Shutdown
<1>5. ApplicationTypeOK'
  BY <1>1, <1>2, <1>3, <1>4 DEF ApplicationTypeOK
<1>6. SchemaIsSound' /\ ScriptInv' /\ HeldInv'
  BY <1>1, <1>2, <1>3 DEF SchemaIsSound, ScriptInv, HeldInv, Opened, Unreturned
<1>7. TurnInv'
  BY <1>1, <1>2, <1>3 DEF TurnInv
<1> QED
  BY <1>5, <1>6, <1>7 DEF LifeInv

\* The next resource is closed, if it is the application's and open.
LEMMA CloseKeeps ==
  ASSUME LifeInv, Close
  PROVE  LifeInv'
<1>1. ApplicationTypeOK /\ SchemaIsSound /\ ScriptInv /\ HeldInv /\ TurnInv
  BY DEF LifeInv
<1>2. /\ stage = "closing" /\ turn \in 1 .. 5 /\ turn' = turn + 1
      /\ closed' = closed \cup {r \in {CloseOrder[turn]} : Closes(r)}
  BY <1>1, Orders DEF Close, ApplicationTypeOK
<1>3. UNCHANGED <<release, ran, recorded, stage, step, connected, cursor, ready, uses, held, cancelled, faults>>
  BY DEF Close, diskVars, startVars
<1>4. ApplicationTypeOK'
  <2>1. closed' \subseteq held'
    BY <1>1, <1>2, <1>3 DEF ApplicationTypeOK, Closes
  <2> QED
    BY <2>1, <1>1, <1>2, <1>3, Orders DEF ApplicationTypeOK
<1>5. SchemaIsSound' /\ ScriptInv' /\ HeldInv'
  BY <1>1, <1>2, <1>3 DEF SchemaIsSound, ScriptInv, HeldInv, Opened, Unreturned, Pending
<1>6. TurnInv'
  <2>1. \A r \in closed' : uses'[r] = "owned"
    BY <1>1, <1>2, <1>3 DEF TurnInv, Closes
  <2>2. ASSUME NEW i \in 1 .. turn' - 1, CloseOrder[i] \in held, uses[CloseOrder[i]] = "owned"
        PROVE  CloseOrder[i] \in closed'
    <3>1. i \in 1 .. turn - 1 \/ i = turn
      BY <1>2
    <3> QED
      BY <2>2, <3>1, <1>1, <1>2 DEF TurnInv, Closes
  <2>3. ~cancelled'
    BY <1>1, <1>2, <1>3 DEF TurnInv
  <2> QED
    BY <2>1, <2>2, <2>3, <1>2, <1>3 DEF TurnInv
<1> QED
  BY <1>4, <1>5, <1>6 DEF LifeInv

\* A closing is cancelled: it was called, and no other will be.
LEMMA CancelCloseKeeps ==
  ASSUME LifeInv, CancelClose
  PROVE  LifeInv'
<1>1. ApplicationTypeOK /\ SchemaIsSound /\ ScriptInv /\ HeldInv /\ TurnInv
  BY DEF LifeInv
<1>2. /\ stage = "closing" /\ stage' = "ended" /\ turn \in 1 .. 5
      /\ Closes(CloseOrder[turn]) /\ closed' = closed \cup {CloseOrder[turn]}
      /\ faults' \in 0 .. MaxFaults
  BY <1>1, Orders DEF CancelClose, ApplicationTypeOK
<1>3. cancelled' = TRUE
  BY DEF CancelClose
<1>4. UNCHANGED <<release, ran, recorded, step, connected, cursor, ready, uses, held, turn>>
  BY DEF CancelClose, diskVars, startVars
<1>5. ApplicationTypeOK'
  <2>1. cancelled' \in BOOLEAN
    BY <1>3
  <2>2. closed' \subseteq held'
    BY <1>1, <1>2, <1>4 DEF ApplicationTypeOK, Closes
  <2> QED
    BY <2>1, <2>2, <1>1, <1>2, <1>4 DEF ApplicationTypeOK
<1>6. SchemaIsSound' /\ ScriptInv' /\ HeldInv'
  BY <1>1, <1>2, <1>4 DEF SchemaIsSound, ScriptInv, HeldInv, Opened, Unreturned, Pending
<1>7. TurnInv'
  <2>1. \A r \in closed' : uses'[r] = "owned"
    BY <1>1, <1>2, <1>4 DEF TurnInv, Closes
  <2> QED
    BY <2>1, <1>1, <1>2, <1>3, <1>4 DEF TurnInv
<1> QED
  BY <1>5, <1>6, <1>7 DEF LifeInv

\* Closing is over.
LEMMA EndKeeps ==
  ASSUME LifeInv, End
  PROVE  LifeInv'
<1>1. ApplicationTypeOK /\ SchemaIsSound /\ ScriptInv /\ HeldInv /\ TurnInv
  BY DEF LifeInv
<1>2. stage = "closing" /\ stage' = "ended" /\ turn = 6
  BY <1>1, Orders DEF End, ApplicationTypeOK
<1>3. UNCHANGED <<release, ran, recorded, step, connected, cursor, ready, uses, held, turn, closed, cancelled, faults>>
  BY DEF End, diskVars, startVars, closeVars
<1>4. ApplicationTypeOK'
  BY <1>1, <1>2, <1>3 DEF ApplicationTypeOK
<1>5. SchemaIsSound' /\ ScriptInv' /\ HeldInv' /\ TurnInv'
  BY <1>1, <1>2, <1>3 DEF SchemaIsSound, ScriptInv, HeldInv, TurnInv, Opened, Unreturned, Pending
<1> QED
  BY <1>4, <1>5 DEF LifeInv

\* The process is gone, by itself or by a crash: the database file stays.
LEMMA DownKeeps ==
  ASSUME LifeInv, Exit \/ Crash
  PROVE  LifeInv'
<1>1. ApplicationTypeOK /\ SchemaIsSound
  BY DEF LifeInv
<1>2. stage' = "down" /\ held' = {} /\ closed' = {} /\ turn' = 1
  BY DEF Exit, Crash, Down
<1>3. cancelled' = FALSE
  BY DEF Exit, Crash, Down
<1>4. UNCHANGED <<release, ran, recorded, step, connected, cursor, ready, uses>>
  BY DEF Exit, Crash, Down, diskVars, startVars
<1>5. faults' \in 0 .. MaxFaults
  BY <1>1 DEF ApplicationTypeOK, Exit, Crash
<1>6. ApplicationTypeOK'
  <2>1. cancelled' \in BOOLEAN
    BY <1>3
  <2> QED
    BY <2>1, <1>1, <1>2, <1>4, <1>5, Orders DEF ApplicationTypeOK
<1>7. SchemaIsSound' /\ ScriptInv' /\ HeldInv'
  BY <1>1, <1>2, <1>4 DEF SchemaIsSound, ScriptInv, HeldInv
<1>8. TurnInv'
  BY <1>2, <1>3 DEF TurnInv
<1> QED
  BY <1>6, <1>7, <1>8 DEF LifeInv

\* Another release is installed while the process is down.
LEMMA DeployKeeps ==
  ASSUME LifeInv, NEW r \in 1 .. MaxRelease, Deploy(r)
  PROVE  LifeInv'
<1>1. ApplicationTypeOK /\ SchemaIsSound /\ TurnInv
  BY DEF LifeInv
<1>2. stage = "down" /\ stage' = stage /\ release' = r
  BY DEF Deploy
<1>3. UNCHANGED <<ran, recorded, step, connected, cursor, ready, uses, held, turn, closed, cancelled, faults>>
  BY DEF Deploy, diskVars, startVars, closeVars
<1>4. ApplicationTypeOK'
  BY <1>1, <1>2, <1>3 DEF ApplicationTypeOK
<1>5. SchemaIsSound' /\ ScriptInv' /\ HeldInv' /\ TurnInv'
  BY <1>1, <1>2, <1>3 DEF SchemaIsSound, ScriptInv, HeldInv, TurnInv
<1> QED
  BY <1>4, <1>5 DEF LifeInv

-----------------------------------------------------------------------------

\* Every step keeps the invariant.
LEMMA NextLifeInv == LifeInv /\ [Next]_vars => LifeInv'
<1> SUFFICES ASSUME LifeInv, [Next]_vars PROVE LifeInv'
  OBVIOUS
<1>1. CASE \E u \in Compositions : Boot(u)
  BY <1>1, BootKeeps
<1>2. CASE Migrate
  BY <1>2, ConnectKeeps, RunStatementKeeps, RecordVersionKeeps DEF Migrate
<1>3. CASE Succeed
  BY <1>3, SucceedKeeps
<1>4. CASE Close
  BY <1>4, CloseKeeps
<1>5. CASE End
  BY <1>5, EndKeeps
<1>6. CASE Fail \/ Shutdown
  BY <1>6, ClosingBegins
<1>7. CASE CancelClose
  BY <1>7, CancelCloseKeeps
<1>8. CASE Exit \/ Crash
  BY <1>8, DownKeeps
<1>9. CASE \E r \in 1 .. MaxRelease : Deploy(r)
  BY <1>9, DeployKeeps
<1>10. CASE UNCHANGED vars
  BY <1>10 DEF vars, diskVars, startVars, closeVars, LifeInv, ApplicationTypeOK, SchemaIsSound,
     ScriptInv, HeldInv, TurnInv, Opened, Unreturned, Pending, Current
<1> QED
  BY <1>1, <1>2, <1>3, <1>4, <1>5, <1>6, <1>7, <1>8, <1>9, <1>10 DEF Next, Forward

\* The inductive invariant holds in every behaviour.
THEOREM LifeInvariant == Spec => []LifeInv
BY InitLifeInv, NextLifeInv, PTL DEF Spec

\* Type correctness.
THEOREM ApplicationTypeCorrect == Spec => []ApplicationTypeOK
<1>1. LifeInv => ApplicationTypeOK
  BY DEF LifeInv
<1> QED
  BY <1>1, LifeInvariant, PTL

\* Whatever crashes and whichever releases are deployed, recorded migrations are
\* in effect and none was begun before the earlier ones were recorded.
THEOREM SchemaIsAlwaysSound == Spec => []SchemaIsSound
<1>1. LifeInv => SchemaIsSound
  BY DEF LifeInv
<1> QED
  BY <1>1, LifeInvariant, PTL

\* An application that serves is complete.
THEOREM NeverServesHalfAlways == Spec => []NeverServesHalf
<1>1. ASSUME LifeInv PROVE NeverServesHalf
  <2> SUFFICES ASSUME stage = "serving"
               PROVE  /\ ready
                      /\ 1 .. release \subseteq recorded
                      /\ \A r \in Resource : uses[r] = "owned" => r \in held
                      /\ closed = {}
    BY DEF NeverServesHalf
  <2>1. ready /\ closed = {}
    BY <1>1 DEF LifeInv, HeldInv, TurnInv
  <2>2. 1 .. release \subseteq recorded
    BY <1>1 DEF LifeInv, HeldInv, Pending
  <2>3. Opened \subseteq held /\ step = 7
    BY <1>1 DEF LifeInv, HeldInv, Unreturned
  <2>4. ASSUME NEW r \in Resource, uses[r] = "owned" PROVE r \in Opened
    <3>1. r = "provider" \/ \E i \in 1 .. 6 : Steps[i] = r
      BY Orders DEF Resource
    <3> QED
      BY <2>3, <2>4, <3>1 DEF Opened
  <2> QED
    BY <2>1, <2>2, <2>3, <2>4
<1> QED
  BY <1>1, LifeInvariant, PTL

\* A lifespan that ends has closed what was opened for it and nothing else, except
\* the connection of a bootstrap that raised.
THEOREM ClosesWhatItOwnsAlways == Spec => []ClosesWhatItOwns
<1>1. ASSUME LifeInv PROVE ClosesWhatItOwns
  <2>1. \A r \in closed : uses[r] = "owned"
    BY <1>1 DEF LifeInv, TurnInv
  <2>2. ASSUME stage = "ended", NEW i \in 1 .. 5, CloseOrder[i] \in Opened \ Unreturned,
               ~cancelled \/ i <= turn
        PROVE  CloseOrder[i] \in closed
    <3>1. CloseOrder[i] \in held /\ uses[CloseOrder[i]] = "owned"
      BY <1>1, <2>2 DEF LifeInv, HeldInv, Opened
    <3>2. turn \in 1 .. 6
      BY <1>1, Orders DEF LifeInv, ApplicationTypeOK
    <3>3. i \in 1 .. turn - 1 \/ (cancelled /\ i = turn)
      BY <1>1, <2>2, <3>2 DEF LifeInv, TurnInv
    <3> QED
      BY <1>1, <3>1, <3>3 DEF LifeInv, TurnInv
  <2> QED
    BY <2>1, <2>2, Orders DEF ClosesWhatItOwns
<1> QED
  BY <1>1, LifeInvariant, PTL

-----------------------------------------------------------------------------
(* Telemetry: what a unit tells the sink.                                  *)

Prompt == {"started", "gauge", "corpus", "token"}
SinkEvent == Prompt \cup {"outcome", "usage", "cost"}
ToldOnce == {"started", "corpus", "token", "outcome"}

Has(s, event) == \E i \in 1 .. Len(s) : s[i] = event
AllPrompt(s) == \A i \in 1 .. Len(s) : s[i] \in Prompt

\* What the sink was told of one response: OneOutcomeLast, of a sequence.
Orderly(s) ==
  /\ s \in Seq(SinkEvent)
  /\ \A i, j \in 1 .. Len(s) : s[i] = s[j] /\ s[i] \in ToldOnce => i = j
  /\ \A i, j \in 1 .. Len(s) :
       i < j => /\ s[i] = "outcome" => s[j] \in {"usage", "cost"}
                /\ s[i] = "cost" => s[j] = "cost"

\* When an event may be told after what was told already.
MayFollow(s, event) ==
  /\ event \in SinkEvent
  /\ event \in ToldOnce => ~ Has(s, event)
  /\ event \in Prompt \cup {"outcome"} => AllPrompt(s)
  /\ event = "usage" => ~ Has(s, "cost")

LEMMA ToldOneMore ==
  ASSUME NEW s, NEW event, Orderly(s), MayFollow(s, event)
  PROVE  /\ Orderly(Append(s, event))
         /\ \A e : Has(Append(s, event), e) <=> Has(s, e) \/ e = event
         /\ AllPrompt(s) /\ event \in Prompt => AllPrompt(Append(s, event))
<1> DEFINE t == Append(s, event)
<1>1. s \in Seq(SinkEvent) /\ event \in SinkEvent /\ Len(s) \in Nat
  BY DEF Orderly, MayFollow
<1>2. /\ t \in Seq(SinkEvent) /\ Len(t) = Len(s) + 1 /\ t[Len(s) + 1] = event
      /\ \A i \in 1 .. Len(s) : t[i] = s[i]
  BY <1>1
<1> HIDE DEF t
<1>3. \A i \in 1 .. Len(t) : i \in 1 .. Len(s) \/ i = Len(s) + 1
  BY <1>1, <1>2
<1>4. \A i \in 1 .. Len(s) : i \in 1 .. Len(t) /\ i < Len(s) + 1
  BY <1>1, <1>2
<1>5. Len(s) + 1 \in 1 .. Len(t) BY <1>1, <1>2
<1>6. \A e : Has(t, e) <=> Has(s, e) \/ e = event
  BY <1>2, <1>3, <1>4, <1>5 DEF Has
<1>7. AllPrompt(s) /\ event \in Prompt => AllPrompt(t)
  BY <1>2, <1>3 DEF AllPrompt
<1>8. ASSUME NEW i \in 1 .. Len(t), NEW j \in 1 .. Len(t), t[i] = t[j], t[i] \in ToldOnce
      PROVE  i = j
  <2>1. CASE i \in 1 .. Len(s) /\ j \in 1 .. Len(s)
    BY <1>2, <1>8, <2>1 DEF Orderly
  <2>2. CASE i = Len(s) + 1 /\ j = Len(s) + 1 BY <2>2
  <2>3. ASSUME NEW k \in 1 .. Len(s), t[k] = event, event \in ToldOnce PROVE FALSE
    BY <1>2, <2>3 DEF MayFollow, Has
  <2> QED BY <1>2, <1>3, <1>8, <2>1, <2>2, <2>3
<1>9. ASSUME NEW i \in 1 .. Len(t), NEW j \in 1 .. Len(t), i < j
      PROVE  /\ t[i] = "outcome" => t[j] \in {"usage", "cost"}
             /\ t[i] = "cost" => t[j] = "cost"
  <2>1. i \in 1 .. Len(s) BY <1>1, <1>2, <1>9
  <2>2. CASE j \in 1 .. Len(s) BY <1>2, <1>9, <2>1, <2>2 DEF Orderly
  <2>3. CASE j = Len(s) + 1
    <3>1. t[j] = event /\ t[i] = s[i] BY <1>2, <2>1, <2>3
    <3>2. ~ AllPrompt(s) => event \in {"usage", "cost"}
      BY DEF MayFollow, SinkEvent
    <3>3. s[i] \in {"outcome", "cost"} => ~ AllPrompt(s)
      BY <2>1 DEF AllPrompt, Prompt
    <3>4. s[i] = "cost" => Has(s, "cost") BY <2>1 DEF Has
    <3> QED BY <3>1, <3>2, <3>3, <3>4 DEF MayFollow
  <2> QED BY <1>3, <2>2, <2>3
<1> QED BY <1>2, <1>6, <1>7, <1>8, <1>9 DEF Orderly, t

UnitState == [told : Seq(SinkEvent), fused : BOOLEAN, raised : BOOLEAN]

LEMMA Prefixes ==
  ASSUME NEW a \in SinkEvent, NEW b \in SinkEvent
  PROVE  /\ SubSeq(<<a>>, 1, 0) = <<>> /\ SubSeq(<<a>>, 1, 1) = <<a>>
         /\ SubSeq(<<a, b>>, 1, 0) = <<>> /\ SubSeq(<<a, b>>, 1, 1) = <<a>>
         /\ SubSeq(<<a, b>>, 1, 2) = <<a, b>>
<1>1. <<a>> \in Seq(SinkEvent) /\ Len(<<a>>) = 1 OBVIOUS
<1>2. <<a, b>> \in Seq(SinkEvent) /\ Len(<<a, b>>) = 2 /\ <<a, b>>[1] = a OBVIOUS
<1>3. \A s : SubSeq(s, 1, 0) = <<>> BY SubSeqEmpty
<1>4. SubSeq(<<a>>, 1, 1) = <<a>> BY <1>1, SubSeqFull
<1>5. SubSeq(<<a, b>>, 1, 2) = <<a, b>> BY <1>2, SubSeqFull
<1>6. SubSeq(<<a, b>>, 1, 1) = <<a>>
  <2>1. SubSeq(<<a, b>>, 1, 1) = SubSeq(<<a, b>>, 1, 1 - 1) \o << <<a, b>>[1] >>
    <3>1. 1 \in 1 .. Len(<<a, b>>) /\ 1 \in 1 .. Len(<<a, b>>) BY <1>2
    <3> QED BY <1>2, <3>1, SubSeqRecursiveSecond
  <2>2. <<>> \o <<a>> = <<a>> OBVIOUS
  <2>3. 1 - 1 = 0 OBVIOUS
  <2> QED BY <1>2, <1>3, <2>1, <2>2, <2>3
<1> QED BY <1>3, <1>4, <1>5, <1>6

\* A delivery of one event, of two: what of it the sink took, and that only a
\* failure keeps anything from it.
LEMMA DeliverOne ==
  ASSUME NEW s \in UnitState, NEW a \in SinkEvent,
         NEW d \in {Telemetry!Well} \cup Telemetry!Fault(1)
  PROVE  LET t == Telemetry!Deliver(s, <<a>>, d)
         IN /\ t \in UnitState
            /\ t.told = s.told \/ t.told = Append(s.told, a)
            /\ s.fused => t.fused
            /\ s.raised => t.raised
            /\ ~ t.fused /\ ~ t.raised => t.told = Append(s.told, a)
            /\ s.raised \/ s.fused => t = s
<1> DEFINE t == Telemetry!Deliver(s, <<a>>, d)
<1>1. <<a>> # <<>> /\ s.told \in Seq(SinkEvent) BY DEF UnitState
<1>2. s.told \o <<a>> = Append(s.told, a) /\ Append(s.told, a) \in Seq(SinkEvent)
  BY <1>1
<1>3. CASE s.raised \/ s.fused
  BY <1>3 DEF Telemetry!Deliver
<1>4. CASE ~ (s.raised \/ s.fused) /\ d = Telemetry!Well
  <2>1. t = [s EXCEPT !.told = Append(s.told, a)] BY <1>1, <1>2, <1>4 DEF Telemetry!Deliver
  <2> HIDE DEF t
  <2>2. t \in UnitState /\ t.told = Append(s.told, a) /\ t.fused = s.fused /\ t.raised = s.raised
    BY <1>2, <2>1 DEF UnitState
  <2> QED BY <1>4, <2>2 DEF t
<1>5. CASE ~ (s.raised \/ s.fused) /\ d # Telemetry!Well
  <2>1. d \in [how : {"fails", "raises"}, taken : 0 .. 1] BY <1>5 DEF Telemetry!Fault
  <2>2. t = [told |-> s.told \o SubSeq(<<a>>, 1, d.taken),
             fused |-> d.how = "fails", raised |-> d.how = "raises"]
    BY <1>1, <1>5 DEF Telemetry!Deliver
  <2>3. d.taken = 0 \/ d.taken = 1 BY <2>1
  <2>4. SubSeq(<<a>>, 1, 0) = <<>> /\ SubSeq(<<a>>, 1, 1) = <<a>> BY Prefixes
  <2>5. s.told \o <<>> = s.told BY <1>1
  <2> DEFINE u == s.told \o SubSeq(<<a>>, 1, d.taken)
  <2>6. u = s.told \/ u = Append(s.told, a)
    BY <1>2, <2>3, <2>4, <2>5
  <2> HIDE DEF u, t
  <2>7. /\ t.told = u /\ t.fused \in BOOLEAN /\ t.raised \in BOOLEAN
        /\ (t.fused \/ t.raised) /\ t \in UnitState
    <3>1. u \in Seq(SinkEvent) BY <1>1, <1>2, <2>6
    <3>2. CASE d.how = "fails"
      <4>1. t = [told |-> u, fused |-> TRUE, raised |-> FALSE] BY <2>2, <3>2 DEF u
      <4> QED BY <3>1, <4>1 DEF UnitState
    <3>3. CASE d.how = "raises"
      <4>1. t = [told |-> u, fused |-> FALSE, raised |-> TRUE] BY <2>2, <3>3 DEF u
      <4> QED BY <3>1, <4>1 DEF UnitState
    <3> QED BY <2>1, <3>2, <3>3
  <2> QED BY <1>5, <2>6, <2>7 DEF t
<1> QED BY <1>3, <1>4, <1>5

LEMMA DeliverTwo ==
  ASSUME NEW s \in UnitState, NEW a \in SinkEvent, NEW b \in SinkEvent,
         NEW d \in {Telemetry!Well} \cup Telemetry!Fault(2)
  PROVE  LET t == Telemetry!Deliver(s, <<a, b>>, d)
         IN /\ t \in UnitState
            /\ \/ t.told = s.told
               \/ t.told = Append(s.told, a)
               \/ t.told = Append(Append(s.told, a), b)
            /\ s.fused => t.fused
            /\ s.raised => t.raised
            /\ ~ t.fused /\ ~ t.raised => t.told = Append(Append(s.told, a), b)
            /\ s.raised \/ s.fused => t = s
<1> DEFINE t == Telemetry!Deliver(s, <<a, b>>, d)
<1>1. <<a, b>> # <<>> /\ s.told \in Seq(SinkEvent) BY DEF UnitState
<1>2. /\ s.told \o <<a>> = Append(s.told, a)
      /\ Append(s.told, a) \in Seq(SinkEvent)
      /\ s.told \o <<a, b>> = Append(Append(s.told, a), b)
      /\ Append(Append(s.told, a), b) \in Seq(SinkEvent)
  BY <1>1
<1>3. CASE s.raised \/ s.fused
  BY <1>3 DEF Telemetry!Deliver
<1>4. CASE ~ (s.raised \/ s.fused) /\ d = Telemetry!Well
  <2>1. t = [s EXCEPT !.told = Append(Append(s.told, a), b)]
    BY <1>1, <1>2, <1>4 DEF Telemetry!Deliver
  <2> HIDE DEF t
  <2>2. /\ t \in UnitState /\ t.told = Append(Append(s.told, a), b)
        /\ t.fused = s.fused /\ t.raised = s.raised
    BY <1>2, <2>1 DEF UnitState
  <2> QED BY <1>4, <2>2 DEF t
<1>5. CASE ~ (s.raised \/ s.fused) /\ d # Telemetry!Well
  <2>1. d \in [how : {"fails", "raises"}, taken : 0 .. 2] BY <1>5 DEF Telemetry!Fault
  <2>2. t = [told |-> s.told \o SubSeq(<<a, b>>, 1, d.taken),
             fused |-> d.how = "fails", raised |-> d.how = "raises"]
    BY <1>1, <1>5 DEF Telemetry!Deliver
  <2>3. d.taken = 0 \/ d.taken = 1 \/ d.taken = 2 BY <2>1
  <2>4. /\ SubSeq(<<a, b>>, 1, 0) = <<>> /\ SubSeq(<<a, b>>, 1, 1) = <<a>>
        /\ SubSeq(<<a, b>>, 1, 2) = <<a, b>>
    BY Prefixes
  <2>5. s.told \o <<>> = s.told BY <1>1
  <2> DEFINE u == s.told \o SubSeq(<<a, b>>, 1, d.taken)
  <2>6. u = s.told \/ u = Append(s.told, a) \/ u = Append(Append(s.told, a), b)
    BY <1>2, <2>3, <2>4, <2>5
  <2> HIDE DEF u, t
  <2>7. /\ t.told = u /\ t.fused \in BOOLEAN /\ t.raised \in BOOLEAN
        /\ (t.fused \/ t.raised) /\ t \in UnitState
    <3>1. u \in Seq(SinkEvent) BY <1>1, <1>2, <2>6
    <3>2. CASE d.how = "fails"
      <4>1. t = [told |-> u, fused |-> TRUE, raised |-> FALSE] BY <2>2, <3>2 DEF u
      <4> QED BY <3>1, <4>1 DEF UnitState
    <3>3. CASE d.how = "raises"
      <4>1. t = [told |-> u, fused |-> FALSE, raised |-> TRUE] BY <2>2, <3>3 DEF u
      <4> QED BY <3>1, <4>1 DEF UnitState
    <3> QED BY <2>1, <3>2, <3>3
  <2> QED BY <1>5, <2>6, <2>7 DEF t
<1> QED BY <1>3, <1>4, <1>5

-----------------------------------------------------------------------------
(* Telemetry: its inductive invariant.                                     *)

UnitPlace == {"new", "open", "closing", "settled", "ended"}
UnitRecord ==
  [at : UnitPlace, fused : BOOLEAN, finished : BOOLEAN, held : BOOLEAN, first : BOOLEAN,
   corpus : BOOLEAN, summary : {"none", "ours", "foreign"}, raised : BOOLEAN, rejected : BOOLEAN]

\* A unit and what the sink was told of it.
UnitSound(u, s) ==
  /\ u \in UnitRecord /\ Orderly(s)
  /\ u.at = "new" => s = <<>>
  /\ u.at # "ended" => AllPrompt(s)
  /\ Has(s, "corpus") => u.corpus
  /\ Has(s, "token") => u.first
  /\ u.held <=> u.at \in {"open", "closing", "settled"}
  /\ u.at \in {"new", "open", "closing"} => u.summary = "none"
  /\ u.at = "ended" /\ u.summary = "ours" /\ ~ u.fused /\ ~ u.raised => Has(s, "outcome")

UnitsInv ==
  /\ unit \in [Request -> UnitRecord]
  /\ told \in [Request -> Seq(SinkEvent)]
  /\ \A r \in Request : UnitSound(unit[r], told[r])

TrackerInv ==
  /\ IsFiniteSet(Telemetry!Counted)
  /\ active = Cardinality(Telemetry!Counted)
  /\ mover # None => mover \in Request /\ unit[mover].at # "new"
  /\ Telemetry!StaleOnlyByFault

TelemetryInv == UnitsInv /\ TrackerInv

LEMMA NothingTold ==
  /\ Orderly(<<>>) /\ AllPrompt(<<>>)
  /\ \A e : ~ Has(<<>>, e)
BY DEF Orderly, AllPrompt, Has

LEMMA TelemetryInitial ==
  ASSUME Telemetry!Init
  PROVE  TelemetryInv
<1>1. Telemetry!Absent \in UnitRecord BY DEF Telemetry!Absent, UnitRecord, UnitPlace
<1>2. UnitsInv
  BY <1>1, NothingTold DEF Telemetry!Init, UnitsInv, UnitSound, Telemetry!Absent
<1>3. Telemetry!Counted = {} BY DEF Telemetry!Init, Telemetry!Counted, Telemetry!Absent
<1>4. TrackerInv
  BY <1>3, FS_EmptySet DEF Telemetry!Init, TrackerInv, Telemetry!StaleOnlyByFault
<1> QED BY <1>2, <1>4 DEF TelemetryInv

\* A step of one response.
LEMMA OneUnit ==
  ASSUME UnitsInv, NEW r \in Request, NEW u, NEW s, UnitSound(u, s),
         unit' = [unit EXCEPT ![r] = u], told' = [told EXCEPT ![r] = s]
  PROVE  /\ UnitsInv'
         /\ unit'[r] = u
         /\ \A q \in Request : q # r => unit'[q] = unit[q]
         /\ Telemetry!Counted' =
              IF u.held THEN Telemetry!Counted \cup {r} ELSE Telemetry!Counted \ {r}
<1>1. u \in UnitRecord /\ s \in Seq(SinkEvent) BY DEF UnitSound, Orderly
<1>2. /\ unit' \in [Request -> UnitRecord] /\ unit'[r] = u
      /\ \A q \in Request : q # r => unit'[q] = unit[q]
  BY <1>1 DEF UnitsInv
<1>3. /\ told' \in [Request -> Seq(SinkEvent)] /\ told'[r] = s
      /\ \A q \in Request : q # r => told'[q] = told[q]
  BY <1>1 DEF UnitsInv
<1>4. UnitsInv' BY <1>2, <1>3 DEF UnitsInv
<1>5. /\ \A q : q \in Telemetry!Counted' <=> q \in Request /\ unit'[q].held
      /\ \A q : q \in Telemetry!Counted <=> q \in Request /\ unit[q].held
  BY DEF Telemetry!Counted
<1>6. \A q : q \in Telemetry!Counted' <=>
             IF q = r THEN u.held ELSE q \in Telemetry!Counted
  BY <1>2, <1>5
<1>7. Telemetry!Counted' =
        IF u.held THEN Telemetry!Counted \cup {r} ELSE Telemetry!Counted \ {r}
  <2>1. CASE u.held BY <1>6, <2>1
  <2>2. CASE ~ u.held BY <1>6, <2>2
  <2> QED BY <2>1, <2>2
<1> QED BY <1>2, <1>4, <1>7

\* A step that neither enters nor leaves.
LEMMA TrackerStays ==
  ASSUME UnitsInv, TrackerInv, NEW r \in Request, NEW u,
         unit'[r] = u, \A q \in Request : q # r => unit'[q] = unit[q],
         Telemetry!Counted' = (IF u.held THEN Telemetry!Counted \cup {r} ELSE Telemetry!Counted \ {r}),
         u.held <=> unit[r].held, u.at # "new",
         unit[r].fused => u.fused, unit[r].raised => u.raised,
         UNCHANGED <<active, gauge, mover>>
  PROVE  TrackerInv'
<1>1. Telemetry!Counted' = Telemetry!Counted BY DEF Telemetry!Counted
<1>2. mover # None => unit'[mover].at # "new"
  BY DEF TrackerInv
<1>3. Telemetry!StaleOnlyByFault' BY DEF TrackerInv, Telemetry!StaleOnlyByFault
<1> QED BY <1>1, <1>2, <1>3 DEF TrackerInv

LEMMA TellingIs ==
  ASSUME UnitsInv, NEW r \in Request
  PROVE  /\ Telemetry!Telling(r) \in UnitState
         /\ Telemetry!Telling(r).told = told[r]
         /\ Telemetry!Telling(r).fused = unit[r].fused
         /\ Telemetry!Telling(r).raised = FALSE
BY DEF Telemetry!Telling, UnitsInv, UnitRecord, UnitState

LEMMA DeliveriesAre ==
  ASSUME NEW n
  PROVE  Telemetry!Deliveries(n) \subseteq {Telemetry!Well} \cup Telemetry!Fault(n)
BY DEF Telemetry!Deliveries

LEMMA SettleTelemetryKeeps ==
  ASSUME TelemetryInv, NEW r \in Request, Telemetry!CloseStream(r) \/ Telemetry!Settle(r)
  PROVE  TelemetryInv'
<1> USE DEF TelemetryInv
<1>1. UnitSound(unit[r], told[r]) /\ unit[r] \in UnitRecord BY DEF UnitsInv
<1>2. PICK u :
        /\ UnitSound(u, told[r]) /\ u.held = unit[r].held /\ u.at # "new"
        /\ u.fused = unit[r].fused /\ u.raised = unit[r].raised
        /\ unit' = [unit EXCEPT ![r] = u]
  <2>1. CASE Telemetry!CloseStream(r)
    <3> DEFINE u == [unit[r] EXCEPT !.at = "closing"]
    <3>1. unit[r].at = "open" /\ unit' = [unit EXCEPT ![r] = u]
      BY <2>1 DEF Telemetry!CloseStream, Telemetry!At
    <3>2. /\ u \in UnitRecord /\ u.at = "closing" /\ u.held = unit[r].held
          /\ u.fused = unit[r].fused /\ u.raised = unit[r].raised /\ u.summary = unit[r].summary
          /\ u.corpus = unit[r].corpus /\ u.first = unit[r].first
      BY <1>1 DEF UnitRecord, UnitPlace
    <3> HIDE DEF u
    <3>3. UnitSound(u, told[r]) BY <1>1, <3>1, <3>2 DEF UnitSound
    <3> QED BY <3>1, <3>2, <3>3
  <2>2. CASE Telemetry!Settle(r)
    <3>1. PICK summ \in {"none", "ours", "foreign"} :
            unit' = [unit EXCEPT ![r].at = "settled", ![r].summary = summ]
      BY <2>2 DEF Telemetry!Settle
    <3> DEFINE u == [unit[r] EXCEPT !.at = "settled", !.summary = summ]
    <3>2. unit[r].at = "closing" /\ unit' = [unit EXCEPT ![r] = u]
      BY <2>2, <3>1 DEF Telemetry!Settle, Telemetry!At, UnitsInv
    <3>3. /\ u \in UnitRecord /\ u.at = "settled" /\ u.held = unit[r].held
          /\ u.fused = unit[r].fused /\ u.raised = unit[r].raised
          /\ u.corpus = unit[r].corpus /\ u.first = unit[r].first
      BY <1>1 DEF UnitRecord, UnitPlace
    <3> HIDE DEF u
    <3>4. UnitSound(u, told[r]) BY <1>1, <3>2, <3>3 DEF UnitSound
    <3> QED BY <3>2, <3>3, <3>4
  <2> QED BY <2>1, <2>2
<1>3. told' = told /\ UNCHANGED <<active, gauge, mover>>
  BY DEF Telemetry!CloseStream, Telemetry!Settle
<1>4. told' = [told EXCEPT ![r] = told[r]] BY <1>3 DEF UnitsInv
<1>5. /\ UnitsInv' /\ unit'[r] = u /\ \A q \in Request : q # r => unit'[q] = unit[q]
      /\ Telemetry!Counted' =
           IF u.held THEN Telemetry!Counted \cup {r} ELSE Telemetry!Counted \ {r}
  BY <1>2, <1>4, OneUnit
<1>6. TrackerInv' BY <1>2, <1>3, <1>5, TrackerStays
<1> QED BY <1>5, <1>6

\* A unit that told an event while its response streams, or none.
LEMMA TellingKeeps ==
  ASSUME TelemetryInv, NEW r \in Request, unit[r].at = "open",
         NEW seen \in UnitRecord, NEW t \in UnitState,
         seen.at = "open", seen.held = unit[r].held, seen.fused = unit[r].fused,
         seen.raised = unit[r].raised, seen.summary = unit[r].summary,
         Orderly(t.told), AllPrompt(t.told),
         Has(t.told, "corpus") => seen.corpus, Has(t.told, "token") => seen.first,
         unit[r].fused => t.fused,
         unit' = [unit EXCEPT ![r] = [seen EXCEPT !.fused = t.fused,
                                                  !.at = IF t.raised THEN "closing" ELSE @]],
         told' = [told EXCEPT ![r] = t.told],
         UNCHANGED <<active, gauge, mover>>
  PROVE  TelemetryInv'
<1> USE DEF TelemetryInv
<1>1. UnitSound(unit[r], told[r]) BY DEF UnitsInv
<1> DEFINE u == [seen EXCEPT !.fused = t.fused, !.at = IF t.raised THEN "closing" ELSE @]
<1>2. unit' = [unit EXCEPT ![r] = u] OBVIOUS
<1>3. /\ u \in UnitRecord /\ u.at \in {"open", "closing"} /\ u.held = unit[r].held
      /\ u.fused = t.fused /\ u.raised = unit[r].raised /\ u.summary = unit[r].summary
      /\ u.corpus = seen.corpus /\ u.first = seen.first
  BY DEF UnitRecord, UnitPlace, UnitState
<1> HIDE DEF u
<1>4. UnitSound(u, t.told) BY <1>1, <1>3 DEF UnitSound
<1>5. /\ UnitsInv' /\ unit'[r] = u /\ \A q \in Request : q # r => unit'[q] = unit[q]
      /\ Telemetry!Counted' =
           IF u.held THEN Telemetry!Counted \cup {r} ELSE Telemetry!Counted \ {r}
  <2>1. UnitsInv /\ told' = [told EXCEPT ![r] = t.told] OBVIOUS
  <2> HIDE DEF TelemetryInv
  <2>2. PICK s : s = t.told OBVIOUS
  <2>3. UnitSound(u, s) /\ told' = [told EXCEPT ![r] = s] BY <1>4, <2>1, <2>2
  <2> QED BY ONLY <1>2, <2>1, <2>3, OneUnit
<1>6. /\ u.held <=> unit[r].held
      /\ u.at # "new"
      /\ unit[r].fused => u.fused
      /\ unit[r].raised => u.raised
  BY <1>3
<1>7. TrackerInv' BY <1>5, <1>6, TrackerStays
<1> QED BY <1>5, <1>7

\* Telling one prompt event after prompt events.
LEMMA PromptTold ==
  ASSUME NEW s \in UnitState, Orderly(s.told), AllPrompt(s.told),
         NEW a \in Prompt, a \in ToldOnce => ~ Has(s.told, a),
         NEW d \in Telemetry!Deliveries(1)
  PROVE  LET t == Telemetry!Deliver(s, <<a>>, d)
         IN /\ t \in UnitState /\ Orderly(t.told) /\ AllPrompt(t.told)
            /\ \A e : Has(t.told, e) => Has(s.told, e) \/ e = a
            /\ s.fused => t.fused
            /\ s.raised => t.raised
            /\ ~ t.fused /\ ~ t.raised => Len(t.told) > Len(s.told)
            /\ s.raised \/ s.fused => t = s
<1> DEFINE t == Telemetry!Deliver(s, <<a>>, d)
<1>1. a \in SinkEvent /\ d \in {Telemetry!Well} \cup Telemetry!Fault(1)
  BY DeliveriesAre DEF SinkEvent
<1>2. /\ t \in UnitState
      /\ t.told = s.told \/ t.told = Append(s.told, a)
      /\ s.fused => t.fused
      /\ s.raised => t.raised
      /\ ~ t.fused /\ ~ t.raised => t.told = Append(s.told, a)
      /\ s.raised \/ s.fused => t = s
  BY <1>1, DeliverOne
<1>3. MayFollow(s.told, a) BY <1>1 DEF MayFollow, Prompt
<1>4. /\ Orderly(Append(s.told, a)) /\ AllPrompt(Append(s.told, a))
      /\ \A e : Has(Append(s.told, a), e) <=> Has(s.told, e) \/ e = a
  BY <1>3, ToldOneMore
<1>5. Len(Append(s.told, a)) > Len(s.told) BY DEF Orderly
<1> HIDE DEF t
<1> QED BY <1>2, <1>4, <1>5 DEF t

LEMMA CorpusKeeps ==
  ASSUME TelemetryInv, NEW r \in Request, Telemetry!Corpus(r)
  PROVE  TelemetryInv'
<1>1. /\ UnitSound(unit[r], told[r]) /\ unit[r] \in UnitRecord /\ UnitsInv
  BY DEF TelemetryInv, UnitsInv
<1> DEFINE seen == [unit[r] EXCEPT !.corpus = TRUE]
           s == Telemetry!Telling(r)
<1>2. unit[r].at = "open" /\ ~ unit[r].corpus /\ Telemetry!Tells(r, <<"corpus">>, seen)
  BY DEF Telemetry!Corpus, Telemetry!At
<1>3. PICK d \in Telemetry!Deliveries(1) :
        LET t == Telemetry!Deliver(s, <<"corpus">>, d)
        IN /\ unit' = [unit EXCEPT ![r] = [seen EXCEPT !.fused = t.fused,
                                                       !.at = IF t.raised THEN "closing" ELSE @]]
           /\ told' = [told EXCEPT ![r] = t.told]
           /\ UNCHANGED <<active, gauge, mover>>
  BY <1>2, Zenon DEF Telemetry!Tells
<1>4. s \in UnitState /\ s.told = told[r] /\ s.fused = unit[r].fused BY <1>1, TellingIs
<1>5. /\ seen \in UnitRecord /\ seen.at = "open" /\ seen.held = unit[r].held
      /\ seen.fused = unit[r].fused /\ seen.raised = unit[r].raised
      /\ seen.summary = unit[r].summary /\ seen.corpus = TRUE /\ seen.first = unit[r].first
  BY <1>1, <1>2 DEF UnitRecord
<1> HIDE DEF seen, s
<1>6. /\ Orderly(s.told) /\ AllPrompt(s.told) /\ ~ Has(s.told, "corpus")
      /\ Has(s.told, "token") => unit[r].first
  BY <1>1, <1>2, <1>4 DEF UnitSound
<1> DEFINE t == Telemetry!Deliver(s, <<"corpus">>, d)
<1>7. /\ t \in UnitState /\ Orderly(t.told) /\ AllPrompt(t.told)
      /\ \A e : Has(t.told, e) => Has(s.told, e) \/ e = "corpus"
      /\ s.fused => t.fused
  <2>1. "corpus" \in Prompt BY DEF Prompt
  <2> QED BY <1>4, <1>6, <2>1, PromptTold
<1>8. /\ unit' = [unit EXCEPT ![r] = [seen EXCEPT !.fused = t.fused,
                                                  !.at = IF t.raised THEN "closing" ELSE @]]
      /\ told' = [told EXCEPT ![r] = t.told]
      /\ UNCHANGED <<active, gauge, mover>>
  BY <1>3
<1> HIDE DEF t
<1>9. Has(t.told, "token") => seen.first BY <1>5, <1>6, <1>7
<1> QED BY <1>2, <1>4, <1>5, <1>7, <1>8, <1>9, TellingKeeps

LEMMA FirstTokenKeeps ==
  ASSUME TelemetryInv, NEW r \in Request, Telemetry!FirstToken(r)
  PROVE  TelemetryInv'
<1>1. /\ UnitSound(unit[r], told[r]) /\ unit[r] \in UnitRecord /\ UnitsInv
  BY DEF TelemetryInv, UnitsInv
<1> DEFINE seen == [unit[r] EXCEPT !.first = TRUE]
           s == Telemetry!Telling(r)
<1>2. /\ unit[r].at = "open" /\ ~ unit[r].first
      /\ Telemetry!Tells(r, <<"token">>, seen) \/ Telemetry!Tells(r, <<>>, seen)
  BY DEF Telemetry!FirstToken, Telemetry!At
<1>4. s \in UnitState /\ s.told = told[r] /\ s.fused = unit[r].fused BY <1>1, TellingIs
<1>5. /\ seen \in UnitRecord /\ seen.at = "open" /\ seen.held = unit[r].held
      /\ seen.fused = unit[r].fused /\ seen.raised = unit[r].raised
      /\ seen.summary = unit[r].summary /\ seen.corpus = unit[r].corpus /\ seen.first = TRUE
  BY <1>1, <1>2 DEF UnitRecord
<1>6. /\ Orderly(s.told) /\ AllPrompt(s.told) /\ ~ Has(s.told, "token")
      /\ Has(s.told, "corpus") => unit[r].corpus
  BY <1>1, <1>2, <1>4 DEF UnitSound
<1>7. PICK t \in UnitState :
        /\ Orderly(t.told) /\ AllPrompt(t.told)
        /\ Has(t.told, "corpus") => Has(s.told, "corpus")
        /\ s.fused => t.fused
        /\ unit' = [unit EXCEPT ![r] = [seen EXCEPT !.fused = t.fused,
                                                    !.at = IF t.raised THEN "closing" ELSE @]]
        /\ told' = [told EXCEPT ![r] = t.told]
        /\ UNCHANGED <<active, gauge, mover>>
  <2>1. CASE Telemetry!Tells(r, <<"token">>, seen)
    <3>1. PICK d \in Telemetry!Deliveries(1) :
            LET t == Telemetry!Deliver(s, <<"token">>, d)
            IN /\ unit' = [unit EXCEPT ![r] = [seen EXCEPT !.fused = t.fused,
                                                           !.at = IF t.raised THEN "closing" ELSE @]]
               /\ told' = [told EXCEPT ![r] = t.told]
               /\ UNCHANGED <<active, gauge, mover>>
      BY <2>1, Zenon DEF Telemetry!Tells
    <3> DEFINE t == Telemetry!Deliver(s, <<"token">>, d)
    <3> HIDE DEF seen, s
    <3>2. "token" \in Prompt /\ "token" # "corpus" BY DEF Prompt
    <3>3. /\ t \in UnitState /\ Orderly(t.told) /\ AllPrompt(t.told)
          /\ \A e : Has(t.told, e) => Has(s.told, e) \/ e = "token"
          /\ s.fused => t.fused
      BY <1>4, <1>6, <3>2, PromptTold
    <3>4. /\ unit' = [unit EXCEPT ![r] = [seen EXCEPT !.fused = t.fused,
                                                      !.at = IF t.raised THEN "closing" ELSE @]]
          /\ told' = [told EXCEPT ![r] = t.told]
          /\ UNCHANGED <<active, gauge, mover>>
      BY <3>1
    <3> HIDE DEF t
    <3> QED BY <3>2, <3>3, <3>4
  <2>2. CASE Telemetry!Tells(r, <<>>, seen)
    <3>1. \A d : Telemetry!Deliver(s, <<>>, d) = s BY DEF Telemetry!Deliver
    <3>2. /\ unit' = [unit EXCEPT ![r] = [seen EXCEPT !.fused = s.fused,
                                                      !.at = IF s.raised THEN "closing" ELSE @]]
          /\ told' = [told EXCEPT ![r] = s.told]
          /\ UNCHANGED <<active, gauge, mover>>
      <4> HIDE DEF seen
      <4> QED BY <2>2, <3>1, Zenon DEF Telemetry!Tells
    <3> HIDE DEF seen, s
    <3> QED BY <1>4, <1>6, <3>2
  <2> QED BY <1>2, <2>1, <2>2
<1> HIDE DEF seen, s
<1> QED BY <1>2, <1>4, <1>5, <1>6, <1>7, TellingKeeps

LEMMA CreateKeeps ==
  ASSUME TelemetryInv, NEW r \in Request, Telemetry!Create(r)
  PROVE  TelemetryInv'
<1>1. UnitsInv /\ TrackerInv /\ UnitSound(unit[r], told[r]) /\ unit[r].at = "new"
  BY DEF TelemetryInv, UnitsInv, Telemetry!Create, Telemetry!At
<1> DEFINE s == Telemetry!Telling(r)
<1>2. s \in UnitState /\ s.told = <<>> /\ s.raised = FALSE
  BY <1>1, TellingIs DEF UnitSound
<1> HIDE DEF s
<1>3. PICK d \in Telemetry!Deliveries(1), e \in Telemetry!Deliveries(1) :
        LET s0 == Telemetry!Deliver(s, <<"started">>, d)
            s1 == Telemetry!Deliver(s0, <<"gauge">>, e)
            new == Telemetry!Entered(s1, IF s1.raised THEN "ended" ELSE "open")
            u == IF s0.raised THEN [Telemetry!Absent EXCEPT !.at = "ended", !.raised = TRUE]
                 ELSE [new EXCEPT !.raised = s1.raised]
        IN /\ unit' = [unit EXCEPT ![r] = u]
           /\ told' = [told EXCEPT ![r] = s1.told]
           /\ active' = IF unit'[r].held THEN active + 1 ELSE active
           /\ gauge' = IF Telemetry!Shown(s0, s1) THEN active + 1 ELSE gauge
           /\ mover' = IF s0.raised THEN mover ELSE r
  BY Zenon DEF Telemetry!Create, s
<1> DEFINE s0 == Telemetry!Deliver(s, <<"started">>, d)
           s1 == Telemetry!Deliver(s0, <<"gauge">>, e)
           new == Telemetry!Entered(s1, IF s1.raised THEN "ended" ELSE "open")
           u == IF s0.raised THEN [Telemetry!Absent EXCEPT !.at = "ended", !.raised = TRUE]
                ELSE [new EXCEPT !.raised = s1.raised]
<1>4. /\ unit' = [unit EXCEPT ![r] = u]
      /\ told' = [told EXCEPT ![r] = s1.told]
      /\ active' = IF unit'[r].held THEN active + 1 ELSE active
      /\ gauge' = IF Telemetry!Shown(s0, s1) THEN active + 1 ELSE gauge
      /\ mover' = IF s0.raised THEN mover ELSE r
  BY <1>3
<1>5. /\ s0 \in UnitState /\ Orderly(s0.told) /\ AllPrompt(s0.told)
      /\ \A v : Has(s0.told, v) => v = "started"
  <2>1. "started" \in Prompt /\ ~ Has(s.told, "started") BY <1>2, NothingTold DEF Prompt
  <2>2. Orderly(s.told) /\ AllPrompt(s.told) /\ \A v : ~ Has(s.told, v) BY <1>2, NothingTold
  <2> QED BY <1>2, <2>1, <2>2, PromptTold
<1> HIDE DEF s0
<1>6. /\ s1 \in UnitState /\ Orderly(s1.told) /\ AllPrompt(s1.told)
      /\ \A v : Has(s1.told, v) => v = "started" \/ v = "gauge"
      /\ s0.raised => s1 = s0
      /\ ~ s1.fused /\ ~ s1.raised => Len(s1.told) > Len(s0.told)
  <2>1. "gauge" \in Prompt /\ "gauge" \notin ToldOnce BY DEF Prompt, ToldOnce
  <2> QED BY <1>5, <2>1, PromptTold
<1> HIDE DEF s1
<1>7. /\ u \in UnitRecord /\ u.summary = "none" /\ u.held \in BOOLEAN
      /\ (u.at = "open" /\ u.held) \/ (u.at = "ended" /\ ~ u.held)
      /\ ~ s0.raised => u.fused = s1.fused /\ u.raised = s1.raised
      /\ s0.raised => ~ u.held
  <2>1. CASE s0.raised
    <3>1. u = [Telemetry!Absent EXCEPT !.at = "ended", !.raised = TRUE] BY <2>1
    <3> HIDE DEF u
    <3> QED BY <2>1, <3>1 DEF Telemetry!Absent, UnitRecord, UnitPlace
  <2>2. CASE ~ s0.raised
    <3>1. u = [new EXCEPT !.raised = s1.raised] BY <2>2
    <3>2. s1.raised \in BOOLEAN /\ s1.fused \in BOOLEAN BY <1>6 DEF UnitState
    <3> HIDE DEF u
    <3>3. CASE s1.raised
      BY <2>2, <3>1, <3>2, <3>3 DEF Telemetry!Entered, Telemetry!Absent, UnitRecord, UnitPlace
    <3>4. CASE ~ s1.raised
      <4>1. new = [Telemetry!Absent EXCEPT !.at = "open", !.fused = s1.fused, !.held = TRUE]
        BY <3>2, <3>4 DEF Telemetry!Entered
      <4>2. u = [at |-> "open", fused |-> s1.fused, finished |-> FALSE, held |-> TRUE,
                 first |-> FALSE, corpus |-> FALSE, summary |-> "none", raised |-> FALSE,
                 rejected |-> FALSE]
        <5>1. s1.raised = FALSE BY <3>2, <3>4
        <5> HIDE DEF new
        <5> QED BY <3>1, <4>1, <5>1 DEF Telemetry!Absent
      <4>3. /\ u \in UnitRecord /\ u.summary = "none" /\ u.held = TRUE /\ u.at = "open"
            /\ u.fused = s1.fused /\ u.raised = FALSE
        BY <3>2, <4>2 DEF UnitRecord, UnitPlace
      <4> HIDE DEF u, new
      <4> QED BY <2>2, <3>2, <3>4, <4>3
    <3> QED BY <3>3, <3>4
  <2> QED BY <2>1, <2>2
<1> HIDE DEF u
<1>8. UnitSound(u, s1.told)
  BY <1>6, <1>7 DEF UnitSound
<1>9. /\ UnitsInv' /\ unit'[r] = u /\ \A q \in Request : q # r => unit'[q] = unit[q]
      /\ Telemetry!Counted' =
           IF u.held THEN Telemetry!Counted \cup {r} ELSE Telemetry!Counted \ {r}
  <2>1. PICK t : t = s1.told OBVIOUS
  <2>2. UnitSound(u, t) /\ told' = [told EXCEPT ![r] = t] BY <1>4, <1>8, <2>1
  <2>3. unit' = [unit EXCEPT ![r] = u] /\ UnitsInv BY <1>1, <1>4
  <2> QED BY ONLY <2>2, <2>3, OneUnit
<1>10. r \notin Telemetry!Counted BY <1>1 DEF Telemetry!Counted, UnitSound
<1>11. IsFiniteSet(Telemetry!Counted') /\ active' = Cardinality(Telemetry!Counted')
  <2>1. IsFiniteSet(Telemetry!Counted) /\ active = Cardinality(Telemetry!Counted)
    BY <1>1 DEF TrackerInv
  <2>2. CASE u.held
    <3>1. Telemetry!Counted' = Telemetry!Counted \cup {r} /\ active' = active + 1
      BY <1>4, <1>9, <2>2
    <3> QED BY <1>10, <2>1, <3>1, FS_AddElement
  <2>3. CASE ~ u.held
    <3>1. Telemetry!Counted' = Telemetry!Counted /\ active' = active
      BY <1>4, <1>9, <1>10, <2>3
    <3> QED BY <2>1, <3>1
  <2> QED BY <2>2, <2>3
<1>12. None \notin Request BY BoundsAssumption DEF Telemetry!TelemetryBounds
<1>13. /\ mover' # None => mover' \in Request /\ unit'[mover'].at # "new"
       /\ Telemetry!StaleOnlyByFault'
  <2>1. CASE s0.raised
    <3>1. /\ mover' = mover /\ active' = active /\ mover # r
      BY <1>1, <1>4, <1>7, <1>9, <1>12, <2>1 DEF TrackerInv
    <3>2. gauge' = gauge
      BY <1>4, <1>5, <1>6, <2>1 DEF Telemetry!Shown, Orderly
    <3> QED BY <1>1, <1>9, <3>1, <3>2 DEF TrackerInv, Telemetry!StaleOnlyByFault
  <2>2. CASE ~ s0.raised
    <3>1. mover' = r BY <1>4, <2>2
    <3>2. unit'[mover'].at # "new" BY <1>7, <1>9, <3>1
    <3>3. Telemetry!Shown(s0, s1) /\ u.held => gauge' = active' BY <1>4, <1>9
    <3>4. ~ Telemetry!Shown(s0, s1) => u.fused \/ u.raised
      BY <1>6, <1>7, <2>2 DEF Telemetry!Shown
    <3>5. ~ u.held => u.fused \/ u.raised
      <4>1. CASE s1.raised BY <1>7, <2>2, <4>1
      <4>2. CASE ~ s1.raised
        <5>1. u = [new EXCEPT !.raised = s1.raised] BY <2>2 DEF u
        <5>2. u.held BY <4>2, <5>1 DEF Telemetry!Entered, Telemetry!Absent
        <5> QED BY <5>2
      <4> QED BY <4>1, <4>2
    <3> QED BY <1>9, <1>12, <3>1, <3>2, <3>3, <3>4, <3>5 DEF Telemetry!StaleOnlyByFault
  <2> QED BY <2>1, <2>2
<1> QED BY <1>9, <1>11, <1>13 DEF TelemetryInv, TrackerInv

-----------------------------------------------------------------------------
(* Telemetry: the end of a response.                                       *)

\* A response that ends: the gauge is told first, whatever else is told.
LEMMA EndsKeeps ==
  ASSUME TelemetryInv, NEW r \in Request, unit[r].at = "settled",
         NEW d \in Telemetry!Deliveries(1), NEW s \in UnitState, NEW rejected \in BOOLEAN,
         Telemetry!Ends(r, Telemetry!Leaves(r, d), s, rejected),
         Orderly(s.told),
         Has(s.told, "corpus") => unit[r].corpus,
         Has(s.told, "token") => unit[r].first,
         Telemetry!Leaves(r, d).fused \/ Telemetry!Leaves(r, d).raised => s.fused \/ s.raised,
         unit[r].summary = "ours" /\ ~ s.fused /\ ~ s.raised => Has(s.told, "outcome")
  PROVE  TelemetryInv'
<1>1. UnitsInv /\ TrackerInv /\ UnitSound(unit[r], told[r]) /\ unit[r] \in UnitRecord
  BY DEF TelemetryInv, UnitsInv
<1> DEFINE u == Telemetry!Finished(r, s, rejected)
           s0 == Telemetry!Leaves(r, d)
           b == Telemetry!Telling(r)
<1>2. /\ unit' = [unit EXCEPT ![r] = u]
      /\ told' = [told EXCEPT ![r] = s.told]
      /\ active' = IF unit'[r].held THEN active ELSE active - 1
      /\ gauge' = IF Telemetry!Shown(b, s0) THEN active - 1 ELSE gauge
      /\ mover' = r
  BY DEF Telemetry!Ends, Telemetry!ValueOnLeave
<1>3. /\ u \in UnitRecord /\ u.at = "ended" /\ ~ u.held /\ u.fused = s.fused
      /\ u.raised = s.raised /\ u.corpus = unit[r].corpus /\ u.first = unit[r].first
      /\ u.summary = unit[r].summary
  BY <1>1 DEF Telemetry!Finished, UnitRecord, UnitPlace, UnitState
<1> HIDE DEF u
<1>4. UnitSound(u, s.told) BY <1>3 DEF UnitSound
<1>5. /\ UnitsInv' /\ unit'[r] = u /\ \A q \in Request : q # r => unit'[q] = unit[q]
      /\ Telemetry!Counted' =
           IF u.held THEN Telemetry!Counted \cup {r} ELSE Telemetry!Counted \ {r}
  <2>1. PICK t : t = s.told OBVIOUS
  <2>2. UnitSound(u, t) /\ told' = [told EXCEPT ![r] = t] BY <1>2, <1>4, <2>1
  <2>3. unit' = [unit EXCEPT ![r] = u] /\ UnitsInv BY <1>1, <1>2
  <2> QED BY ONLY <2>2, <2>3, OneUnit
<1>6. r \in Telemetry!Counted BY <1>1 DEF Telemetry!Counted, UnitSound
<1>7. IsFiniteSet(Telemetry!Counted') /\ active' = Cardinality(Telemetry!Counted')
  <2>1. IsFiniteSet(Telemetry!Counted) /\ active = Cardinality(Telemetry!Counted)
    BY <1>1 DEF TrackerInv
  <2>2. Telemetry!Counted' = Telemetry!Counted \ {r} /\ active' = active - 1
    BY <1>2, <1>3, <1>5
  <2> QED BY <1>6, <2>1, <2>2, FS_RemoveElement
<1>8. b \in UnitState /\ b.told = told[r] /\ b.fused = unit[r].fused /\ ~ b.raised
  BY <1>1, TellingIs
<1>9. ~ Telemetry!Shown(b, s0) => s0.fused \/ s0.raised
  <2> HIDE DEF b
  <2>1. "gauge" \in Prompt /\ "gauge" \notin ToldOnce BY DEF Prompt, ToldOnce
  <2>2. Orderly(b.told) /\ AllPrompt(b.told) BY <1>1, <1>8 DEF UnitSound
  <2>3. s0 = Telemetry!Deliver(b, <<"gauge">>, d) BY DEF Telemetry!Leaves, b
  <2>4. LET t == Telemetry!Deliver(b, <<"gauge">>, d)
        IN ~ t.fused /\ ~ t.raised => Len(t.told) > Len(b.told)
    BY <1>8, <2>1, <2>2, PromptTold
  <2> QED BY <2>3, <2>4 DEF Telemetry!Shown
<1>10. None \notin Request BY BoundsAssumption DEF Telemetry!TelemetryBounds
<1>11. Telemetry!StaleOnlyByFault'
  <2>1. CASE Telemetry!Shown(b, s0)
    <3>1. gauge' = active' BY <1>2, <1>3, <1>5, <2>1
    <3> QED BY <3>1 DEF Telemetry!StaleOnlyByFault
  <2>2. CASE ~ Telemetry!Shown(b, s0)
    <3>1. u.fused \/ u.raised BY <1>3, <1>9, <2>2
    <3> QED BY <1>2, <1>5, <1>10, <3>1 DEF Telemetry!StaleOnlyByFault
  <2> QED BY <2>1, <2>2
<1>12. mover' \in Request /\ unit'[mover'].at # "new"
  BY <1>2, <1>3, <1>5
<1> QED BY <1>5, <1>7, <1>11, <1>12 DEF TelemetryInv, TrackerInv

\* The instance counts as we do.
LEMMA CardinalityThere == \A S : Telemetry!Cardinality(S) = Cardinality(S)
BY DEF Telemetry!Cardinality, Cardinality

\* What the policy allows an answer to be projected to is never too long: an
\* attempt is at most seven events, a summary at most two attempts.
LEMMA FitsAlways == \A fits \in Telemetry!Fits : fits
<1>1. IsFiniteSet(Telemetry!TokenKinds) /\ Cardinality(Telemetry!TokenKinds) <= 5
  <2> DEFINE S1 == {"input"}
             S2 == S1 \cup {"cached_input"}
             S3 == S2 \cup {"output"}
             S4 == S3 \cup {"thinking"}
             S5 == S4 \cup {"total"}
  <2>0. \A S, x : IsFiniteSet(S) => /\ IsFiniteSet(S \cup {x})
                                    /\ Cardinality(S) \in Nat
                                    /\ Cardinality(S \cup {x}) \in Nat
                                    /\ Cardinality(S \cup {x}) <= Cardinality(S) + 1
    <3> SUFFICES ASSUME NEW S, NEW x, IsFiniteSet(S)
                 PROVE  /\ IsFiniteSet(S \cup {x})
                        /\ Cardinality(S) \in Nat
                        /\ Cardinality(S \cup {x}) \in Nat
                        /\ Cardinality(S \cup {x}) <= Cardinality(S) + 1
      OBVIOUS
    <3>1. /\ IsFiniteSet(S \cup {x})
          /\ Cardinality(S \cup {x}) = IF x \in S THEN Cardinality(S) ELSE Cardinality(S) + 1
      BY FS_AddElement
    <3>2. Cardinality(S) \in Nat BY FS_CardinalityType
    <3> QED BY <3>1, <3>2
  <2>1. IsFiniteSet(S1) /\ Cardinality(S1) = 1 BY FS_Singleton
  <2> HIDE DEF S1
  <2>2. IsFiniteSet(S2) /\ Cardinality(S2) \in Nat /\ Cardinality(S2) <= 2
    <3>1. /\ IsFiniteSet(S2) /\ Cardinality(S2) \in Nat /\ Cardinality(S1) \in Nat
          /\ Cardinality(S2) <= Cardinality(S1) + 1
      BY <2>0, <2>1, Zenon
    <3> HIDE DEF S2
    <3> QED BY <2>1, <3>1
  <2> HIDE DEF S2
  <2>3. IsFiniteSet(S3) /\ Cardinality(S3) \in Nat /\ Cardinality(S3) <= 3
    <3>1. /\ IsFiniteSet(S3) /\ Cardinality(S3) \in Nat /\ Cardinality(S2) \in Nat
          /\ Cardinality(S3) <= Cardinality(S2) + 1
      BY <2>0, <2>2, Zenon
    <3> HIDE DEF S3
    <3> QED BY <2>2, <3>1
  <2> HIDE DEF S3
  <2>4. IsFiniteSet(S4) /\ Cardinality(S4) \in Nat /\ Cardinality(S4) <= 4
    <3>1. /\ IsFiniteSet(S4) /\ Cardinality(S4) \in Nat /\ Cardinality(S3) \in Nat
          /\ Cardinality(S4) <= Cardinality(S3) + 1
      BY <2>0, <2>3, Zenon
    <3> HIDE DEF S4
    <3> QED BY <2>3, <3>1
  <2> HIDE DEF S4
  <2>5. IsFiniteSet(S5) /\ Cardinality(S5) \in Nat /\ Cardinality(S5) <= 5
    <3>1. /\ IsFiniteSet(S5) /\ Cardinality(S5) \in Nat /\ Cardinality(S4) \in Nat
          /\ Cardinality(S5) <= Cardinality(S4) + 1
      BY <2>0, <2>4, Zenon
    <3> HIDE DEF S5
    <3> QED BY <2>4, <3>1
  <2>6. Telemetry!TokenKinds = S5 BY DEF Telemetry!TokenKinds, S5, S4, S3, S2, S1
  <2> QED BY <2>5, <2>6
<1>2. ASSUME NEW P \in SUBSET Telemetry!TokenKinds
      PROVE  Cardinality(P) \in Nat /\ Cardinality(P) <= 5
  <2>1. IsFiniteSet(P) /\ Cardinality(P) <= Cardinality(Telemetry!TokenKinds)
    BY <1>1, FS_Subset
  <2>2. Cardinality(P) \in Nat /\ Cardinality(Telemetry!TokenKinds) \in Nat
    BY <1>1, <2>1, FS_CardinalityType
  <2> QED BY <1>1, <2>1, <2>2
<1>3. ASSUME NEW a \in Telemetry!Attempt
      PROVE  Telemetry!EventsOf(a) \in 1 .. 7
  <2>1. a.positive \in SUBSET Telemetry!TokenKinds
    <3>1. CASE a = [usage |-> FALSE, positive |-> {}, reported |-> FALSE] BY <3>1
    <3>2. CASE a \in [usage : {TRUE}, positive : SUBSET Telemetry!TokenKinds, reported : BOOLEAN]
      BY <3>2
    <3> QED BY <3>1, <3>2 DEF Telemetry!Attempt
  <2>2. Cardinality(a.positive) \in Nat /\ Cardinality(a.positive) <= 5 BY <1>2, <2>1
  <2> DEFINE n == Cardinality(a.positive)
  <2>3. Telemetry!EventsOf(a) = 1 + n + (IF a.reported THEN 1 ELSE 0) 
    BY CardinalityThere DEF Telemetry!EventsOf
  <2>4. n \in 0 .. 5 BY <2>2
  <2>5. (IF a.reported THEN 1 ELSE 0) \in {0, 1} OBVIOUS
  <2> HIDE DEF n
  <2> DEFINE k == IF a.reported THEN 1 ELSE 0
  <2>6. Telemetry!EventsOf(a) = 1 + n + k BY <2>3
  <2>7. k \in {0, 1} BY <2>5
  <2> HIDE DEF k
  <2> QED BY <2>4, <2>6, <2>7
<1>4. \A size \in Telemetry!Sizes : size \in 0 .. 14
  <2> DEFINE sizes == {Telemetry!EventsOf(a) : a \in Telemetry!Attempt}
  <2>1. \A i \in sizes : i \in 1 .. 7 BY <1>3
  <2>2. \A size \in Telemetry!Sizes :
          size = 0 \/ size \in sizes \/ \E i, j \in sizes : size = i + j
    BY DEF Telemetry!Sizes
  <2> HIDE DEF sizes
  <2> QED BY <2>1, <2>2
<1>5. ASSUME NEW size \in 0 .. 14, NEW timed \in BOOLEAN
      PROVE  Telemetry!Projected(size, timed) <= Telemetry!CompletionLimit
  BY <1>5 DEF Telemetry!Projected, Telemetry!CompletionLimit
<1>6. ASSUME NEW fits \in Telemetry!Fits PROVE fits
  <2>1. PICK size \in Telemetry!Sizes, timed \in BOOLEAN :
          fits = (Telemetry!Projected(size, timed) <= Telemetry!CompletionLimit)
    BY SMT DEF Telemetry!Fits
  <2> DEFINE within == Telemetry!Projected(size, timed) <= Telemetry!CompletionLimit
  <2>2. within BY <1>4, <1>5
  <2>3. fits = within BY <2>1
  <2> HIDE DEF within
  <2> QED BY <2>2, <2>3
<1> QED BY <1>6

\* The place is given back, and only then the gauge is told.
LEMMA LeavingTells ==
  ASSUME UnitsInv, NEW r \in Request, unit[r].at = "settled", NEW d \in Telemetry!Deliveries(1)
  PROVE  LET s == Telemetry!Leaves(r, d)
         IN /\ s \in UnitState /\ Orderly(s.told) /\ AllPrompt(s.told)
            /\ Has(s.told, "corpus") => unit[r].corpus
            /\ Has(s.told, "token") => unit[r].first
<1> DEFINE b == Telemetry!Telling(r)
           s == Telemetry!Leaves(r, d)
<1>1. UnitSound(unit[r], told[r]) BY DEF UnitsInv
<1>2. b \in UnitState /\ b.told = told[r] BY TellingIs
<1>3. s = Telemetry!Deliver(b, <<"gauge">>, d) BY DEF Telemetry!Leaves
<1> HIDE DEF b, s
<1>4. "gauge" \in Prompt /\ "gauge" \notin ToldOnce BY DEF Prompt, ToldOnce
<1>5. Orderly(b.told) /\ AllPrompt(b.told) BY <1>1, <1>2 DEF UnitSound
<1>6. LET t == Telemetry!Deliver(b, <<"gauge">>, d)
      IN /\ t \in UnitState /\ Orderly(t.told) /\ AllPrompt(t.told)
         /\ \A e : Has(t.told, e) => Has(b.told, e) \/ e = "gauge"
  BY <1>2, <1>4, <1>5, PromptTold
<1>7. /\ s \in UnitState /\ Orderly(s.told) /\ AllPrompt(s.told)
      /\ \A e : Has(s.told, e) => Has(told[r], e) \/ e = "gauge"
  BY <1>2, <1>3, <1>6
<1>8. /\ Has(told[r], "corpus") => unit[r].corpus
      /\ Has(told[r], "token") => unit[r].first
  BY <1>1 DEF UnitSound
<1> QED BY <1>7, <1>8 DEF s

\* An outcome with its usage after prompt events, then the costs.
LEMMA CompletionTells ==
  ASSUME NEW s \in UnitState, Orderly(s.told), AllPrompt(s.told),
         NEW d \in Telemetry!Deliveries(2), NEW e \in Telemetry!Deliveries(1)
  PROVE  LET t == Telemetry!Completion(s, d, e)
         IN /\ t \in UnitState /\ Orderly(t.told)
            /\ \A v : v \in Prompt /\ Has(t.told, v) => Has(s.told, v)
            /\ s.fused => t.fused
            /\ s.raised => t.raised
            /\ ~ t.fused /\ ~ t.raised => Has(t.told, "outcome")
<1> DEFINE o == Telemetry!Deliver(s, <<"outcome", "usage">>, d)
           t == Telemetry!Deliver(o, <<"cost">>, e)
           s1 == Append(s.told, "outcome")
           s2 == Append(s1, "usage")
<1>1. "outcome" \in SinkEvent /\ "usage" \in SinkEvent /\ "cost" \in SinkEvent
  BY DEF SinkEvent
<1>2. /\ d \in {Telemetry!Well} \cup Telemetry!Fault(2)
      /\ e \in {Telemetry!Well} \cup Telemetry!Fault(1)
  BY DeliveriesAre
<1>3. /\ o \in UnitState
      /\ o.told = s.told \/ o.told = s1 \/ o.told = s2
      /\ s.fused => o.fused
      /\ s.raised => o.raised
      /\ ~ o.fused /\ ~ o.raised => o.told = s2
  BY <1>1, <1>2, DeliverTwo
<1>4. \A v \in {"outcome", "usage", "cost"} : ~ Has(s.told, v)
  BY DEF AllPrompt, Has, Prompt
<1>5. /\ Orderly(s1)
      /\ \A v : Has(s1, v) <=> Has(s.told, v) \/ v = "outcome"
  <2>1. MayFollow(s.told, "outcome") BY <1>1, <1>4 DEF MayFollow
  <2> QED BY <2>1, ToldOneMore
<1> HIDE DEF s1
<1>6. /\ Orderly(s2)
      /\ \A v : Has(s2, v) <=> Has(s1, v) \/ v = "usage"
  <2>1. MayFollow(s1, "usage") BY <1>1, <1>4, <1>5 DEF MayFollow, Prompt, ToldOnce
  <2> QED BY <1>5, <2>1, ToldOneMore
<1> HIDE DEF s2, o
<1>7. /\ Orderly(o.told)
      /\ \A v : v \in Prompt /\ Has(o.told, v) => Has(s.told, v)
      /\ ~ o.fused /\ ~ o.raised => Has(o.told, "outcome")
  BY <1>3, <1>5, <1>6 DEF Prompt
<1>8. /\ t \in UnitState
      /\ t.told = o.told \/ t.told = Append(o.told, "cost")
      /\ o.fused => t.fused
      /\ o.raised => t.raised
  BY <1>1, <1>2, <1>3, DeliverOne
<1>9. /\ Orderly(Append(o.told, "cost"))
      /\ \A v : Has(Append(o.told, "cost"), v) <=> Has(o.told, v) \/ v = "cost"
  <2>1. MayFollow(o.told, "cost") BY <1>1 DEF MayFollow, Prompt, ToldOnce
  <2> QED BY <1>7, <2>1, ToldOneMore
<1>10. t = Telemetry!Completion(s, d, e) BY DEF Telemetry!Completion, o
<1> HIDE DEF t
<1>11. /\ Orderly(t.told)
       /\ \A v : v \in Prompt /\ Has(t.told, v) => Has(s.told, v)
       /\ s.fused => t.fused
       /\ s.raised => t.raised
       /\ ~ t.fused /\ ~ t.raised => Has(t.told, "outcome")
  BY <1>3, <1>7, <1>8, <1>9 DEF Prompt
<1> QED BY <1>8, <1>10, <1>11

LEMMA CompleteKeeps ==
  ASSUME TelemetryInv, NEW r \in Request, Telemetry!Complete(r)
  PROVE  TelemetryInv'
<1>1. UnitsInv /\ unit[r].at = "settled"
  BY DEF TelemetryInv, Telemetry!Complete, Telemetry!At
<1>2. PICK fits \in Telemetry!Fits, d \in Telemetry!Deliveries(1),
           e \in Telemetry!Deliveries(2), f \in Telemetry!Deliveries(1) :
        IF unit[r].summary = "ours" /\ fits
        THEN Telemetry!Ends(r, Telemetry!Leaves(r, d),
                            Telemetry!Completion(Telemetry!Leaves(r, d), e, f), FALSE)
        ELSE Telemetry!Ends(r, Telemetry!Leaves(r, d), Telemetry!Leaves(r, d),
                            ~ Telemetry!Leaves(r, d).raised)
  BY Zenon DEF Telemetry!Complete
<1>3. fits BY FitsAlways
<1> DEFINE s == Telemetry!Leaves(r, d)
           t == Telemetry!Completion(s, e, f)
<1>4. /\ s \in UnitState /\ Orderly(s.told) /\ AllPrompt(s.told)
      /\ Has(s.told, "corpus") => unit[r].corpus
      /\ Has(s.told, "token") => unit[r].first
  BY <1>1, LeavingTells
<1>5. CASE unit[r].summary = "ours"
  <2>1. Telemetry!Ends(r, s, t, FALSE) BY <1>2, <1>3, <1>5
  <2>2. PICK u : u = s OBVIOUS
  <2>3. /\ t \in UnitState /\ Orderly(t.told)
        /\ \A v : v \in Prompt /\ Has(t.told, v) => Has(s.told, v)
        /\ s.fused => t.fused
        /\ s.raised => t.raised
        /\ ~ t.fused /\ ~ t.raised => Has(t.told, "outcome")
    <3>1. LET w == Telemetry!Completion(u, e, f)
          IN /\ w \in UnitState /\ Orderly(w.told)
             /\ \A v : v \in Prompt /\ Has(w.told, v) => Has(u.told, v)
             /\ u.fused => w.fused
             /\ u.raised => w.raised
             /\ ~ w.fused /\ ~ w.raised => Has(w.told, "outcome")
      BY <1>4, <2>2, CompletionTells
    <3> QED BY <2>2, <3>1
  <2>4. PICK w : w = t OBVIOUS
  <2>5. /\ Telemetry!Ends(r, Telemetry!Leaves(r, d), w, FALSE)
        /\ w \in UnitState /\ Orderly(w.told)
        /\ Telemetry!Leaves(r, d).fused \/ Telemetry!Leaves(r, d).raised => w.fused \/ w.raised
        /\ unit[r].summary = "ours" /\ ~ w.fused /\ ~ w.raised => Has(w.told, "outcome")
        /\ Has(w.told, "corpus") => unit[r].corpus
        /\ Has(w.told, "token") => unit[r].first
    BY <1>4, <2>1, <2>3, <2>4 DEF Prompt
  <2> QED BY <1>1, <2>5, EndsKeeps
<1>6. CASE unit[r].summary # "ours"
  <2>1. PICK w : w = s OBVIOUS
  <2>2. PICK b \in BOOLEAN : b = ~ s.raised BY <1>4 DEF UnitState
  <2>3. Telemetry!Ends(r, Telemetry!Leaves(r, d), w, b) BY <1>2, <1>6, <2>1, <2>2
  <2>4. /\ w \in UnitState /\ Orderly(w.told)
        /\ Telemetry!Leaves(r, d).fused \/ Telemetry!Leaves(r, d).raised => w.fused \/ w.raised
        /\ unit[r].summary = "ours" /\ ~ w.fused /\ ~ w.raised => Has(w.told, "outcome")
        /\ Has(w.told, "corpus") => unit[r].corpus
        /\ Has(w.told, "token") => unit[r].first
    BY <1>4, <1>6, <2>1
  <2> QED BY <1>1, <2>3, <2>4, EndsKeeps
<1> QED BY <1>5, <1>6

LEMMA SummaryMissingKeeps ==
  ASSUME TelemetryInv, NEW r \in Request, Telemetry!SummaryMissing(r)
  PROVE  TelemetryInv'
<1>1. UnitsInv /\ unit[r].at = "settled" /\ unit[r].summary = "none"
  BY DEF TelemetryInv, Telemetry!SummaryMissing, Telemetry!At
<1>2. PICK d \in Telemetry!Deliveries(1) :
        Telemetry!Ends(r, Telemetry!Leaves(r, d), Telemetry!Leaves(r, d), TRUE)
  BY Zenon DEF Telemetry!SummaryMissing
<1>3. PICK w : w = Telemetry!Leaves(r, d) OBVIOUS
<1>4. /\ w \in UnitState /\ Orderly(w.told)
      /\ Has(w.told, "corpus") => unit[r].corpus
      /\ Has(w.told, "token") => unit[r].first
  BY <1>1, <1>3, LeavingTells
<1>5. /\ Telemetry!Ends(r, Telemetry!Leaves(r, d), w, TRUE)
      /\ Telemetry!Leaves(r, d).fused \/ Telemetry!Leaves(r, d).raised => w.fused \/ w.raised
  BY <1>2, <1>3
<1>6. ~ (unit[r].summary = "ours") BY <1>1
<1> QED BY <1>1, <1>4, <1>5, <1>6, EndsKeeps

-----------------------------------------------------------------------------

LEMMA TelemetryStep == TelemetryInv /\ [Telemetry!Next]_telemetryVars => TelemetryInv'
<1> SUFFICES ASSUME TelemetryInv, [Telemetry!Next]_telemetryVars PROVE TelemetryInv'
  OBVIOUS
<1>1. CASE UNCHANGED telemetryVars
  <2>1. UNCHANGED <<unit, told, active, gauge, mover>> BY <1>1 DEF telemetryVars
  <2>2. UnitsInv' BY <2>1 DEF TelemetryInv, UnitsInv
  <2>3. Telemetry!Counted' = Telemetry!Counted BY <2>1 DEF Telemetry!Counted
  <2> QED BY <2>1, <2>2, <2>3 DEF TelemetryInv, TrackerInv, Telemetry!StaleOnlyByFault
<1>2. CASE Telemetry!Next
  <2>1. PICK r \in Request :
          \/ Telemetry!Create(r) \/ Telemetry!Corpus(r) \/ Telemetry!FirstToken(r)
          \/ Telemetry!CloseStream(r) \/ Telemetry!Settle(r) \/ Telemetry!Complete(r)
          \/ Telemetry!SummaryMissing(r)
    BY <1>2 DEF Telemetry!Next
  <2> QED
    BY <2>1, CreateKeeps, CorpusKeeps, FirstTokenKeeps, SettleTelemetryKeeps,
       CompleteKeeps, SummaryMissingKeeps
<1> QED BY <1>1, <1>2

LEMMA TelemetrySound ==
  ASSUME TelemetryInv
  PROVE  /\ Telemetry!ConcurrencyBalanced /\ Telemetry!StaleOnlyByFault
         /\ Telemetry!OneOutcomeLast /\ Telemetry!AnswerIsTold
<1>1. UnitsInv /\ TrackerInv BY DEF TelemetryInv
<1>2. Telemetry!ConcurrencyBalanced
  BY <1>1, CardinalityThere DEF Telemetry!ConcurrencyBalanced, TrackerInv, UnitsInv, UnitSound, Telemetry!At
<1>3. Telemetry!StaleOnlyByFault BY <1>1 DEF TrackerInv
<1>4. ASSUME NEW r \in Request
      PROVE  Orderly(told[r]) /\ DOMAIN told[r] = 1 .. Len(told[r])
  BY <1>1, LenProperties DEF UnitsInv, UnitSound, Orderly
<1>5. ASSUME NEW r \in Request, NEW event \in ToldOnce
      PROVE  /\ Telemetry!Times(r, event) <= 1
             /\ Has(told[r], event) => Telemetry!Times(r, event) = 1
  <2> DEFINE I == {i \in DOMAIN told[r] : told[r][i] = event}
  <2>1. Telemetry!Times(r, event) = Cardinality(I) BY CardinalityThere DEF Telemetry!Times
  <2>2. \A i, j \in I : i = j BY <1>4 DEF Orderly
  <2>3. CASE I = {}
    <3>1. ~ Has(told[r], event) BY <1>4, <2>3 DEF Has
    <3>2. Cardinality(I) = 0 BY <2>3, FS_EmptySet
    <3> QED BY <2>1, <3>1, <3>2
  <2>4. CASE I # {}
    <3>1. PICK i : I = {i} BY <2>2, <2>4
    <3>2. Cardinality(I) = 1 BY <3>1, FS_Singleton
    <3> QED BY <2>1, <3>2
  <2> QED BY <2>3, <2>4
<1>6. Telemetry!OneOutcomeLast
  <2>1. ASSUME NEW r \in Request, NEW i \in DOMAIN told[r], NEW j \in DOMAIN told[r], i < j
        PROVE  /\ told[r][i] = "outcome" => told[r][j] \in {"usage", "cost"}
               /\ told[r][i] = "cost" => told[r][j] = "cost"
    BY <1>4, <2>1 DEF Orderly
  <2> QED BY <1>5, <2>1 DEF Telemetry!OneOutcomeLast, ToldOnce
<1>7. Telemetry!AnswerIsTold
  BY <1>1, <1>5 DEF Telemetry!AnswerIsTold, UnitsInv, UnitSound, Telemetry!At, ToldOnce
<1> QED BY <1>2, <1>3, <1>6, <1>7

\* Whatever the deliveries to the sink do, for any number of responses: the
\* tracker counts the open ones, the sink's value is stale only by a failure of
\* the last to come or go, and what the sink hears of each is once, in order,
\* and with its outcome (ChatConcurrencyTracker, ChatTelemetryUnit).
THEOREM TelemetryIsAlwaysTrue == PartsSpec => []TelemetryIsTrue
<1> DEFINE Inv == part = "telemetry" => TelemetryInv
           partsVars == <<part, accountingVars, applicationVars, telemetryVars, readinessVars>>
<1>1. PartsInit => Inv
  BY TelemetryInitial DEF PartsInit
<1>2. Inv /\ [PartsNext]_partsVars => Inv'
  <2> SUFFICES ASSUME Inv, [PartsNext]_partsVars, part' = "telemetry" PROVE TelemetryInv'
    OBVIOUS
  <2>1. part' = part BY DEF PartsNext
  <2>2. [Telemetry!Next]_telemetryVars BY <2>1 DEF PartsNext
  <2> QED BY <2>1, <2>2, TelemetryStep
<1>3. Inv => TelemetryIsTrue
  BY TelemetrySound DEF TelemetryIsTrue
<1> QED BY <1>1, <1>2, <1>3, PTL DEF PartsSpec

-----------------------------------------------------------------------------
(* Readiness: what an evaluation has judged, place by place.               *)

Continues(g, f) == DOMAIN f \subseteq DOMAIN g /\ \A d \in DOMAIN f : g[d] = f[d]

\* The exact corpus, by the profile and the route's answer.
ExactOf(profile, route) ==
  IF profile # "lifecycle_exact" THEN Lone!NotRequired
  ELSE IF route \in Lone!Failures THEN Lone!Unknown(route)
  ELSE IF route \in {"unreachable", "store_unready"} THEN Lone!Unknown("unavailable")
  ELSE IF route = "static" THEN Lone!NotReady("exact_corpus_unready")
  ELSE Lone!Ready

DatabaseJudged(c, h) ==
  /\ "database" \in DOMAIN c /\ "database" \in DOMAIN h
  /\ h.database \in {"yes", "no"} \cup Lone!Failures
  /\ c.database = Lone!Boolean(h.database)

RouteJudged(a, c, h) ==
  /\ {"vector_store", "corpus"} \subseteq DOMAIN c
  /\ {"route", "beats", "corpus"} \subseteq DOMAIN h
  /\ h.route \in {"exact", "static", "store_unready", "unreachable"} \cup Lone!Failures
  /\ ~ a.valid => h.route = "misconfigured"
  /\ a.profile = "local_static" => h.route # "exact"
  /\ h.beats \in BOOLEAN
  /\ a.profile # "local_static" => h.beats
  /\ h.corpus \in {"yes", "no"} \cup Lone!Failures
  /\ c.vector_store = Lone!VectorCheck(h.route, h.beats)
  /\ c.corpus = Lone!Boolean(h.corpus)

ProviderJudged(a, c, h) ==
  /\ {"provider", "model"} \subseteq DOMAIN c
  /\ a.provider = "echo" => c.provider = Lone!Ready /\ c.model = Lone!NotRequired
  /\ a.provider = "gemini" =>
       /\ "gemini" \in DOMAIN h
       /\ h.gemini \in {"serves", "model_missing", "unreachable"} \cup Lone!Failures
       /\ c.provider = Lone!GeminiChecks(h.gemini).provider
       /\ c.model = Lone!GeminiChecks(h.gemini).model
  /\ a.provider = "ollama" /\ a.provider_named =>
       /\ "catalog" \in DOMAIN h
       /\ h.catalog \in Lone!CatalogAnswer
       /\ c.provider = Lone!OllamaChecks(h.catalog).provider
       /\ c.model = Lone!OllamaChecks(h.catalog).model
  /\ a.provider = "ollama" /\ ~ a.provider_named =>
       c.provider = Lone!Unknown("misconfigured") /\ c.model = Lone!Unknown("misconfigured")

EmbeddingJudged(a, c, h) ==
  /\ "embedding" \in DOMAIN c
  /\ a.embedding = "fake" => c.embedding = Lone!Ready
  /\ a.embedding = "ollama" /\ ~ a.embedding_named => c.embedding = Lone!Unknown("misconfigured")
  /\ a.embedding = "ollama" /\ a.embedding_named =>
       /\ "catalog" \in DOMAIN h
       /\ h.catalog \in Lone!CatalogAnswer
       /\ c.embedding = Lone!EmbeddingCheck(h.catalog)

RestJudged(a, c, h) ==
  /\ {"exact_corpus", "budget", "deployment_mode"} \subseteq DOMAIN c
  /\ {"budget", "deployment_mode", "route"} \subseteq DOMAIN h
  /\ h.deployment_mode \in {"yes", "no"} \cup Lone!Failures
  /\ c.exact_corpus = ExactOf(a.profile, h.route)
  /\ ~ a.budget => c.budget = Lone!NotRequired
  /\ a.budget =>
       /\ h.budget \in {"ready", "budget_exhausted", "budget_overrun", "accounting_uncertain"}
                         \cup Lone!Failures
       /\ c.budget = Lone!BudgetCheck(h.budget)
  /\ c.deployment_mode = Lone!Boolean(h.deployment_mode)

Place ==
  {"database", "route", "provider", "provider_catalog", "embedding", "embedding_catalog",
   "rest", "done", "cancelled"}

\* What an evaluation at a place may have checked and have heard of: nothing is
\* asked twice.
CheckedBy(p) ==
  (IF p = "database" THEN {} ELSE {"database"}) \cup
  (IF p \in {"database", "route"} THEN {} ELSE {"vector_store", "corpus"}) \cup
  (IF p \in {"embedding", "embedding_catalog", "rest", "done", "cancelled"}
   THEN {"provider", "model"} ELSE {}) \cup
  (IF p \in {"rest", "done", "cancelled"} THEN {"embedding"} ELSE {}) \cup
  (IF p \in {"done", "cancelled"} THEN {"exact_corpus", "budget", "deployment_mode"} ELSE {})

HeardBy(p) ==
  (IF p = "database" THEN {} ELSE {"database"}) \cup
  (IF p \in {"database", "route"} THEN {} ELSE {"route", "beats", "corpus"}) \cup
  (IF p \in {"embedding", "embedding_catalog", "rest", "done", "cancelled"} THEN {"gemini"} ELSE {}) \cup
  (IF p \in {"embedding", "rest", "done", "cancelled"} THEN {"catalog"} ELSE {}) \cup
  (IF p \in {"done", "cancelled"} THEN {"budget", "deployment_mode"} ELSE {})

JudgedAt(a, p, c, h) ==
  /\ p = "provider_catalog" => a.provider = "ollama" /\ a.provider_named
  /\ p = "embedding_catalog" => a.embedding = "ollama" /\ a.embedding_named
  /\ p \notin {"database", "cancelled"} => DatabaseJudged(c, h)
  /\ p \notin {"database", "route", "cancelled"} => RouteJudged(a, c, h)
  /\ p \in {"embedding", "embedding_catalog", "rest", "done"} => ProviderJudged(a, c, h)
  /\ p \in {"rest", "done"} => EmbeddingJudged(a, c, h)
  /\ p = "done" => RestJudged(a, c, h)

CatalogKnown(h) == "catalog" \in DOMAIN h => h["catalog"] \in Lone!CatalogAnswer

EvaluationSound(a, p, c, h) ==
  /\ p \in Place
  /\ DOMAIN c \subseteq CheckedBy(p) /\ DOMAIN h \subseteq HeardBy(p)
  /\ \A d \in DOMAIN c : Lone!Valid(d, c[d])
  /\ CatalogKnown(h)
  /\ JudgedAt(a, p, c, h)

LoneInv ==
  /\ app \in Lone!Composition
  /\ at = [e \in {e1} |-> at[e]] /\ checks = [e \in {e1} |-> checks[e]]
  /\ heard = [e \in {e1} |-> heard[e]]
  /\ EvaluationSound(app, at[e1], checks[e1], heard[e1])

-----------------------------------------------------------------------------

\* Judgements are of an answer, and are not revised.
LEMMA JudgedStays ==
  ASSUME NEW a, NEW c, NEW h, NEW c2, NEW h2, Continues(c2, c), Continues(h2, h)
  PROVE  /\ DatabaseJudged(c, h) => DatabaseJudged(c2, h2)
         /\ RouteJudged(a, c, h) => RouteJudged(a, c2, h2)
         /\ ProviderJudged(a, c, h) => ProviderJudged(a, c2, h2)
         /\ EmbeddingJudged(a, c, h) => EmbeddingJudged(a, c2, h2)
<1>1. DatabaseJudged(c, h) => DatabaseJudged(c2, h2)
  BY DEF Continues, DatabaseJudged
<1>2. RouteJudged(a, c, h) => RouteJudged(a, c2, h2)
  <2> SUFFICES ASSUME RouteJudged(a, c, h) PROVE RouteJudged(a, c2, h2)
    OBVIOUS
  <2>1. /\ c2.vector_store = c.vector_store /\ c2.corpus = c.corpus
        /\ h2.route = h.route /\ h2.beats = h.beats /\ h2.corpus = h.corpus
        /\ {"vector_store", "corpus"} \subseteq DOMAIN c2
        /\ {"route", "beats", "corpus"} \subseteq DOMAIN h2
    BY DEF Continues, RouteJudged
  <2> QED BY <2>1 DEF RouteJudged
<1>3. ProviderJudged(a, c, h) => ProviderJudged(a, c2, h2)
  <2> SUFFICES ASSUME ProviderJudged(a, c, h) PROVE ProviderJudged(a, c2, h2)
    OBVIOUS
  <2>1. /\ c2.provider = c.provider /\ c2.model = c.model
        /\ {"provider", "model"} \subseteq DOMAIN c2
        /\ "gemini" \in DOMAIN h => "gemini" \in DOMAIN h2 /\ h2.gemini = h.gemini
        /\ "catalog" \in DOMAIN h => "catalog" \in DOMAIN h2 /\ h2.catalog = h.catalog
    BY DEF Continues, ProviderJudged
  <2> QED BY <2>1 DEF ProviderJudged
<1>4. EmbeddingJudged(a, c, h) => EmbeddingJudged(a, c2, h2)
  <2> SUFFICES ASSUME EmbeddingJudged(a, c, h) PROVE EmbeddingJudged(a, c2, h2)
    OBVIOUS
  <2>1. /\ c2.embedding = c.embedding /\ "embedding" \in DOMAIN c2
        /\ "catalog" \in DOMAIN h => "catalog" \in DOMAIN h2 /\ h2.catalog = h.catalog
    BY DEF Continues, EmbeddingJudged
  <2> QED BY <2>1 DEF EmbeddingJudged
<1> QED BY <1>1, <1>2, <1>3, <1>4

\* What is added to checks and answers of which none has its name.
LEMMA Added ==
  ASSUME LoneInv, NEW new, NEW said, Lone!Adds(e1, new, said),
         DOMAIN new \cap DOMAIN checks[e1] = {}, DOMAIN said \cap DOMAIN heard[e1] = {}
  PROVE  /\ Continues(checks'[e1], checks[e1]) /\ Continues(heard'[e1], heard[e1])
         /\ Continues(checks'[e1], new) /\ Continues(heard'[e1], said)
         /\ DOMAIN checks'[e1] = DOMAIN checks[e1] \cup DOMAIN new
         /\ DOMAIN heard'[e1] = DOMAIN heard[e1] \cup DOMAIN said
         /\ checks' = [e \in {e1} |-> checks'[e]] /\ heard' = [e \in {e1} |-> heard'[e]]
<1> DEFINE Joined(f, g) ==
             [d \in DOMAIN f \cup DOMAIN g |-> IF d \in DOMAIN f THEN f[d] ELSE g[d]]
<1>1. /\ checks' = [checks EXCEPT ![e1] = Joined(checks[e1], new)]
      /\ heard' = [heard EXCEPT ![e1] = Joined(heard[e1], said)]
  BY DEF Lone!Adds
<1>2. ASSUME NEW f, NEW g, DOMAIN g \cap DOMAIN f = {}
      PROVE  /\ Continues(Joined(f, g), f) /\ Continues(Joined(f, g), g)
             /\ DOMAIN Joined(f, g) = DOMAIN f \cup DOMAIN g
  BY <1>2 DEF Continues
<1> HIDE DEF Joined
<1>3. /\ checks'[e1] = Joined(checks[e1], new) /\ heard'[e1] = Joined(heard[e1], said)
      /\ checks' = [e \in {e1} |-> checks'[e]] /\ heard' = [e \in {e1} |-> heard'[e]]
  BY <1>1 DEF LoneInv
<1> DEFINE c == Joined(checks[e1], new)
           h == Joined(heard[e1], said)
<1>4. /\ Continues(c, checks[e1]) /\ Continues(c, new)
      /\ DOMAIN c = DOMAIN checks[e1] \cup DOMAIN new
  BY <1>2
<1>5. /\ Continues(h, heard[e1]) /\ Continues(h, said)
      /\ DOMAIN h = DOMAIN heard[e1] \cup DOMAIN said
  BY <1>2
<1>6. checks'[e1] = c /\ heard'[e1] = h BY <1>3
<1> HIDE DEF c, h
<1> QED BY <1>3, <1>4, <1>5, <1>6

-----------------------------------------------------------------------------
(* Readiness: every check stands, whatever is answered.                    *)

LEMMA BooleanStands ==
  ASSUME NEW answer \in {"yes", "no"} \cup Lone!Failures,
         NEW d \in {"database", "corpus", "deployment_mode"}
  PROVE  Lone!Valid(d, Lone!Boolean(answer))
<1>1. Lone!NegativeReasons[d] = {"unavailable"}
  BY DEF Lone!NegativeReasons, Lone!Dimension
<1> USE DEF Lone!Valid, Lone!Boolean, Lone!Ready, Lone!NotReady, Lone!Unknown, Lone!Check, Lone!Failures
<1>2. CASE answer = "yes" BY <1>2
<1>3. CASE answer = "no" BY <1>1, <1>3
<1>4. CASE answer \in {"unavailable", "misconfigured"} BY <1>4
<1> QED BY <1>2, <1>3, <1>4

LEMMA VectorStands ==
  ASSUME NEW route \in {"exact", "static", "store_unready", "unreachable"} \cup Lone!Failures,
         NEW beats \in BOOLEAN
  PROVE  Lone!Valid("vector_store", Lone!VectorCheck(route, beats))
<1>1. Lone!NegativeReasons["vector_store"] = {"unreachable", "store_unready"}
  BY DEF Lone!NegativeReasons, Lone!Dimension
<1> USE DEF Lone!Valid, Lone!VectorCheck, Lone!Ready, Lone!NotReady, Lone!Unknown, Lone!Check, Lone!Failures
<1>2. CASE route \in {"unavailable", "misconfigured"} BY <1>2
<1>3. CASE route \notin {"unavailable", "misconfigured"} /\ (~ beats \/ route = "unreachable")
  BY <1>1, <1>3
<1>4. CASE beats /\ route = "store_unready" BY <1>1, <1>4
<1>5. CASE beats /\ route \in {"exact", "static"} BY <1>5
<1> QED BY <1>2, <1>3, <1>4, <1>5

LEMMA ExactStands ==
  ASSUME NEW route \in {"exact", "static", "store_unready", "unreachable"} \cup Lone!Failures,
         NEW profile
  PROVE  Lone!Valid("exact_corpus", ExactOf(profile, route))
<1>1. Lone!NegativeReasons["exact_corpus"] = {"exact_corpus_unready"}
  BY DEF Lone!NegativeReasons, Lone!Dimension
<1> USE DEF Lone!Valid, ExactOf, Lone!Ready, Lone!NotReady, Lone!Unknown, Lone!NotRequired,
            Lone!Check, Lone!Failures
<1>2. CASE profile # "lifecycle_exact" BY <1>2
<1>3. CASE profile = "lifecycle_exact" /\ route \in {"unavailable", "misconfigured"} BY <1>3
<1>4. CASE profile = "lifecycle_exact" /\ route \in {"unreachable", "store_unready"} BY <1>4
<1>5. CASE profile = "lifecycle_exact" /\ route = "static" BY <1>1, <1>5
<1>6. CASE profile = "lifecycle_exact" /\ route = "exact" BY <1>6
<1> QED BY <1>2, <1>3, <1>4, <1>5, <1>6

LEMMA BudgetStands ==
  ASSUME NEW answer \in {"ready", "budget_exhausted", "budget_overrun", "accounting_uncertain"}
                          \cup Lone!Failures
  PROVE  Lone!Valid("budget", Lone!BudgetCheck(answer))
<1>1. Lone!NegativeReasons["budget"] = {"budget_exhausted", "budget_overrun"}
  BY DEF Lone!NegativeReasons, Lone!Dimension
<1> USE DEF Lone!Valid, Lone!BudgetCheck, Lone!Ready, Lone!NotReady, Lone!Unknown, Lone!Check, Lone!Failures
<1>2. CASE answer = "ready" BY <1>2
<1>3. CASE answer \in {"budget_exhausted", "budget_overrun"} BY <1>1, <1>3
<1>4. CASE answer \in {"accounting_uncertain", "unavailable", "misconfigured"} BY <1>4
<1> QED BY <1>2, <1>3, <1>4

LEMMA GeminiStands ==
  ASSUME NEW answer \in {"serves", "model_missing", "unreachable"} \cup Lone!Failures
  PROVE  LET j == Lone!GeminiChecks(answer)
         IN /\ Lone!Valid("provider", j.provider) /\ Lone!Valid("model", j.model)
            /\ DOMAIN j = {"provider", "model"}
<1>1. Lone!NegativeReasons["provider"] = {"unreachable"} /\ Lone!NegativeReasons["model"] = {"model_missing"}
  BY DEF Lone!NegativeReasons, Lone!Dimension
<1> USE DEF Lone!Valid, Lone!GeminiChecks, Lone!Ready, Lone!NotReady, Lone!Unknown, Lone!Check, Lone!Failures
<1>2. CASE answer \in {"unavailable", "misconfigured"} BY <1>2
<1>3. CASE answer = "unreachable" BY <1>1, <1>3
<1>4. CASE answer = "model_missing" BY <1>1, <1>4
<1>5. CASE answer = "serves" BY <1>5
<1> QED BY <1>2, <1>3, <1>4, <1>5

LEMMA OllamaStands ==
  ASSUME NEW catalog \in Lone!CatalogAnswer
  PROVE  LET j == Lone!OllamaChecks(catalog)
         IN /\ Lone!Valid("provider", j.provider) /\ Lone!Valid("model", j.model)
            /\ DOMAIN j = {"provider", "model"}
            /\ Lone!Valid("embedding", Lone!EmbeddingCheck(catalog))
<1>1. /\ Lone!NegativeReasons["provider"] = {"unreachable"}
      /\ Lone!NegativeReasons["model"] = {"model_missing"}
      /\ Lone!NegativeReasons["embedding"] = {"unreachable", "model_missing"}
  BY DEF Lone!NegativeReasons, Lone!Dimension
<1>2. catalog.kind \in {"unreachable", "unavailable", "misconfigured", "reached"}
  BY DEF Lone!CatalogAnswer, Lone!Failures
<1> USE DEF Lone!Valid, Lone!OllamaChecks, Lone!EmbeddingCheck, Lone!ModelCheck, Lone!Ready,
            Lone!NotReady, Lone!Unknown, Lone!Check, Lone!Failures
<1>3. CASE catalog.kind \in {"unavailable", "misconfigured"} BY <1>3
<1>4. CASE catalog.kind = "unreachable" BY <1>1, <1>4
<1>5. CASE catalog.kind = "reached" BY <1>1, <1>5
<1> QED BY <1>2, <1>3, <1>4, <1>5

\* An evaluation that moves on with what it was answered.
LEMMA MovesOn ==
  ASSUME LoneInv, NEW new, NEW said, NEW to \in Place,
         Lone!Adds(e1, new, said), at' = [at EXCEPT ![e1] = to], app' = app,
         DOMAIN new \cap DOMAIN checks[e1] = {}, DOMAIN said \cap DOMAIN heard[e1] = {},
         DOMAIN checks[e1] \cup DOMAIN new \subseteq CheckedBy(to),
         DOMAIN heard[e1] \cup DOMAIN said \subseteq HeardBy(to),
         \A d \in DOMAIN new : Lone!Valid(d, new[d]), CatalogKnown(said),
         JudgedAt(app, to, checks'[e1], heard'[e1])
  PROVE  LoneInv'
<1> DEFINE c == checks'[e1]
           h == heard'[e1]
<1>1. /\ Continues(c, checks[e1]) /\ Continues(h, heard[e1])
      /\ Continues(c, new) /\ Continues(h, said)
      /\ DOMAIN c = DOMAIN checks[e1] \cup DOMAIN new
      /\ DOMAIN h = DOMAIN heard[e1] \cup DOMAIN said
      /\ checks' = [e \in {e1} |-> checks'[e]] /\ heard' = [e \in {e1} |-> heard'[e]]
  BY Added
<1>2. at'[e1] = to /\ at' = [e \in {e1} |-> at'[e]] BY DEF LoneInv
<1>3. \A d \in DOMAIN c : Lone!Valid(d, c[d])
  <2>1. \A d \in DOMAIN checks[e1] : Lone!Valid(d, checks[e1][d])
    BY DEF LoneInv, EvaluationSound
  <2>2. ASSUME NEW d \in DOMAIN c PROVE Lone!Valid(d, c[d])
    <3>1. CASE d \in DOMAIN checks[e1] BY <1>1, <2>1, <3>1 DEF Continues
    <3>2. CASE d \in DOMAIN new BY <1>1, <3>2 DEF Continues
    <3> QED BY <1>1, <3>1, <3>2
  <2> QED BY <2>2
<1>4. JudgedAt(app, to, c, h) /\ CatalogKnown(h)
  <2>1. CatalogKnown(heard[e1]) BY DEF LoneInv, EvaluationSound
  <2> QED BY <1>1, <2>1 DEF Continues, CatalogKnown
<1>5. app' \in Lone!Composition BY DEF LoneInv
<1> HIDE DEF c, h
<1>6. EvaluationSound(app, to, c, h) BY <1>1, <1>3, <1>4 DEF EvaluationSound
<1> QED BY <1>1, <1>2, <1>5, <1>6 DEF LoneInv, c, h

LEMMA AnswersAre ==
  /\ AnyAnswers.database \subseteq {"yes", "no"} \cup Lone!Failures
  /\ AnyAnswers.corpus \subseteq {"yes", "no"} \cup Lone!Failures
  /\ AnyAnswers.deployment_mode \subseteq {"yes", "no"} \cup Lone!Failures
  /\ AnyAnswers.route \subseteq
       {"exact", "static", "store_unready", "unreachable"} \cup Lone!Failures
  /\ AnyAnswers.gemini \subseteq {"serves", "model_missing", "unreachable"} \cup Lone!Failures
  /\ AnyAnswers.catalog \subseteq Lone!CatalogAnswer
  /\ AnyAnswers.budget \subseteq
       {"ready", "budget_exhausted", "budget_overrun", "accounting_uncertain"} \cup Lone!Failures
<1>1. \A p \in DOMAIN Lone!Answer : AnyAnswers[p] \subseteq Lone!Answer[p]
  BY BoundsAssumption DEF Lone!ReadinessBounds
<1> QED BY <1>1 DEF Lone!Answer

LEMMA DatabaseAsked ==
  ASSUME LoneInv, Lone!Database(e1)
  PROVE  LoneInv'
<1>1. /\ at[e1] = "database" /\ at' = [at EXCEPT ![e1] = "route"] /\ app' = app
  BY DEF Lone!Database, Lone!Moves
<1>2. PICK answer \in AnyAnswers.database :
        Lone!Adds(e1, [database |-> Lone!Boolean(answer)], [database |-> answer])
  BY Zenon DEF Lone!Database
<1>3. PICK new, said : new = [database |-> Lone!Boolean(answer)] /\ said = [database |-> answer]
  OBVIOUS
<1>4. /\ DOMAIN new = {"database"} /\ new["database"] = Lone!Boolean(answer)
      /\ DOMAIN said = {"database"} /\ said["database"] = answer
  BY <1>3
<1>5. answer \in {"yes", "no"} \cup Lone!Failures BY AnswersAre
<1>6. DOMAIN checks[e1] \subseteq {} /\ DOMAIN heard[e1] \subseteq {}
  BY <1>1 DEF LoneInv, EvaluationSound, CheckedBy, HeardBy
<1>7. ASSUME NEW c, NEW h, Continues(c, new), Continues(h, said)
      PROVE  JudgedAt(app, "route", c, h)
  <2>1. DatabaseJudged(c, h) BY <1>4, <1>5, <1>7 DEF Continues, DatabaseJudged
  <2> QED BY <2>1 DEF JudgedAt
<1>8. CatalogKnown(said) /\ \A d \in DOMAIN new : Lone!Valid(d, new[d])
  BY <1>4, <1>5, BooleanStands DEF CatalogKnown
<1>9. /\ "route" \in Place /\ Lone!Adds(e1, new, said)
      /\ DOMAIN new \cap DOMAIN checks[e1] = {} /\ DOMAIN said \cap DOMAIN heard[e1] = {}
      /\ DOMAIN checks[e1] \cup DOMAIN new \subseteq CheckedBy("route")
      /\ DOMAIN heard[e1] \cup DOMAIN said \subseteq HeardBy("route")
  BY <1>2, <1>3, <1>4, <1>6 DEF Place, CheckedBy, HeardBy
<1>10. JudgedAt(app, "route", checks'[e1], heard'[e1])
  BY <1>7, <1>9, Added
<1> QED BY <1>1, <1>8, <1>9, <1>10, MovesOn

LEMMA RouteAsked ==
  ASSUME LoneInv, Lone!RouteAndCorpus(e1)
  PROVE  LoneInv'
<1>1. /\ at[e1] = "route" /\ at' = [at EXCEPT ![e1] = "provider"] /\ app' = app
  BY DEF Lone!RouteAndCorpus, Lone!Moves
<1>2. PICK route \in Lone!RouteAnswers, beats \in Lone!Beats, corpus \in AnyAnswers.corpus :
        Lone!Adds(e1, [vector_store |-> Lone!VectorCheck(route, beats), corpus |-> Lone!Boolean(corpus)],
                      [route |-> route, beats |-> beats, corpus |-> corpus])
  BY Zenon DEF Lone!RouteAndCorpus
<1>3. PICK new, said :
        /\ new = [vector_store |-> Lone!VectorCheck(route, beats), corpus |-> Lone!Boolean(corpus)]
        /\ said = [route |-> route, beats |-> beats, corpus |-> corpus]
  OBVIOUS
<1>4. /\ DOMAIN new = {"vector_store", "corpus"}
      /\ new["vector_store"] = Lone!VectorCheck(route, beats) /\ new["corpus"] = Lone!Boolean(corpus)
      /\ DOMAIN said = {"route", "beats", "corpus"}
      /\ said["route"] = route /\ said["beats"] = beats /\ said["corpus"] = corpus
  BY <1>3
<1>5. /\ route \in {"exact", "static", "store_unready", "unreachable"} \cup Lone!Failures
      /\ ~ app.valid => route = "misconfigured"
      /\ app.profile = "local_static" => route # "exact"
      /\ beats \in BOOLEAN
      /\ app.profile # "local_static" => beats
      /\ corpus \in {"yes", "no"} \cup Lone!Failures
  BY AnswersAre DEF Lone!RouteAnswers, Lone!Beats, Lone!Failures
<1>6. /\ DOMAIN checks[e1] \subseteq {"database"} /\ DOMAIN heard[e1] \subseteq {"database"}
      /\ DatabaseJudged(checks[e1], heard[e1])
  BY <1>1 DEF LoneInv, EvaluationSound, JudgedAt, CheckedBy, HeardBy
<1>7. ASSUME NEW c, NEW h, Continues(c, new), Continues(h, said),
             Continues(c, checks[e1]), Continues(h, heard[e1])
      PROVE  JudgedAt(app, "provider", c, h)
  <2>1. DatabaseJudged(c, h) BY <1>6, <1>7, JudgedStays
  <2>2. RouteJudged(app, c, h)
    <3>1. /\ {"vector_store", "corpus"} \subseteq DOMAIN c
          /\ {"route", "beats", "corpus"} \subseteq DOMAIN h
          /\ c["vector_store"] = Lone!VectorCheck(route, beats) /\ c["corpus"] = Lone!Boolean(corpus)
          /\ h["route"] = route /\ h["beats"] = beats /\ h["corpus"] = corpus
      BY <1>4, <1>7 DEF Continues
    <3> QED BY <1>5, <3>1 DEF RouteJudged
  <2> QED BY <2>1, <2>2 DEF JudgedAt
<1>8. CatalogKnown(said) /\ \A d \in DOMAIN new : Lone!Valid(d, new[d])
  BY <1>4, <1>5, BooleanStands, VectorStands DEF CatalogKnown
<1>9. /\ "provider" \in Place /\ Lone!Adds(e1, new, said)
      /\ DOMAIN new \cap DOMAIN checks[e1] = {} /\ DOMAIN said \cap DOMAIN heard[e1] = {}
      /\ DOMAIN checks[e1] \cup DOMAIN new \subseteq CheckedBy("provider")
      /\ DOMAIN heard[e1] \cup DOMAIN said \subseteq HeardBy("provider")
  BY <1>2, <1>3, <1>4, <1>6 DEF Place, CheckedBy, HeardBy
<1>10. JudgedAt(app, "provider", checks'[e1], heard'[e1])
  BY <1>7, <1>9, Added
<1> QED BY <1>1, <1>8, <1>9, <1>10, MovesOn

\* The provider's judgement reaches an evaluation at the embedding.
LEMMA ProviderJudges ==
  ASSUME LoneInv, NEW new, NEW said, NEW from \in {"provider", "provider_catalog"},
         Lone!Adds(e1, new, said), Lone!Moves(e1, from, "embedding"), app' = app,
         DOMAIN new = {"provider", "model"}, DOMAIN said \subseteq {"gemini", "catalog"},
         Lone!Valid("provider", new["provider"]), Lone!Valid("model", new["model"]),
         CatalogKnown(said), ProviderJudged(app, new, said)
  PROVE  LoneInv'
<1>1. /\ at[e1] = from /\ at' = [at EXCEPT ![e1] = "embedding"]
  BY DEF Lone!Moves
<1>2. /\ DOMAIN checks[e1] \subseteq {"database", "vector_store", "corpus"}
      /\ DOMAIN heard[e1] \subseteq {"database", "route", "beats", "corpus"}
      /\ DatabaseJudged(checks[e1], heard[e1]) /\ RouteJudged(app, checks[e1], heard[e1])
  BY <1>1 DEF LoneInv, EvaluationSound, JudgedAt, CheckedBy, HeardBy
<1>3. /\ DOMAIN new \cap DOMAIN checks[e1] = {} /\ DOMAIN said \cap DOMAIN heard[e1] = {}
      /\ DOMAIN checks[e1] \cup DOMAIN new \subseteq CheckedBy("embedding")
      /\ DOMAIN heard[e1] \cup DOMAIN said \subseteq HeardBy("embedding")
      /\ "embedding" \in Place
  BY <1>2 DEF CheckedBy, HeardBy, Place
<1>4. PICK c, h : c = checks'[e1] /\ h = heard'[e1] OBVIOUS
<1>5. /\ Continues(c, checks[e1]) /\ Continues(h, heard[e1])
      /\ Continues(c, new) /\ Continues(h, said)
  BY <1>3, <1>4, Added
<1>6. JudgedAt(app, "embedding", c, h)
  <2>1. DatabaseJudged(c, h) /\ RouteJudged(app, c, h) BY <1>2, <1>5, JudgedStays
  <2>2. ProviderJudged(app, c, h) BY <1>5, JudgedStays
  <2> QED BY <2>1, <2>2 DEF JudgedAt
<1>7. \A d \in DOMAIN new : Lone!Valid(d, new[d]) OBVIOUS
<1>8. JudgedAt(app, "embedding", checks'[e1], heard'[e1]) BY <1>4, <1>6
<1> QED BY <1>1, <1>3, <1>7, <1>8, MovesOn

LEMMA ProviderAsked ==
  ASSUME LoneInv, Lone!Provider(e1)
  PROVE  LoneInv'
<1>1. /\ Lone!Moves(e1, "provider", "embedding") /\ app' = app
      /\ app.provider # "ollama" \/ ~ app.provider_named
  BY DEF Lone!Provider
<1>2. CASE /\ app.provider = "echo"
           /\ Lone!Adds(e1, [provider |-> Lone!Ready, model |-> Lone!NotRequired], <<>>)
  <2>1. PICK new, said : new = [provider |-> Lone!Ready, model |-> Lone!NotRequired] /\ said = <<>>
    OBVIOUS
  <2>2. /\ DOMAIN new = {"provider", "model"} /\ new["provider"] = Lone!Ready
        /\ new["model"] = Lone!NotRequired /\ DOMAIN said \subseteq {"gemini", "catalog"}
        /\ CatalogKnown(said)
    BY <2>1 DEF CatalogKnown
  <2>3. Lone!Valid("provider", new["provider"]) /\ Lone!Valid("model", new["model"])
    BY <2>2 DEF Lone!Valid, Lone!Ready, Lone!NotRequired, Lone!Check
  <2>4. ProviderJudged(app, new, said) BY <1>2, <2>2 DEF ProviderJudged
  <2> QED BY <1>1, <1>2, <2>1, <2>2, <2>3, <2>4, ProviderJudges
<1>3. CASE /\ app.provider = "gemini"
           /\ \E answer \in AnyAnswers.gemini :
                Lone!Adds(e1, Lone!GeminiChecks(answer), [gemini |-> answer])
  <2>1. PICK answer \in AnyAnswers.gemini :
          Lone!Adds(e1, Lone!GeminiChecks(answer), [gemini |-> answer])
    BY <1>3
  <2>2. PICK new, said : new = Lone!GeminiChecks(answer) /\ said = [gemini |-> answer]
    OBVIOUS
  <2>3. answer \in {"serves", "model_missing", "unreachable"} \cup Lone!Failures BY AnswersAre
  <2>4. /\ DOMAIN new = {"provider", "model"}
        /\ Lone!Valid("provider", new["provider"]) /\ Lone!Valid("model", new["model"])
    BY <2>2, <2>3, GeminiStands
  <2>5. DOMAIN said = {"gemini"} /\ said["gemini"] = answer BY <2>2
  <2>6. ProviderJudged(app, new, said) BY <1>3, <2>2, <2>3, <2>4, <2>5 DEF ProviderJudged
  <2>7. DOMAIN said \subseteq {"gemini", "catalog"} /\ CatalogKnown(said)
    BY <2>5 DEF CatalogKnown
  <2> QED BY <1>1, <2>1, <2>2, <2>4, <2>6, <2>7, ProviderJudges
<1>4. CASE /\ app.provider = "ollama"
           /\ Lone!Adds(e1, [provider |-> Lone!Unknown("misconfigured"),
                             model |-> Lone!Unknown("misconfigured")], <<>>)
  <2>1. PICK new, said : /\ new = [provider |-> Lone!Unknown("misconfigured"),
                                   model |-> Lone!Unknown("misconfigured")]
                         /\ said = <<>>
    OBVIOUS
  <2>2. /\ DOMAIN new = {"provider", "model"} /\ new["provider"] = Lone!Unknown("misconfigured")
        /\ new["model"] = Lone!Unknown("misconfigured")
        /\ DOMAIN said \subseteq {"gemini", "catalog"}
        /\ CatalogKnown(said)
    BY <2>1 DEF CatalogKnown
  <2>3. Lone!Valid("provider", new["provider"]) /\ Lone!Valid("model", new["model"])
    BY <2>2 DEF Lone!Valid, Lone!Unknown, Lone!Check
  <2>4. ProviderJudged(app, new, said) BY <1>1, <1>4, <2>2 DEF ProviderJudged
  <2> QED BY <1>1, <1>4, <2>1, <2>2, <2>3, <2>4, ProviderJudges
<1> QED BY <1>2, <1>3, <1>4, Zenon DEF Lone!Provider

LEMMA ProviderCatalogRead ==
  ASSUME LoneInv, Lone!ProviderCatalog(e1)
  PROVE  LoneInv'
<1>0. app.provider = "ollama" /\ app.provider_named
  BY DEF Lone!ProviderCatalog, Lone!Moves, LoneInv, EvaluationSound, JudgedAt
<1>1. Lone!Moves(e1, "provider_catalog", "embedding") /\ app' = app
  BY DEF Lone!ProviderCatalog
<1>2. PICK catalog \in AnyAnswers.catalog :
        Lone!Adds(e1, Lone!OllamaChecks(catalog), [catalog |-> catalog])
  BY Zenon DEF Lone!ProviderCatalog
<1>3. PICK new, said : new = Lone!OllamaChecks(catalog) /\ said = [catalog |-> catalog]
  OBVIOUS
<1>4. catalog \in Lone!CatalogAnswer BY AnswersAre
<1>5. /\ DOMAIN new = {"provider", "model"}
      /\ Lone!Valid("provider", new["provider"]) /\ Lone!Valid("model", new["model"])
  BY <1>3, <1>4, OllamaStands
<1>6. DOMAIN said = {"catalog"} /\ said["catalog"] = catalog BY <1>3
<1>7. ProviderJudged(app, new, said) BY <1>0, <1>3, <1>4, <1>5, <1>6 DEF ProviderJudged
<1>8. DOMAIN said \subseteq {"gemini", "catalog"} /\ CatalogKnown(said)
  BY <1>4, <1>6 DEF CatalogKnown
<1> QED BY <1>1, <1>2, <1>3, <1>5, <1>7, <1>8, ProviderJudges

\* An evaluation that goes on to ask nothing yet, or is cancelled.
LEMMA OnlyMoves ==
  ASSUME LoneInv, NEW to \in Place, at' = [at EXCEPT ![e1] = to],
         UNCHANGED <<app, checks, heard>>,
         \/ /\ at[e1] = "provider" /\ to = "provider_catalog"
            /\ app.provider = "ollama" /\ app.provider_named
         \/ /\ at[e1] = "embedding" /\ to = "embedding_catalog" /\ "catalog" \notin DOMAIN heard[e1]
            /\ app.embedding = "ollama" /\ app.embedding_named
         \/ to = "cancelled"
  PROVE  LoneInv'
<1>1. at'[e1] = to /\ at' = [e \in {e1} |-> at'[e]] BY DEF LoneInv
<1>2. PICK p, c, h : p = at[e1] /\ c = checks[e1] /\ h = heard[e1] OBVIOUS
<1>3. EvaluationSound(app, p, c, h) BY <1>2 DEF LoneInv
<1>4. EvaluationSound(app, to, c, h)
  <2>1. DOMAIN c \subseteq CheckedBy(p) /\ DOMAIN h \subseteq HeardBy(p) /\ p \in Place
    BY <1>3 DEF EvaluationSound
  <2>2. DOMAIN c \subseteq CheckedBy(to) /\ DOMAIN h \subseteq HeardBy(to)
    BY <1>2, <2>1 DEF CheckedBy, HeardBy, Place
  <2>3. JudgedAt(app, to, c, h) BY <1>2, <1>3 DEF EvaluationSound, JudgedAt
  <2> QED BY <1>3, <2>2, <2>3 DEF EvaluationSound
<1> QED BY <1>1, <1>2, <1>4 DEF LoneInv

\* The embedding's judgement reaches an evaluation at the rest.
LEMMA EmbeddingJudges ==
  ASSUME LoneInv, NEW new, NEW said, NEW from \in {"embedding", "embedding_catalog"},
         Lone!Adds(e1, new, said), Lone!Moves(e1, from, "rest"), app' = app,
         DOMAIN new = {"embedding"}, Lone!Valid("embedding", new["embedding"]),
         DOMAIN said \cap DOMAIN heard[e1] = {}, DOMAIN said \subseteq {"catalog"},
         CatalogKnown(said),
         EmbeddingJudged(app, checks'[e1], heard'[e1])
  PROVE  LoneInv'
<1>1. /\ at[e1] = from /\ at' = [at EXCEPT ![e1] = "rest"]
  BY DEF Lone!Moves
<1>2. /\ DOMAIN checks[e1] \subseteq {"database", "vector_store", "corpus", "provider", "model"}
      /\ DOMAIN heard[e1] \subseteq {"database", "route", "beats", "corpus", "gemini", "catalog"}
      /\ DatabaseJudged(checks[e1], heard[e1]) /\ RouteJudged(app, checks[e1], heard[e1])
      /\ ProviderJudged(app, checks[e1], heard[e1])
  BY <1>1 DEF LoneInv, EvaluationSound, JudgedAt, CheckedBy, HeardBy
<1>3. /\ DOMAIN new \cap DOMAIN checks[e1] = {}
      /\ DOMAIN checks[e1] \cup DOMAIN new \subseteq CheckedBy("rest")
      /\ DOMAIN heard[e1] \cup DOMAIN said \subseteq HeardBy("rest")
      /\ "rest" \in Place
  BY <1>2 DEF CheckedBy, HeardBy, Place
<1>4. PICK c, h : c = checks'[e1] /\ h = heard'[e1] OBVIOUS
<1>5. /\ Continues(c, checks[e1]) /\ Continues(h, heard[e1])
  BY <1>3, <1>4, Added
<1>6. JudgedAt(app, "rest", c, h)
  <2>1. DatabaseJudged(c, h) /\ RouteJudged(app, c, h) /\ ProviderJudged(app, c, h)
    BY <1>2, <1>5, JudgedStays
  <2> QED BY <1>4, <2>1 DEF JudgedAt
<1>7. \A d \in DOMAIN new : Lone!Valid(d, new[d]) OBVIOUS
<1>8. JudgedAt(app, "rest", checks'[e1], heard'[e1]) BY <1>4, <1>6
<1> QED BY <1>1, <1>3, <1>7, <1>8, MovesOn

LEMMA EmbeddingAsked ==
  ASSUME LoneInv, Lone!Embedding(e1)
  PROVE  LoneInv'
<1>1. /\ Lone!Moves(e1, "embedding", "rest") /\ app' = app /\ at[e1] = "embedding"
      /\ app.embedding = "ollama" /\ app.embedding_named => "catalog" \in DOMAIN heard[e1]
  BY DEF Lone!Embedding, Lone!Asked, Lone!Moves
<1>2. PICK check :
        /\ Lone!Adds(e1, [embedding |-> check], <<>>)
        /\ Lone!Valid("embedding", check)
        /\ app.embedding = "fake" => check = Lone!Ready
        /\ app.embedding = "ollama" /\ ~ app.embedding_named => check = Lone!Unknown("misconfigured")
        /\ app.embedding = "ollama" /\ app.embedding_named =>
             check = Lone!EmbeddingCheck(heard[e1].catalog) /\ heard[e1].catalog \in Lone!CatalogAnswer
  <2>1. CASE app.embedding = "fake" /\ Lone!Adds(e1, [embedding |-> Lone!Ready], <<>>)
    <3>1. Lone!Valid("embedding", Lone!Ready) BY DEF Lone!Valid, Lone!Ready, Lone!Check
    <3> QED BY <2>1, <3>1
  <2>2. CASE /\ app.embedding = "ollama" /\ ~ app.embedding_named
             /\ Lone!Adds(e1, [embedding |-> Lone!Unknown("misconfigured")], <<>>)
    <3>1. Lone!Valid("embedding", Lone!Unknown("misconfigured"))
      BY DEF Lone!Valid, Lone!Unknown, Lone!Check
    <3> QED BY <2>2, <3>1
  <2>3. CASE /\ app.embedding = "ollama" /\ app.embedding_named
             /\ Lone!Adds(e1, [embedding |-> Lone!EmbeddingCheck(heard[e1].catalog)], <<>>)
    <3>1. PICK catalog : catalog = heard[e1].catalog OBVIOUS
    <3>2. catalog \in Lone!CatalogAnswer
      BY <1>1, <2>3, <3>1 DEF LoneInv, EvaluationSound, CatalogKnown
    <3>3. Lone!Valid("embedding", Lone!EmbeddingCheck(catalog)) BY <3>2, OllamaStands
    <3> QED BY <2>3, <3>1, <3>2, <3>3
  <2> QED BY <2>1, <2>2, <2>3, Zenon DEF Lone!Embedding
<1>3. PICK new, said : new = [embedding |-> check] /\ said = <<>> OBVIOUS
<1>4. DOMAIN new = {"embedding"} /\ new["embedding"] = check /\ DOMAIN said = {} BY <1>3
<1>5. /\ DOMAIN said \cap DOMAIN heard[e1] = {} /\ DOMAIN said \subseteq {"catalog"}
      /\ CatalogKnown(said) /\ Lone!Adds(e1, new, said)
  BY <1>2, <1>3, <1>4 DEF CatalogKnown
<1>6. DOMAIN new \cap DOMAIN checks[e1] = {}
  BY <1>1, <1>4 DEF LoneInv, EvaluationSound, CheckedBy
<1>7. /\ Continues(checks'[e1], new) /\ Continues(heard'[e1], heard[e1])
  BY <1>5, <1>6, Added
<1>8. EmbeddingJudged(app, checks'[e1], heard'[e1])
  BY <1>1, <1>2, <1>4, <1>7 DEF EmbeddingJudged, Continues
<1>9. Lone!Valid("embedding", new["embedding"]) BY <1>2, <1>4
<1> QED BY <1>1, <1>4, <1>5, <1>8, <1>9, EmbeddingJudges

LEMMA EmbeddingCatalogRead ==
  ASSUME LoneInv, Lone!EmbeddingCatalog(e1)
  PROVE  LoneInv'
<1>0. app.embedding = "ollama" /\ app.embedding_named
  BY DEF Lone!EmbeddingCatalog, Lone!Moves, LoneInv, EvaluationSound, JudgedAt
<1>1. Lone!Moves(e1, "embedding_catalog", "rest") /\ app' = app /\ at[e1] = "embedding_catalog"
  BY DEF Lone!EmbeddingCatalog, Lone!Moves
<1>2. PICK catalog \in AnyAnswers.catalog :
        Lone!Adds(e1, [embedding |-> Lone!EmbeddingCheck(catalog)], [catalog |-> catalog])
  BY Zenon DEF Lone!EmbeddingCatalog
<1>3. PICK new, said : new = [embedding |-> Lone!EmbeddingCheck(catalog)] /\ said = [catalog |-> catalog]
  OBVIOUS
<1>4. /\ DOMAIN new = {"embedding"} /\ new["embedding"] = Lone!EmbeddingCheck(catalog)
      /\ DOMAIN said = {"catalog"} /\ said["catalog"] = catalog
  BY <1>3
<1>5. catalog \in Lone!CatalogAnswer BY AnswersAre
<1>6. /\ DOMAIN checks[e1] \subseteq {"database", "vector_store", "corpus", "provider", "model"}
      /\ DOMAIN heard[e1] \subseteq {"database", "route", "beats", "corpus", "gemini"}
  BY <1>1 DEF LoneInv, EvaluationSound, CheckedBy, HeardBy
<1>7. /\ DOMAIN new \cap DOMAIN checks[e1] = {} /\ DOMAIN said \cap DOMAIN heard[e1] = {}
      /\ DOMAIN said \subseteq {"catalog"} /\ CatalogKnown(said) /\ Lone!Adds(e1, new, said)
  BY <1>2, <1>3, <1>4, <1>5, <1>6 DEF CatalogKnown
<1>8. Continues(checks'[e1], new) /\ Continues(heard'[e1], said)
  BY <1>7, Added
<1>9. EmbeddingJudged(app, checks'[e1], heard'[e1])
  BY <1>0, <1>4, <1>5, <1>8 DEF EmbeddingJudged, Continues
<1>10. Lone!Valid("embedding", new["embedding"]) BY <1>4, <1>5, OllamaStands
<1> QED BY <1>1, <1>4, <1>7, <1>9, <1>10, EmbeddingJudges

LEMMA RestAsked ==
  ASSUME LoneInv, Lone!Rest(e1)
  PROVE  LoneInv'
<1>1. /\ at[e1] = "rest" /\ at' = [at EXCEPT ![e1] = "done"] /\ app' = app
  BY DEF Lone!Rest, Lone!Moves
<1> DEFINE exact == Lone!ExactCheck(heard[e1].route)
           Paid(b) == IF app.budget THEN Lone!BudgetCheck(b) ELSE Lone!NotRequired
<1>2. PICK budget \in IF app.budget THEN AnyAnswers.budget ELSE {"none"},
           mode \in AnyAnswers.deployment_mode :
        Lone!Adds(e1, [exact_corpus |-> exact, budget |-> Paid(budget),
                       deployment_mode |-> Lone!Boolean(mode)],
                      [budget |-> budget, deployment_mode |-> mode])
  BY Zenon DEF Lone!Rest
<1>3. PICK new, said :
        /\ new = [exact_corpus |-> exact, budget |-> Paid(budget),
                  deployment_mode |-> Lone!Boolean(mode)]
        /\ said = [budget |-> budget, deployment_mode |-> mode]
  OBVIOUS
<1>4. /\ DOMAIN new = {"exact_corpus", "budget", "deployment_mode"}
      /\ new["exact_corpus"] = exact /\ new["budget"] = Paid(budget)
      /\ new["deployment_mode"] = Lone!Boolean(mode)
      /\ DOMAIN said = {"budget", "deployment_mode"}
      /\ said["budget"] = budget /\ said["deployment_mode"] = mode
  BY <1>3
<1>5. /\ mode \in {"yes", "no"} \cup Lone!Failures
      /\ app.budget =>
           budget \in {"ready", "budget_exhausted", "budget_overrun", "accounting_uncertain"}
                        \cup Lone!Failures
  BY AnswersAre
<1>6. /\ DOMAIN checks[e1] \subseteq
           {"database", "vector_store", "corpus", "provider", "model", "embedding"}
      /\ DOMAIN heard[e1] \subseteq {"database", "route", "beats", "corpus", "gemini", "catalog"}
      /\ DatabaseJudged(checks[e1], heard[e1]) /\ RouteJudged(app, checks[e1], heard[e1])
      /\ ProviderJudged(app, checks[e1], heard[e1]) /\ EmbeddingJudged(app, checks[e1], heard[e1])
  BY <1>1 DEF LoneInv, EvaluationSound, JudgedAt, CheckedBy, HeardBy
<1>7. exact = ExactOf(app.profile, heard[e1].route)
  BY DEF Lone!ExactCheck, ExactOf
<1>8. /\ "done" \in Place /\ Lone!Adds(e1, new, said)
      /\ DOMAIN new \cap DOMAIN checks[e1] = {} /\ DOMAIN said \cap DOMAIN heard[e1] = {}
      /\ DOMAIN checks[e1] \cup DOMAIN new \subseteq CheckedBy("done")
      /\ DOMAIN heard[e1] \cup DOMAIN said \subseteq HeardBy("done")
      /\ CatalogKnown(said)
  BY <1>2, <1>3, <1>4, <1>6 DEF Place, CheckedBy, HeardBy, CatalogKnown
<1>9. \A d \in DOMAIN new : Lone!Valid(d, new[d])
  <2>1. Lone!Valid("exact_corpus", exact) BY <1>6, <1>7, ExactStands DEF RouteJudged
  <2>2. Lone!Valid("budget", Paid(budget))
    <3>1. Lone!Valid("budget", Lone!NotRequired) BY DEF Lone!Valid, Lone!NotRequired, Lone!Check
    <3> QED BY <1>5, <3>1, BudgetStands
  <2>3. Lone!Valid("deployment_mode", Lone!Boolean(mode)) BY <1>5, BooleanStands
  <2> HIDE DEF exact, Paid
  <2> QED BY <1>4, <2>1, <2>2, <2>3
<1> HIDE DEF exact
<1>10. PICK c, h : c = checks'[e1] /\ h = heard'[e1] OBVIOUS
<1>11. /\ Continues(c, checks[e1]) /\ Continues(h, heard[e1])
       /\ Continues(c, new) /\ Continues(h, said)
  BY <1>8, <1>10, Added
<1>12. JudgedAt(app, "done", c, h)
  <2>1. DatabaseJudged(c, h) /\ RouteJudged(app, c, h)
    BY <1>6, <1>11, JudgedStays
  <2>2. ProviderJudged(app, c, h) /\ EmbeddingJudged(app, c, h)
    BY <1>6, <1>11, JudgedStays
  <2>3. "route" \in DOMAIN h /\ h["route"] = heard[e1]["route"]
    BY <1>6, <1>11 DEF Continues, RouteJudged
  <2>4. RestJudged(app, c, h)
    <3>1. /\ {"exact_corpus", "budget", "deployment_mode"} \subseteq DOMAIN c
          /\ {"budget", "deployment_mode"} \subseteq DOMAIN h
          /\ c["exact_corpus"] = exact /\ c["budget"] = Paid(budget)
          /\ c["deployment_mode"] = Lone!Boolean(mode)
          /\ h["budget"] = budget /\ h["deployment_mode"] = mode
      BY <1>4, <1>11 DEF Continues
    <3> QED BY <1>5, <1>7, <2>3, <3>1 DEF RestJudged
  <2> QED BY <2>1, <2>2, <2>4 DEF JudgedAt
<1>13. JudgedAt(app, "done", checks'[e1], heard'[e1]) BY <1>10, <1>12
<1> QED BY <1>1, <1>8, <1>9, <1>13, MovesOn

LEMMA LoneStarts ==
  ASSUME Lone!Init
  PROVE  LoneInv
<1>1. app \in Lone!Composition BY BoundsAssumption DEF Lone!Init, Lone!ReadinessBounds
<1>2. /\ at = [e \in {e1} |-> "database"] /\ checks = [e \in {e1} |-> <<>>]
      /\ heard = [e \in {e1} |-> <<>>]
  BY DEF Lone!Init
<1>3. PICK c : c = <<>> OBVIOUS
<1>4. DOMAIN c = {} BY <1>3
<1>5. EvaluationSound(app, "database", c, c)
  BY <1>4 DEF EvaluationSound, JudgedAt, CatalogKnown, Place
<1>6. at[e1] = "database" /\ checks[e1] = c /\ heard[e1] = c BY <1>2, <1>3
<1>7. /\ at = [e \in {e1} |-> at[e]] /\ checks = [e \in {e1} |-> checks[e]]
      /\ heard = [e \in {e1} |-> heard[e]]
  BY <1>2
<1> QED BY <1>1, <1>5, <1>6, <1>7 DEF LoneInv

LEMMA LoneStep == LoneInv /\ [Lone!Next]_readinessVars => LoneInv'
<1> SUFFICES ASSUME LoneInv, [Lone!Next]_readinessVars PROVE LoneInv'
  OBVIOUS
<1>1. CASE UNCHANGED readinessVars
  BY <1>1 DEF readinessVars, LoneInv
<1>2. CASE Lone!ReadForProvider(e1)
  <2>1. /\ at[e1] = "provider" /\ at' = [at EXCEPT ![e1] = "provider_catalog"]
        /\ app.provider = "ollama" /\ app.provider_named /\ UNCHANGED <<app, checks, heard>>
    BY <1>2 DEF Lone!ReadForProvider, Lone!Moves
  <2>2. "provider_catalog" \in Place BY DEF Place
  <2> QED BY <2>1, <2>2, OnlyMoves
<1>3. CASE Lone!ReadForEmbedding(e1)
  <2>1. /\ at[e1] = "embedding" /\ at' = [at EXCEPT ![e1] = "embedding_catalog"]
        /\ app.embedding = "ollama" /\ app.embedding_named /\ "catalog" \notin DOMAIN heard[e1]
        /\ UNCHANGED <<app, checks, heard>>
    BY <1>3 DEF Lone!ReadForEmbedding, Lone!Moves, Lone!Asked
  <2>2. "embedding_catalog" \in Place BY DEF Place
  <2> QED BY <2>1, <2>2, OnlyMoves
<1>4. CASE Lone!Cancel(e1)
  <2>1. at' = [at EXCEPT ![e1] = "cancelled"] /\ UNCHANGED <<app, checks, heard>>
    BY <1>4 DEF Lone!Cancel
  <2>2. "cancelled" \in Place BY DEF Place
  <2> QED BY <2>1, <2>2, OnlyMoves
<1>5. ASSUME Lone!Next
      PROVE  \/ Lone!Database(e1) \/ Lone!RouteAndCorpus(e1) \/ Lone!Provider(e1)
             \/ Lone!ReadForProvider(e1) \/ Lone!ProviderCatalog(e1)
             \/ Lone!Embedding(e1) \/ Lone!ReadForEmbedding(e1) \/ Lone!EmbeddingCatalog(e1)
             \/ Lone!Rest(e1) \/ Lone!Cancel(e1)
  BY <1>5 DEF Lone!Next
<1> QED
  BY <1>1, <1>2, <1>3, <1>4, <1>5, DatabaseAsked, RouteAsked, ProviderAsked,
     ProviderCatalogRead, EmbeddingAsked, EmbeddingCatalogRead, RestAsked

-----------------------------------------------------------------------------
(* Readiness: what a whole evaluation reports.                             *)

\* A check does not stand in the way of readiness.
Lets(check) == check.required => check.state = "ready"

\* By dimension: when a check lets the report be ready, and what else of it a
\* property speaks of.
LEMMA BooleanLets ==
  ASSUME NEW answer \in {"yes", "no"} \cup Lone!Failures
  PROVE  /\ Lets(Lone!Boolean(answer)) <=> answer = "yes"
         /\ Lets(Lone!Boolean(answer)) => Lone!Boolean(answer).state = "ready"
<1> USE DEF Lets, Lone!Boolean, Lone!Ready, Lone!NotReady, Lone!Unknown, Lone!Check, Lone!Failures
<1>1. CASE answer = "yes" BY <1>1
<1>2. CASE answer = "no" BY <1>2
<1>3. CASE answer \in {"unavailable", "misconfigured"} BY <1>3
<1> QED BY <1>1, <1>2, <1>3

LEMMA VectorLets ==
  ASSUME NEW route \in {"exact", "static", "store_unready", "unreachable"} \cup Lone!Failures,
         NEW beats \in BOOLEAN
  PROVE  LET check == Lone!VectorCheck(route, beats)
         IN /\ Lets(check) <=> beats /\ route \in {"exact", "static"}
            /\ Lets(check) <=> check.state = "ready"
<1> USE DEF Lets, Lone!VectorCheck, Lone!Ready, Lone!NotReady, Lone!Unknown, Lone!Check, Lone!Failures
<1>1. CASE route \in {"unavailable", "misconfigured"} BY <1>1
<1>2. CASE route \notin {"unavailable", "misconfigured"} /\ ~ beats BY <1>2
<1>3. CASE beats /\ route = "unreachable" BY <1>3
<1>4. CASE beats /\ route = "store_unready" BY <1>4
<1>5. CASE beats /\ route \in {"exact", "static"} BY <1>5
<1> QED BY <1>1, <1>2, <1>3, <1>4, <1>5

LEMMA ExactLets ==
  ASSUME NEW route \in {"exact", "static", "store_unready", "unreachable"} \cup Lone!Failures,
         NEW profile
  PROVE  LET check == ExactOf(profile, route)
         IN /\ Lets(check) <=> profile # "lifecycle_exact" \/ route = "exact"
            /\ Lets(check) => check.state \in {"ready", "not_required"}
            /\ check.state \in {"ready", "not_ready"} <=>
                 profile = "lifecycle_exact" /\ route \in {"exact", "static"}
<1> USE DEF Lets, ExactOf, Lone!Ready, Lone!NotReady, Lone!Unknown, Lone!NotRequired, Lone!Check,
            Lone!Failures
<1>1. CASE profile # "lifecycle_exact" BY <1>1
<1>2. CASE profile = "lifecycle_exact" /\ route \in {"unavailable", "misconfigured"} BY <1>2
<1>3. CASE profile = "lifecycle_exact" /\ route \in {"unreachable", "store_unready"} BY <1>3
<1>4. CASE profile = "lifecycle_exact" /\ route = "static" BY <1>4
<1>5. CASE profile = "lifecycle_exact" /\ route = "exact" BY <1>5
<1> QED BY <1>1, <1>2, <1>3, <1>4, <1>5

LEMMA BudgetLets ==
  ASSUME NEW answer \in {"ready", "budget_exhausted", "budget_overrun", "accounting_uncertain"}
                          \cup Lone!Failures
  PROVE  Lets(Lone!BudgetCheck(answer)) <=> answer = "ready"
<1> USE DEF Lets, Lone!BudgetCheck, Lone!Ready, Lone!NotReady, Lone!Unknown, Lone!Check, Lone!Failures
<1>1. CASE answer = "ready" BY <1>1
<1>2. CASE answer \in {"budget_exhausted", "budget_overrun"} BY <1>2
<1>3. CASE answer \in {"accounting_uncertain", "unavailable", "misconfigured"} BY <1>3
<1> QED BY <1>1, <1>2, <1>3

LEMMA GeminiLets ==
  ASSUME NEW answer \in {"serves", "model_missing", "unreachable"} \cup Lone!Failures
  PROVE  LET j == Lone!GeminiChecks(answer)
         IN /\ Lets(j.provider) /\ Lets(j.model) <=> answer = "serves"
            /\ j.model.state \in {"ready", "not_ready"} => j.provider.state = "ready"
<1> USE DEF Lets, Lone!GeminiChecks, Lone!Ready, Lone!NotReady, Lone!Unknown, Lone!Check, Lone!Failures
<1>1. CASE answer \in {"unavailable", "misconfigured"} BY <1>1
<1>2. CASE answer = "unreachable" BY <1>2
<1>3. CASE answer = "model_missing" BY <1>3
<1>4. CASE answer = "serves" BY <1>4
<1> QED BY <1>1, <1>2, <1>3, <1>4

LEMMA OllamaLets ==
  ASSUME NEW catalog \in Lone!CatalogAnswer
  PROVE  LET j == Lone!OllamaChecks(catalog)
             k == Lone!EmbeddingCheck(catalog)
             reached == catalog.kind = "reached"
         IN /\ Lets(j.provider) /\ Lets(j.model) <=> reached /\ "provider_model" \in catalog.names
            /\ Lets(k) <=> reached /\ "embedding_model" \in catalog.names
            /\ j.model.state \in {"ready", "not_ready"} => j.provider.state = "ready"
            /\ Lone!Reached(j.provider) <=> Lone!Reached(k)
            /\ j.provider.state = "unknown" <=> k.state = "unknown"
<1>1. catalog.kind \in {"unreachable", "unavailable", "misconfigured", "reached"}
  BY DEF Lone!CatalogAnswer, Lone!Failures
<1> USE DEF Lets, Lone!OllamaChecks, Lone!EmbeddingCheck, Lone!ModelCheck, Lone!Ready, Lone!Reached,
            Lone!NotReady, Lone!Unknown, Lone!Check, Lone!Failures
<1>2. CASE catalog.kind \in {"unavailable", "misconfigured"} BY <1>2
<1>3. CASE catalog.kind = "unreachable" BY <1>3
<1>4. CASE catalog.kind = "reached"
  <2> DEFINE m == Lone!ModelCheck(catalog, "provider_model")
             k == Lone!ModelCheck(catalog, "embedding_model")
  <2>1. /\ Lone!OllamaChecks(catalog) = [provider |-> Lone!Ready, model |-> m]
        /\ Lone!EmbeddingCheck(catalog) = k
    BY <1>4
  <2>2. /\ m \in {Lone!Ready, Lone!NotReady("model_missing")}
        /\ m = Lone!Ready <=> "provider_model" \in catalog.names
        /\ k \in {Lone!Ready, Lone!NotReady("model_missing")}
        /\ k = Lone!Ready <=> "embedding_model" \in catalog.names
    OBVIOUS
  <2> HIDE DEF m, k
  <2>3. Lets(m) <=> "provider_model" \in catalog.names BY <2>2
  <2>4. /\ Lets(k) <=> "embedding_model" \in catalog.names
        /\ Lone!Reached(k) /\ k.state # "unknown"
    BY <2>2
  <2>5. Lets(Lone!Ready) /\ Lone!Reached(Lone!Ready) /\ Lone!Ready.state = "ready" OBVIOUS
  <2>6. /\ Lone!OllamaChecks(catalog).provider = Lone!Ready
        /\ Lone!OllamaChecks(catalog).model = m
    <3> HIDE DEF Lone!OllamaChecks, Lone!Ready
    <3> QED BY <2>1
  <2> HIDE DEF Lone!OllamaChecks, Lone!EmbeddingCheck, Lone!Ready, Lets, Lone!Reached
  <2> QED BY <1>4, <2>1, <2>3, <2>4, <2>5, <2>6
<1> QED BY <1>1, <1>2, <1>3, <1>4

LEMMA ExactJudged ==
  ASSUME NEW a, NEW c, NEW h, RouteJudged(a, c, h), RestJudged(a, c, h)
  PROVE  /\ Lets(c.exact_corpus) <=> a.profile # "lifecycle_exact" \/ h.route = "exact"
         /\ Lets(c.exact_corpus) => c.exact_corpus.state \in {"ready", "not_required"}
         /\ c.exact_corpus.state \in {"ready", "not_ready"} =>
              a.profile = "lifecycle_exact" /\ h.route \in {"exact", "static"}
<1>1. PICK route, profile, check :
        route = h.route /\ profile = a.profile /\ check = c.exact_corpus
  OBVIOUS
<1>2. /\ route \in {"exact", "static", "store_unready", "unreachable"} \cup Lone!Failures
      /\ check = ExactOf(profile, route)
  BY <1>1 DEF RouteJudged, RestJudged
<1>3. /\ Lets(check) <=> profile # "lifecycle_exact" \/ route = "exact"
      /\ Lets(check) => check.state \in {"ready", "not_required"}
      /\ check.state \in {"ready", "not_ready"} <=>
           profile = "lifecycle_exact" /\ route \in {"exact", "static"}
  BY <1>2, ExactLets
<1> QED BY <1>1, <1>3

\* What a whole evaluation's checks come to, part by part of the composition.
LEMMA PartsLet ==
  ASSUME NEW a \in Lone!Composition, NEW c, NEW h, JudgedAt(a, "done", c, h)
  PROVE  /\ Lets(c.database) <=> h.database = "yes"
         /\ Lets(c.vector_store) <=> h.beats /\ h.route \in {"exact", "static"}
         /\ Lets(c.corpus) <=> h.corpus = "yes"
         /\ Lets(c.provider) /\ Lets(c.model) <=>
              /\ a.provider = "gemini" => h.gemini = "serves"
              /\ a.provider = "ollama" =>
                   /\ a.provider_named /\ h.catalog.kind = "reached"
                   /\ "provider_model" \in h.catalog.names
         /\ Lets(c.embedding) <=>
              (a.embedding = "ollama" =>
                 /\ a.embedding_named /\ h.catalog.kind = "reached"
                 /\ "embedding_model" \in h.catalog.names)
         /\ Lets(c.exact_corpus) <=> a.profile # "lifecycle_exact" \/ h.route = "exact"
         /\ Lets(c.budget) <=> (a.budget => h.budget = "ready")
         /\ Lets(c.deployment_mode) <=> h.deployment_mode = "yes"
<1>1. /\ DatabaseJudged(c, h) /\ RouteJudged(a, c, h) /\ ProviderJudged(a, c, h)
      /\ EmbeddingJudged(a, c, h) /\ RestJudged(a, c, h)
  BY DEF JudgedAt
<1>2. Lets(Lone!Ready) /\ Lets(Lone!NotRequired) /\ ~ Lets(Lone!Unknown("misconfigured"))
  BY DEF Lets, Lone!Ready, Lone!NotRequired, Lone!Unknown, Lone!Check
<1>3. Lets(c.database) <=> h.database = "yes"
  BY <1>1, BooleanLets DEF DatabaseJudged
<1>4. /\ Lets(c.vector_store) <=> h.beats /\ h.route \in {"exact", "static"}
      /\ Lets(c.corpus) <=> h.corpus = "yes"
  BY <1>1, BooleanLets, VectorLets DEF RouteJudged
<1>5. Lets(c.provider) /\ Lets(c.model) <=>
        /\ a.provider = "gemini" => h.gemini = "serves"
        /\ a.provider = "ollama" =>
             /\ a.provider_named /\ h.catalog.kind = "reached"
             /\ "provider_model" \in h.catalog.names
  <2>1. CASE a.provider = "echo" BY <1>1, <1>2, <2>1 DEF ProviderJudged
  <2>2. CASE a.provider = "gemini" BY <1>1, <2>2, GeminiLets DEF ProviderJudged
  <2>3. CASE a.provider = "ollama" /\ a.provider_named
    BY <1>1, <2>3, OllamaLets DEF ProviderJudged
  <2>4. CASE a.provider = "ollama" /\ ~ a.provider_named
    BY <1>1, <1>2, <2>4 DEF ProviderJudged
  <2> QED BY <2>1, <2>2, <2>3, <2>4 DEF Lone!Composition
<1>6. Lets(c.embedding) <=>
        (a.embedding = "ollama" =>
           /\ a.embedding_named /\ h.catalog.kind = "reached"
           /\ "embedding_model" \in h.catalog.names)
  <2>1. CASE a.embedding = "fake" BY <1>1, <1>2, <2>1 DEF EmbeddingJudged
  <2>2. CASE a.embedding = "ollama" /\ a.embedding_named
    BY <1>1, <2>2, OllamaLets DEF EmbeddingJudged
  <2>3. CASE a.embedding = "ollama" /\ ~ a.embedding_named
    BY <1>1, <1>2, <2>3 DEF EmbeddingJudged
  <2> QED BY <2>1, <2>2, <2>3 DEF Lone!Composition
<1>7. Lets(c.exact_corpus) <=> a.profile # "lifecycle_exact" \/ h.route = "exact"
  BY <1>1, ExactJudged
<1>8. Lets(c.budget) <=> (a.budget => h.budget = "ready")
  BY <1>1, <1>2, BudgetLets DEF RestJudged
<1>9. Lets(c.deployment_mode) <=> h.deployment_mode = "yes"
  BY <1>1, BooleanLets DEF RestJudged
<1> QED BY <1>3, <1>4, <1>5, <1>6, <1>7, <1>8, <1>9

LEMMA ReadinessSound ==
  ASSUME LoneInv
  PROVE  /\ Lone!EveryCheckStands /\ Lone!ReadyIsServing /\ Lone!OllamaSpokeOnce
         /\ Lone!OutagesAreNotBlamed /\ Lone!PublicFactsAgree
<1>1. PICK c, h : c = checks[e1] /\ h = heard[e1] OBVIOUS
<1>2. EvaluationSound(app, at[e1], c, h) /\ app \in Lone!Composition BY <1>1 DEF LoneInv
<1>3. Lone!EveryCheckStands
  <2>1. \A d \in DOMAIN c : Lone!Valid(d, c[d]) BY <1>2 DEF EvaluationSound
  <2> QED BY <1>1, <2>1 DEF Lone!EveryCheckStands
<1>4. Lone!Done(e1) => JudgedAt(app, "done", c, h) BY <1>2 DEF Lone!Done, EvaluationSound
<1>5. Lone!ReportReady(e1) <=>
        /\ Lets(c.database) /\ Lets(c.vector_store) /\ Lets(c.corpus) /\ Lets(c.provider)
        /\ Lets(c.model) /\ Lets(c.embedding) /\ Lets(c.exact_corpus) /\ Lets(c.budget)
        /\ Lets(c.deployment_mode)
  BY <1>1 DEF Lone!ReportReady, Lone!Dimension, Lets
<1>6. Lone!ReadyIsServing
  <2> SUFFICES ASSUME Lone!Done(e1) PROVE Lone!ReportReady(e1) <=> Lone!Serves(e1)
    BY DEF Lone!ReadyIsServing
  <2>1. RouteJudged(app, c, h) BY <1>4 DEF JudgedAt
  <2>2. Lone!Serves(e1) <=>
          /\ h.database = "yes" /\ h.corpus = "yes" /\ h.deployment_mode = "yes"
          /\ app.valid
          /\ h.route \in IF app.profile = "lifecycle_exact" THEN {"exact"} ELSE {"exact", "static"}
          /\ app.profile = "local_static" => h.beats
          /\ app.provider = "gemini" => h.gemini = "serves"
          /\ app.provider = "ollama" =>
               /\ app.provider_named /\ h.catalog.kind = "reached"
               /\ "provider_model" \in h.catalog.names
          /\ app.embedding = "ollama" =>
               /\ app.embedding_named /\ h.catalog.kind = "reached"
               /\ "embedding_model" \in h.catalog.names
          /\ app.budget => h.budget = "ready"
    BY <1>1 DEF Lone!Serves
  <2>3. /\ app.valid
        /\ h.route \in IF app.profile = "lifecycle_exact" THEN {"exact"} ELSE {"exact", "static"}
        /\ app.profile = "local_static" => h.beats
        <=> /\ h.beats /\ h.route \in {"exact", "static"}
            /\ app.profile # "lifecycle_exact" \/ h.route = "exact"
    BY <1>2, <2>1 DEF RouteJudged, Lone!Composition
  <2> QED BY <1>2, <1>4, <1>5, <2>2, <2>3, PartsLet
<1>7. Lone!OllamaSpokeOnce
  <2> SUFFICES ASSUME Lone!Done(e1), app.provider = "ollama", app.embedding = "ollama",
                      app.provider_named, app.embedding_named
               PROVE  /\ Lone!Reached(c.provider) <=> Lone!Reached(c.embedding)
                      /\ c.provider.state = "unknown" <=> c.embedding.state = "unknown"
    BY <1>1 DEF Lone!OllamaSpokeOnce
  <2>1. /\ c.provider = Lone!OllamaChecks(h.catalog).provider
        /\ c.embedding = Lone!EmbeddingCheck(h.catalog) /\ h.catalog \in Lone!CatalogAnswer
    BY <1>4 DEF JudgedAt, ProviderJudged, EmbeddingJudged
  <2> QED BY <2>1, OllamaLets
<1>8. Lone!OutagesAreNotBlamed
  <2> SUFFICES ASSUME Lone!Done(e1)
               PROVE  /\ c.model.state \in {"ready", "not_ready"} => c.provider.state = "ready"
                      /\ c.exact_corpus.state \in {"ready", "not_ready"} =>
                           c.vector_store.state = "ready"
    BY <1>1 DEF Lone!OutagesAreNotBlamed
  <2>1. /\ ProviderJudged(app, c, h) /\ RouteJudged(app, c, h) /\ RestJudged(app, c, h)
    BY <1>4 DEF JudgedAt
  <2>2. c.model.state \in {"ready", "not_ready"} => c.provider.state = "ready"
    <3>1. CASE app.provider = "echo"
      BY <2>1, <3>1 DEF ProviderJudged, Lone!Ready, Lone!NotRequired, Lone!Check
    <3>2. CASE app.provider = "gemini"
      <4>1. PICK answer : answer = h.gemini OBVIOUS
      <4>2. /\ answer \in {"serves", "model_missing", "unreachable"} \cup Lone!Failures
            /\ c.provider = Lone!GeminiChecks(answer).provider
            /\ c.model = Lone!GeminiChecks(answer).model
        BY <2>1, <3>2, <4>1 DEF ProviderJudged
      <4> QED BY <4>2, GeminiLets
    <3>3. CASE app.provider = "ollama" /\ app.provider_named
      BY <2>1, <3>3, OllamaLets DEF ProviderJudged
    <3>4. CASE app.provider = "ollama" /\ ~ app.provider_named
      BY <2>1, <3>4 DEF ProviderJudged, Lone!Unknown, Lone!Check
    <3> QED BY <1>2, <3>1, <3>2, <3>3, <3>4 DEF Lone!Composition
  <2>3. c.exact_corpus.state \in {"ready", "not_ready"} => c.vector_store.state = "ready"
    <3>1. c.exact_corpus.state \in {"ready", "not_ready"} =>
            app.profile = "lifecycle_exact" /\ h.route \in {"exact", "static"}
      BY <2>1, ExactJudged
    <3>2. h.beats /\ h.route \in {"exact", "static"} => c.vector_store.state = "ready"
      BY <2>1, VectorLets DEF RouteJudged
    <3> QED BY <2>1, <3>1, <3>2 DEF RouteJudged
  <2> QED BY <2>2, <2>3
<1>9. Lone!PublicFactsAgree
  <2> SUFFICES ASSUME Lone!Done(e1), Lone!ReportReady(e1)
               PROVE  \A fact \in DOMAIN Lone!PublicChecks(e1) : Lone!PublicChecks(e1)[fact]
    BY DEF Lone!PublicFactsAgree
  <2>1. DatabaseJudged(c, h) /\ RouteJudged(app, c, h) /\ RestJudged(app, c, h)
    BY <1>4 DEF JudgedAt
  <2>2. /\ c.database.state = "ready" /\ c.vector_store.state = "ready"
        /\ c.corpus.state = "ready" /\ c.exact_corpus.state \in {"ready", "not_required"}
    <3>1. c.database.state = "ready" BY <1>5, <2>1, BooleanLets DEF DatabaseJudged
    <3>2. c.vector_store.state = "ready" BY <1>5, <2>1, VectorLets DEF RouteJudged
    <3>3. c.corpus.state = "ready" BY <1>5, <2>1, BooleanLets DEF RouteJudged
    <3>4. c.exact_corpus.state \in {"ready", "not_required"}
      BY <1>5, <2>1, ExactJudged
    <3> QED BY <3>1, <3>2, <3>3, <3>4
  <2> DEFINE public == Lone!PublicChecks(e1)
  <2>3. /\ DOMAIN public = {"database", "vector_store", "corpus"}
        /\ public["database"] = (c.database.state = "ready")
        /\ public["vector_store"] = (c.vector_store.state = "ready")
        /\ public["corpus"] = (/\ c.corpus.state = "ready"
                               /\ c.exact_corpus.state \in {"ready", "not_required"})
    BY <1>1 DEF Lone!PublicChecks
  <2>4. public["database"] /\ public["vector_store"] /\ public["corpus"] BY <2>2, <2>3
  <2> HIDE DEF public
  <2>5. \A fact \in DOMAIN public : public[fact] BY <2>3, <2>4
  <2> QED BY <2>5 DEF public
<1> QED BY <1>3, <1>6, <1>7, <1>8, <1>9

-----------------------------------------------------------------------------
(* Readiness: the filter of the transport's logs, for any set of            *)
(* evaluations.                                                             *)

Readers == {e \in Evaluation : Several!Reading(e)}

FilterInv ==
  /\ at = [e \in Evaluation |-> at[e]]
  /\ IsFiniteSet(Readers) /\ users = Cardinality(Readers)
  /\ filtered \in BOOLEAN /\ (filtered <=> users # 0)

Kind(e, to) ==
  /\ at' = [at EXCEPT ![e] = to]
  /\ \/ /\ ~ Several!Reading(e) /\ to \in {"provider_catalog", "embedding_catalog"}
        /\ Several!Suppress
     \/ /\ Several!Reading(e) /\ to \notin {"provider_catalog", "embedding_catalog"}
        /\ Several!Restore
     \/ /\ ~ Several!Reading(e) /\ to \notin {"provider_catalog", "embedding_catalog"}
        /\ UNCHANGED <<users, filtered>>

\* An evaluation moves: it starts to read, stops, or neither.
LEMMA ReaderMoves ==
  ASSUME FilterInv, NEW e \in Evaluation, NEW to, at' = [at EXCEPT ![e] = to],
         \/ /\ ~ Several!Reading(e) /\ to \in {"provider_catalog", "embedding_catalog"}
            /\ Several!Suppress
         \/ /\ Several!Reading(e) /\ to \notin {"provider_catalog", "embedding_catalog"}
            /\ Several!Restore
         \/ /\ ~ Several!Reading(e) /\ to \notin {"provider_catalog", "embedding_catalog"}
            /\ UNCHANGED <<users, filtered>>
  PROVE  FilterInv'
<1>1. /\ at' = [q \in Evaluation |-> at'[q]] /\ at'[e] = to
      /\ \A q \in Evaluation : q # e => at'[q] = at[q]
  BY DEF FilterInv
<1>2. /\ IsFiniteSet(Readers) /\ users = Cardinality(Readers) /\ users \in Nat
      /\ filtered \in BOOLEAN /\ (filtered <=> users # 0)
  BY FS_CardinalityType DEF FilterInv
<1>3. /\ \A q : q \in Readers <=>
             q \in Evaluation /\ at[q] \in {"provider_catalog", "embedding_catalog"}
      /\ \A q : q \in Readers' <=>
             q \in Evaluation /\ at'[q] \in {"provider_catalog", "embedding_catalog"}
      /\ Several!Reading(e) <=> e \in Readers
  BY DEF Readers, Several!Reading
<1>4. CASE ~ Several!Reading(e) /\ to \in {"provider_catalog", "embedding_catalog"} /\ Several!Suppress
  <2>1. \A q : q \in Readers' <=> q \in Readers \cup {e} BY <1>1, <1>3, <1>4
  <2>2. Readers' = Readers \cup {e} BY <2>1
  <2>3. IsFiniteSet(Readers') /\ Cardinality(Readers') = users + 1
    BY <1>2, <1>3, <1>4, <2>2, FS_AddElement
  <2>4. users' = users + 1 /\ filtered' = TRUE BY <1>4 DEF Several!Suppress
  <2> QED BY <1>1, <1>2, <2>3, <2>4 DEF FilterInv
<1>5. CASE Several!Reading(e) /\ to \notin {"provider_catalog", "embedding_catalog"} /\ Several!Restore
  <2>1. \A q : q \in Readers' <=> q \in Readers \ {e} BY <1>1, <1>3, <1>5
  <2>2. Readers' = Readers \ {e} BY <2>1
  <2>3. IsFiniteSet(Readers') /\ Cardinality(Readers') = users - 1
    BY <1>2, <1>3, <1>5, <2>2, FS_RemoveElement
  <2>4. users' = users - 1 /\ filtered' = (users # 1) BY <1>5 DEF Several!Restore
  <2>5. filtered' \in BOOLEAN /\ (filtered' <=> users' # 0)
    <3> DEFINE more == users # 1
    <3>1. filtered' = more BY <2>4, Zenon
    <3>2. more <=> users' # 0 BY <1>2, <2>4
    <3>3. more \in BOOLEAN OBVIOUS
    <3> HIDE DEF more
    <3> QED BY <3>1, <3>2, <3>3, Zenon
  <2> QED BY <1>1, <2>3, <2>4, <2>5 DEF FilterInv
<1>6. CASE /\ ~ Several!Reading(e) /\ to \notin {"provider_catalog", "embedding_catalog"}
           /\ UNCHANGED <<users, filtered>>
  <2>1. \A q : q \in Readers' <=> q \in Readers BY <1>1, <1>3, <1>6
  <2>2. Readers' = Readers BY <2>1
  <2> QED BY <1>1, <1>2, <1>6, <2>2 DEF FilterInv
<1> QED BY <1>4, <1>5, <1>6

LEMMA FilterStarts ==
  ASSUME Several!Init
  PROVE  FilterInv
<1>1. /\ at = [e \in Evaluation |-> "database"] /\ users = 0 /\ filtered = FALSE
  BY DEF Several!Init
<1>2. Readers = {} BY <1>1 DEF Readers, Several!Reading
<1> QED BY <1>1, <1>2, FS_EmptySet DEF FilterInv

LEMMA FilterStep == FilterInv /\ [Several!Next]_readinessVars => FilterInv'
<1> SUFFICES ASSUME FilterInv, [Several!Next]_readinessVars PROVE FilterInv'
  OBVIOUS
<1>1. CASE UNCHANGED readinessVars
  BY <1>1 DEF readinessVars, FilterInv, Readers, Several!Reading
<1>2. CASE Several!Next
  <2>1. PICK e \in Evaluation :
          \/ Several!Database(e) \/ Several!RouteAndCorpus(e) \/ Several!Provider(e)
          \/ Several!ReadForProvider(e) \/ Several!ProviderCatalog(e)
          \/ Several!Embedding(e) \/ Several!ReadForEmbedding(e) \/ Several!EmbeddingCatalog(e)
          \/ Several!Rest(e) \/ Several!Cancel(e)
    BY <1>2 DEF Several!Next
  <2>2. PICK to : Kind(e, to)
    <3> USE DEF Several!Moves, Several!Reading, Kind
    <3>1. Several!Database(e) => Kind(e, "route") BY DEF Several!Database
    <3>2. Several!RouteAndCorpus(e) => Kind(e, "provider") BY DEF Several!RouteAndCorpus
    <3>3. Several!Provider(e) => Kind(e, "embedding") BY DEF Several!Provider
    <3>4. Several!ReadForProvider(e) => Kind(e, "provider_catalog") BY DEF Several!ReadForProvider
    <3>5. Several!ProviderCatalog(e) => Kind(e, "embedding") BY DEF Several!ProviderCatalog
    <3>6. Several!Embedding(e) => Kind(e, "rest") BY DEF Several!Embedding
    <3>7. Several!ReadForEmbedding(e) => Kind(e, "embedding_catalog") BY DEF Several!ReadForEmbedding
    <3>8. Several!EmbeddingCatalog(e) => Kind(e, "rest") BY DEF Several!EmbeddingCatalog
    <3>9. Several!Rest(e) => Kind(e, "done") BY DEF Several!Rest
    <3>10. Several!Cancel(e) => Kind(e, "cancelled")
      <4> SUFFICES ASSUME Several!Cancel(e) PROVE Kind(e, "cancelled")
        OBVIOUS
      <4>1. CASE Several!Reading(e) BY <4>1 DEF Several!Cancel
      <4>2. CASE ~ Several!Reading(e) BY <4>2 DEF Several!Cancel
      <4> QED BY <4>1, <4>2
    <3> HIDE DEF Several!Reading, Kind, Several!Moves
    <3> QED
      BY <2>1, <3>1, <3>2, <3>3, <3>4, <3>5, <3>6, <3>7, <3>8, <3>9, <3>10
  <2> QED BY <2>2, ReaderMoves DEF Kind
<1> QED BY <1>1, <1>2

LEMMA FilterSound ==
  ASSUME FilterInv
  PROVE  Several!FilteredWhileRead
<1>1. CASE Readers = {}
  <2>1. users = 0 BY <1>1, FS_EmptySet DEF FilterInv
  <2> QED BY <1>1, <2>1 DEF FilterInv, Readers, Several!FilteredWhileRead
<1>2. CASE Readers # {}
  <2>1. users # 0 BY <1>2, FS_EmptySet DEF FilterInv
  <2> QED BY <1>2, <2>1 DEF FilterInv, Readers, Several!FilteredWhileRead
<1> QED BY <1>1, <1>2

\* Of each composition of MCParts, whatever the probes answer and whenever a
\* request is cancelled: a report is ready exactly when all that is needed
\* serves, blames only what was asked, and the logs of the transport are
\* filtered exactly while any of any number of evaluations reads
\* (ReadinessEvaluator, suppress_transport_logs).
THEOREM ReadinessIsAlwaysTrue == PartsSpec => []ReadinessIsTrue
<1> DEFINE Inv == /\ part = "one_evaluation" => LoneInv
                  /\ part = "evaluations" => FilterInv
           partsVars == <<part, accountingVars, applicationVars, telemetryVars, readinessVars>>
<1>1. PartsInit => Inv
  BY LoneStarts, FilterStarts DEF PartsInit
<1>2. Inv /\ [PartsNext]_partsVars => Inv'
  <2> SUFFICES ASSUME Inv, [PartsNext]_partsVars PROVE Inv'
    OBVIOUS
  <2>1. part' = part BY DEF PartsNext
  <2>2. /\ part = "one_evaluation" => [Lone!Next]_readinessVars
        /\ part = "evaluations" => [Several!Next]_readinessVars
    BY DEF PartsNext
  <2> QED BY <2>1, <2>2, LoneStep, FilterStep
<1>3. Inv => ReadinessIsTrue
  BY ReadinessSound, FilterSound DEF ReadinessIsTrue
<1> QED BY <1>1, <1>2, <1>3, PTL DEF PartsSpec

-----------------------------------------------------------------------------
(* Static ingestion.                                                       *)

Clean == "replaced" \notin StopPoints
Quiet == EditPhases \subseteq {"serving"}

\* The corpus the next ingestion will go by.
Corpus == IF phase = "down" THEN files ELSE mounted

\* The chunks of p are those its row stands for, or were deleted before it.
Agrees(p) ==
  \/ vectors[p] = {}
  \/ /\ rows[p] # NoFile
     /\ \E t \in Title : vectors[p] = Chunks([bytes |-> rows[p].hash, title |-> t])

\* The chunks of p are those of the corpus, whatever its row says.
Ahead(p) == p \in Present(Corpus) /\ vectors[p] = Chunks(Corpus[p])

Ingested(p) ==
  /\ rows[p] # NoFile
  /\ rows[p].hash = mounted[p].bytes
  /\ vectors[p] = Chunks(mounted[p])

\* Where the process is in the corpus it has read.
PlaceInv ==
  /\ phase # "down" => pending \subseteq Present(mounted)
  /\ phase \in {"down", "pruning", "pruned", "serving"} => pending = {}
  /\ phase = "replaced" => working \in pending
  /\ phase = "pruned" => working \in Path \ Present(mounted)
  /\ phase = "serving" => Stale = {}

ChunksInv ==
  /\ phase = "replaced" => vectors[working] = Chunks(mounted[working])
  /\ phase = "pruned" => vectors[working] = {}

DoneInv == phase # "down" => \A p \in Present(mounted) \ pending : Ingested(p)

RowsInv == \A p \in Path : rows[p] # NoFile => rows[p].count = ChunkCount[rows[p].hash]

StoreInv ==
  /\ \A p \in Path : Agrees(p) \/ Ahead(p)
  /\ Clean => \A p \in Path : Agrees(p) \/ (phase = "replaced" /\ working = p)

CorpusInv == Quiet => phase \in {"down", "serving"} \/ mounted = files

IngestionInv ==
  ChunksInv /\ DoneInv /\ RowsInv /\ StoreInv /\ CorpusInv

-----------------------------------------------------------------------------
\* Chunks of one file: their identifiers are an initial segment.

LEMMA ChunksType ==
  ASSUME NEW f \in File
  PROVE  Chunks(f) \in SUBSET Chunk
  BY IngestionAssumption DEF Chunks, Chunk, File

LEMMA AllNamed ==
  ASSUME NEW f \in File
  PROVE  Named(Chunks(f), ChunkCount[f.bytes]) = Chunks(f)
<1>1. ChunkCount[f.bytes] \in Nat
  BY IngestionAssumption DEF File
<1>2. \A c \in Chunks(f) : c.index < ChunkCount[f.bytes]
  BY <1>1 DEF Chunks
<1> QED
  BY <1>2 DEF Named

\* A file with a chunk has a chunk 0; one that is intact has its citation.
LEMMA IntactIsWhole ==
  ASSUME NEW b \in Bytes, NEW t \in Title, NEW u \in Title, NEW chunks,
         chunks = {} \/ chunks = Chunks([bytes |-> b, title |-> u]),
         Intact(chunks, ChunkCount[b], t)
  PROVE  chunks = Chunks([bytes |-> b, title |-> t])
<1>1. ChunkCount[b] \in Nat
  BY IngestionAssumption
<1>2. CASE ChunkCount[b] = 0
  BY <1>2 DEF Chunks
<1>3. CASE ChunkCount[b] # 0
  <2>1. 0 \in 0 .. ChunkCount[b] - 1
    BY <1>1, <1>3
  <2>2. PICK c \in chunks : c.index = 0 /\ c.title = t
    BY <2>1 DEF Intact
  <2>3. chunks = Chunks([bytes |-> b, title |-> u])
    BY <2>2
  <2>4. c.title = u
    BY <2>2, <2>3 DEF Chunks
  <2> QED
    BY <2>2, <2>3, <2>4
<1> QED
  BY <1>2, <1>3

-----------------------------------------------------------------------------

LEMMA CurrentFile ==
  ASSUME NEW corpus \in [Path -> File \cup {NoFile}], NEW p \in Present(corpus)
  PROVE  p \in Path /\ corpus[p] \in File
  BY DEF Present

LEMMA TypeInit == IngestionInit => IngestionTypeOK /\ PlaceInv
  BY DEF IngestionInit, IngestionTypeOK, PlaceInv, Phase

LEMMA TypeStep ==
  ASSUME IngestionTypeOK, PlaceInv, [IngestionNext]_ingestionVars
  PROVE  IngestionTypeOK' /\ PlaceInv'
<1> USE DEF IngestionTypeOK, PlaceInv, Phase, corpusVars, processVars
<1>1. CASE Start
  BY <1>1 DEF Start, Present
<1>2. ASSUME NEW p \in Path, Skip(p) PROVE IngestionTypeOK' /\ PlaceInv'
  BY <1>2 DEF Skip, Present
<1>3. ASSUME NEW p \in Path, Replace(p) PROVE IngestionTypeOK' /\ PlaceInv'
  <2>1. mounted[p] \in File
    BY <1>3, CurrentFile DEF Replace
  <2>2. Chunks(mounted[p]) \in SUBSET Chunk
    BY <2>1, ChunksType
  <2>3. Kept(p) \in SUBSET Chunk
    BY DEF Kept, Named
  <2>4. Kept(p) \cup Chunks(mounted[p]) \in SUBSET Chunk
    BY <2>2, <2>3
  <2>5. IngestionTypeOK'
    BY <1>3, <2>4 DEF Replace
  <2> QED
    BY <1>3, <2>5 DEF Replace, Present
<1>4. ASSUME NEW p \in Path, Conflict(p) PROVE IngestionTypeOK' /\ PlaceInv'
  BY <1>4 DEF Conflict
<1>5. CASE CommitRow
  <2>1. working \in Present(mounted)
    BY <1>5 DEF CommitRow
  <2>2. mounted[working] \in File /\ working \in Path
    BY <2>1, CurrentFile
  <2>3. [hash |-> mounted[working].bytes,
         count |-> ChunkCount[mounted[working].bytes]] \in Row
    BY <2>2, IngestionAssumption DEF File, Row
  <2>4. IngestionTypeOK'
    BY <1>5, <2>3 DEF CommitRow
  <2> QED
    BY <1>5, <2>4 DEF CommitRow, Present
<1>6. CASE Refuse
  BY <1>6 DEF Refuse
<1>7. CASE Prune
  BY <1>7 DEF Prune, Present
<1>8. ASSUME NEW p \in Path, DeleteChunks(p) PROVE IngestionTypeOK' /\ PlaceInv'
  <2>1. vectors[p] \ Named(vectors[p], rows[p].count) \in SUBSET Chunk
    BY DEF Named
  <2>2. IngestionTypeOK'
    BY <1>8, <2>1 DEF DeleteChunks
  <2> QED
    BY <1>8, <2>2 DEF DeleteChunks, Stale, Present
<1>9. CASE DeleteRow
  BY <1>9 DEF DeleteRow, Present
<1>10. CASE Serve
  BY <1>10 DEF Serve, Stale, Present
<1>11. CASE Stop
  BY <1>11 DEF Stop
<1>12. ASSUME NEW p \in Path, Edit(p) PROVE IngestionTypeOK' /\ PlaceInv'
  BY <1>12 DEF Edit, Stale, Present
<1>13. CASE UNCHANGED ingestionVars
  BY <1>13 DEF ingestionVars, Stale, Present
<1> QED
  BY <1>1, <1>2, <1>3, <1>4, <1>5, <1>6, <1>7, <1>8, <1>9, <1>10, <1>11,
     <1>12, <1>13 DEF IngestionNext, Startup, Ingest

LEMMA TypeAndPlace == IngestionSpec => [](IngestionTypeOK /\ PlaceInv)
  BY TypeInit, TypeStep, PTL DEF IngestionSpec

\* The tables keep well-formed records in every state, wherever the process
\* stops and whatever the operator does.
THEOREM IngestionTypeCorrect == IngestionSpec => []IngestionTypeOK
  BY TypeAndPlace, PTL

-----------------------------------------------------------------------------
\* One ingest_upload of a document of the corpus.

\* A document found unchanged has the chunks of the corpus.
LEMMA UnchangedIsRight ==
  ASSUME IngestionTypeOK, RowsInv, NEW p \in Present(mounted), phase # "down",
         Agrees(p) \/ Ahead(p), Unchanged(p)
  PROVE  Ingested(p)
<1>1. p \in Path /\ mounted[p] \in File
  BY CurrentFile DEF IngestionTypeOK
<1>2. rows[p] # NoFile /\ rows[p].hash = mounted[p].bytes
  BY DEF Unchanged
<1>3. CASE Ahead(p)
  BY <1>2, <1>3 DEF Ahead, Corpus, Ingested
<1>4. CASE Agrees(p)
  <2>1. rows[p].count = ChunkCount[mounted[p].bytes]
    BY <1>1, <1>2 DEF RowsInv
  <2>2. /\ mounted[p].bytes \in Bytes /\ mounted[p].title \in Title
        /\ mounted[p] = [bytes |-> mounted[p].bytes, title |-> mounted[p].title]
    BY <1>1 DEF File
  <2>3. PICK u \in Title :
          \/ vectors[p] = {}
          \/ vectors[p] = Chunks([bytes |-> mounted[p].bytes, title |-> u])
    BY <1>2, <1>4, <2>2 DEF Agrees
  <2>4. Intact(vectors[p], ChunkCount[mounted[p].bytes], mounted[p].title)
    BY <2>1 DEF Unchanged
  <2>5. vectors[p] = Chunks(mounted[p])
    BY <2>2, <2>3, <2>4, IntactIsWhole
  <2> QED
    BY <1>2, <2>5 DEF Ingested
<1> QED
  BY <1>3, <1>4

\* What replace keeps of a document is of the corpus already.
LEMMA ReplaceIsWhole ==
  ASSUME IngestionTypeOK, RowsInv, NEW p \in Present(mounted), phase # "down",
         Agrees(p) \/ Ahead(p)
  PROVE  Kept(p) \cup Chunks(mounted[p]) = Chunks(mounted[p])
<1>1. p \in Path /\ mounted[p] \in File
  BY CurrentFile DEF IngestionTypeOK
<1>2. CASE vectors[p] = {}
  BY <1>2 DEF Kept, Named
<1>3. CASE Ahead(p)
  BY <1>3 DEF Kept, Named, Ahead, Corpus
<1>4. CASE Agrees(p) /\ vectors[p] # {}
  <2>1. PICK t \in Title : vectors[p] = Chunks([bytes |-> rows[p].hash, title |-> t])
    BY <1>4 DEF Agrees
  <2>2. rows[p] \in Row /\ rows[p] # NoFile
    BY <1>1, <1>4 DEF Agrees, IngestionTypeOK
  <2>3. rows[p].count = ChunkCount[rows[p].hash]
    BY <1>1, <2>2 DEF RowsInv
  <2>4. [bytes |-> rows[p].hash, title |-> t] \in File
    BY <2>2 DEF File, Row
  <2>5. Named(vectors[p], rows[p].count) = vectors[p]
    BY <2>1, <2>3, <2>4, AllNamed
  <2>6. Kept(p) = {}
    BY <2>2, <2>5 DEF Kept
  <2> QED
    BY <2>6
<1> QED
  BY <1>2, <1>3, <1>4

\* The chunks of a document that left the corpus are all deleted.
LEMMA DeleteIsWhole ==
  ASSUME IngestionTypeOK, RowsInv, NEW p \in Path, rows[p] # NoFile, Agrees(p)
  PROVE  vectors[p] \ Named(vectors[p], rows[p].count) = {}
<1>1. CASE vectors[p] = {}
  BY <1>1
<1>2. CASE vectors[p] # {}
  <2>1. PICK t \in Title : vectors[p] = Chunks([bytes |-> rows[p].hash, title |-> t])
    BY <1>2 DEF Agrees
  <2>2. rows[p] \in Row
    BY DEF IngestionTypeOK
  <2>3. rows[p].count = ChunkCount[rows[p].hash]
    BY DEF RowsInv
  <2>4. [bytes |-> rows[p].hash, title |-> t] \in File
    BY <2>2 DEF File, Row
  <2> QED
    BY <2>1, <2>3, <2>4, AllNamed
<1> QED
  BY <1>1, <1>2

\* A document that is done agrees with its row.
LEMMA DoneAgrees ==
  ASSUME IngestionTypeOK, NEW p \in Present(mounted), Ingested(p)
  PROVE  Agrees(p)
<1>1. p \in Path /\ mounted[p] \in File
  BY CurrentFile DEF IngestionTypeOK
<1>2. mounted[p] = [bytes |-> rows[p].hash, title |-> mounted[p].title]
  BY <1>1 DEF Ingested, File
<1> QED
  BY <1>1, <1>2 DEF Ingested, Agrees, File

-----------------------------------------------------------------------------
\* The invariant, step by step.

LEMMA IngestionInvInit == IngestionInit => IngestionInv
  BY DEF IngestionInit, IngestionInv, ChunksInv, DoneInv, RowsInv, StoreInv, CorpusInv,
         Agrees

\* Steps that leave both databases and the process's place in them alone.
LEMMA StartStep ==
  ASSUME IngestionTypeOK, PlaceInv, IngestionInv, Start
  PROVE  IngestionInv'
<1> USE DEF Start, corpusVars
<1>1. ChunksInv' /\ CorpusInv' /\ RowsInv'
  BY DEF IngestionInv, ChunksInv, CorpusInv, RowsInv
<1>2. DoneInv'
  BY DEF DoneInv, Present
<1>3. StoreInv'
  BY DEF IngestionInv, StoreInv, Agrees, Ahead, Corpus, Present
<1> QED
  BY <1>1, <1>2, <1>3 DEF IngestionInv

LEMMA SkipStep ==
  ASSUME IngestionTypeOK, PlaceInv, IngestionInv, NEW p \in Path, Skip(p)
  PROVE  IngestionInv'
<1> USE DEF Skip, corpusVars
<1>1. ChunksInv' /\ CorpusInv' /\ RowsInv'
  BY DEF IngestionInv, ChunksInv, CorpusInv, RowsInv
<1>2. Ingested(p)
  BY UnchangedIsRight DEF IngestionInv, StoreInv, PlaceInv
<1>3. DoneInv'
  BY <1>2 DEF IngestionInv, DoneInv, Ingested, Present
<1>4. StoreInv'
  BY DEF IngestionInv, StoreInv, Agrees, Ahead, Corpus, Present
<1> QED
  BY <1>1, <1>3, <1>4 DEF IngestionInv

LEMMA ReplaceStep ==
  ASSUME IngestionTypeOK, PlaceInv, IngestionInv, NEW p \in Path, Replace(p)
  PROVE  IngestionInv'
<1> USE DEF Replace, corpusVars
<1>1. p \in Present(mounted) /\ p \in pending
  BY DEF PlaceInv
<1>2. Kept(p) \cup Chunks(mounted[p]) = Chunks(mounted[p])
  BY <1>1, ReplaceIsWhole DEF IngestionInv, StoreInv
<1>3. vectors' = [vectors EXCEPT ![p] = Chunks(mounted[p])]
  BY <1>2
<1>4. vectors'[p] = Chunks(mounted[p])
      /\ \A q \in Path \ {p} : vectors'[q] = vectors[q]
  BY <1>3 DEF IngestionTypeOK
<1>5. ChunksInv' /\ CorpusInv' /\ RowsInv'
  BY <1>4 DEF IngestionInv, ChunksInv, CorpusInv, RowsInv
<1>6. DoneInv'
  BY <1>1, <1>4 DEF IngestionInv, DoneInv, Ingested, Present
<1>7. StoreInv'
  BY <1>1, <1>4 DEF IngestionInv, StoreInv, Agrees, Ahead, Corpus, Present
<1> QED
  BY <1>5, <1>6, <1>7 DEF IngestionInv

LEMMA ConflictStep ==
  ASSUME IngestionTypeOK, PlaceInv, IngestionInv, Clean \/ Quiet,
         NEW p \in Path, Conflict(p)
  PROVE  IngestionInv'
<1> USE DEF Conflict, corpusVars
<1>1. ChunksInv' /\ CorpusInv' /\ RowsInv' /\ DoneInv'
  BY DEF IngestionInv, ChunksInv, CorpusInv, RowsInv, DoneInv
<1>2. StoreInv'
  BY DEF IngestionInv, StoreInv, CorpusInv, Agrees, Ahead, Corpus, Present
<1> QED
  BY <1>1, <1>2 DEF IngestionInv

LEMMA CommitRowStep ==
  ASSUME IngestionTypeOK, PlaceInv, IngestionInv, CommitRow
  PROVE  IngestionInv'
<1> USE DEF CommitRow, corpusVars
<1> DEFINE new == [hash |-> mounted[working].bytes,
                   count |-> ChunkCount[mounted[working].bytes]]
<1>1. working \in Present(mounted) /\ working \in Path /\ mounted[working] \in File
  BY CurrentFile DEF PlaceInv, IngestionTypeOK
<1>2. new # NoFile /\ new.hash = mounted[working].bytes /\ new.count = ChunkCount[new.hash]
  BY <1>1, IngestionAssumption DEF File
<1>3. rows'[working] = new /\ \A q \in Path \ {working} : rows'[q] = rows[q]
  BY <1>1 DEF IngestionTypeOK
<1> HIDE DEF new
<1>4. vectors[working] = Chunks(mounted[working])
  BY DEF IngestionInv, ChunksInv
<1>5. ChunksInv' /\ CorpusInv' /\ RowsInv'
  BY <1>2, <1>3 DEF IngestionInv, ChunksInv, CorpusInv, RowsInv
<1>6. DoneInv'
  BY <1>1, <1>2, <1>3, <1>4 DEF IngestionInv, DoneInv, Ingested, Present
<1>7. \E t \in Title : vectors[working] = Chunks([bytes |-> new.hash, title |-> t])
  BY <1>1, <1>2, <1>4 DEF File
<1>8. \A q \in Path : q = working => Agrees(q)'
  BY <1>1, <1>2, <1>3, <1>7 DEF Agrees
<1>9. \A q \in Path \ {working} : Agrees(q)' <=> Agrees(q)
  BY <1>3 DEF Agrees
<1>10. \A q \in Path : Ahead(q)' <=> Ahead(q)
  BY DEF Ahead, Corpus, Present
<1>11. StoreInv'
  BY <1>8, <1>9, <1>10 DEF IngestionInv, StoreInv
<1> QED
  BY <1>5, <1>6, <1>11 DEF IngestionInv

LEMMA RefuseStep ==
  ASSUME IngestionTypeOK, PlaceInv, IngestionInv, Clean \/ Quiet, Refuse
  PROVE  IngestionInv'
<1> USE DEF Refuse, corpusVars
<1>1. ChunksInv' /\ CorpusInv' /\ RowsInv' /\ DoneInv'
  BY DEF IngestionInv, ChunksInv, CorpusInv, RowsInv, DoneInv
<1>2. StoreInv'
  BY DEF IngestionInv, StoreInv, CorpusInv, Agrees, Ahead, Corpus, Present
<1> QED
  BY <1>1, <1>2 DEF IngestionInv

LEMMA PruneStep ==
  ASSUME IngestionTypeOK, PlaceInv, IngestionInv, Prune
  PROVE  IngestionInv'
  BY DEF Prune, corpusVars, IngestionInv, ChunksInv, CorpusInv, RowsInv, DoneInv,
         StoreInv, Ingested, Agrees, Ahead, Corpus, Present

LEMMA DeleteChunksStep ==
  ASSUME IngestionTypeOK, PlaceInv, IngestionInv, NEW p \in Path, DeleteChunks(p)
  PROVE  IngestionInv'
<1> USE DEF DeleteChunks, corpusVars
<1>1. p \notin Present(mounted) /\ rows[p] # NoFile
  BY DEF Stale
<1>2. Agrees(p)
  BY <1>1 DEF IngestionInv, StoreInv, Ahead, Corpus
<1>3. vectors[p] \ Named(vectors[p], rows[p].count) = {}
  BY <1>1, <1>2, DeleteIsWhole DEF IngestionInv
<1>4. vectors'[p] = {} /\ \A q \in Path \ {p} : vectors'[q] = vectors[q]
  BY <1>3 DEF IngestionTypeOK
<1>5. ChunksInv' /\ CorpusInv' /\ RowsInv'
  BY <1>4 DEF IngestionInv, ChunksInv, CorpusInv, RowsInv
<1>6. DoneInv'
  BY <1>1, <1>4 DEF IngestionInv, DoneInv, Ingested, Present
<1>7. StoreInv'
  BY <1>4 DEF IngestionInv, StoreInv, Agrees, Ahead, Corpus, Present
<1> QED
  BY <1>5, <1>6, <1>7 DEF IngestionInv

LEMMA DeleteRowStep ==
  ASSUME IngestionTypeOK, PlaceInv, IngestionInv, DeleteRow
  PROVE  IngestionInv'
<1> USE DEF DeleteRow, corpusVars
<1>1. working \in Path \ Present(mounted) /\ vectors[working] = {}
  BY DEF IngestionInv, PlaceInv, ChunksInv
<1>2. rows'[working] = NoFile /\ \A q \in Path \ {working} : rows'[q] = rows[q]
  BY <1>1 DEF IngestionTypeOK
<1>3. ChunksInv' /\ CorpusInv' /\ RowsInv'
  BY <1>2 DEF IngestionInv, ChunksInv, CorpusInv, RowsInv
<1>4. DoneInv'
  BY <1>1, <1>2 DEF IngestionInv, DoneInv, Ingested, Present
<1>5. StoreInv'
  BY <1>1, <1>2 DEF IngestionInv, StoreInv, Agrees, Ahead, Corpus, Present
<1> QED
  BY <1>3, <1>4, <1>5 DEF IngestionInv

LEMMA ServeStep ==
  ASSUME IngestionTypeOK, PlaceInv, IngestionInv, Serve
  PROVE  IngestionInv'
  BY DEF Serve, corpusVars, IngestionInv, ChunksInv, CorpusInv, RowsInv, DoneInv,
         StoreInv, Ingested, Agrees, Ahead, Corpus, Present

\* A process that stops while it serves leaves every document agreeing with
\* its row; one that stops earlier has read the corpus the next will read, or
\* has no document between its commits.
LEMMA StopStep ==
  ASSUME IngestionTypeOK, PlaceInv, IngestionInv, Clean \/ Quiet, Stop
  PROVE  IngestionInv'
<1> USE DEF Stop, corpusVars
<1>1. ChunksInv' /\ CorpusInv' /\ RowsInv' /\ DoneInv'
  BY DEF IngestionInv, ChunksInv, CorpusInv, RowsInv, DoneInv
<1>2. phase # "down" /\ (Clean => phase # "replaced")
  BY IngestionAssumption DEF Clean
<1>3. \A p \in Path : Agrees(p)' <=> Agrees(p)
  BY DEF Agrees
<1>4. CASE Clean
  BY <1>1, <1>2, <1>3, <1>4 DEF IngestionInv, StoreInv
<1>5. CASE ~Clean /\ phase = "serving"
  <2>1. \A p \in Path : Agrees(p)
    <3> TAKE p \in Path
    <3>1. CASE p \in Present(mounted)
      BY <1>5, <3>1, DoneAgrees DEF IngestionInv, DoneInv, PlaceInv
    <3>2. CASE p \notin Present(mounted)
      BY <1>2, <3>2 DEF IngestionInv, StoreInv, Ahead, Corpus
    <3> QED
      BY <3>1, <3>2
  <2> QED
    BY <1>1, <1>3, <1>5, <2>1 DEF IngestionInv, StoreInv
<1>6. CASE ~Clean /\ phase # "serving"
  <2>1. mounted = files
    BY <1>2, <1>6 DEF IngestionInv, CorpusInv
  <2>2. \A p \in Path : Ahead(p)' <=> Ahead(p)
    BY <1>2, <2>1 DEF Ahead, Corpus, Present
  <2> QED
    BY <1>1, <1>3, <1>6, <2>2 DEF IngestionInv, StoreInv
<1> QED
  BY <1>4, <1>5, <1>6

LEMMA EditStep ==
  ASSUME IngestionTypeOK, PlaceInv, IngestionInv, Clean \/ Quiet,
         NEW p \in Path, Edit(p)
  PROVE  IngestionInv'
<1> USE DEF Edit, processVars
<1>1. ChunksInv' /\ RowsInv'
  BY DEF IngestionInv, ChunksInv, RowsInv
<1>2. DoneInv'
  BY DEF IngestionInv, DoneInv, Ingested, Present
<1>3. CorpusInv'
  BY DEF IngestionInv, CorpusInv, Quiet
<1>4. \A q \in Path : Agrees(q)' <=> Agrees(q)
  BY DEF Agrees
<1>5. phase # "down" => \A q \in Path : Ahead(q)' <=> Ahead(q)
  BY DEF Ahead, Corpus, Present
<1>6. phase = "down" => Clean
  BY DEF Quiet
<1>7. StoreInv'
  BY <1>4, <1>5, <1>6 DEF IngestionInv, StoreInv
<1> QED
  BY <1>1, <1>2, <1>3, <1>7 DEF IngestionInv

LEMMA IngestionStep ==
  ASSUME IngestionTypeOK, PlaceInv, IngestionInv, Clean \/ Quiet, [IngestionNext]_ingestionVars
  PROVE  IngestionInv'
<1>1. CASE UNCHANGED ingestionVars
  BY <1>1 DEF ingestionVars, corpusVars, processVars, IngestionInv, ChunksInv, CorpusInv,
     RowsInv, DoneInv, StoreInv, Ingested, Agrees, Ahead, Corpus, Present
<1>2. CASE IngestionNext
  BY <1>2, StartStep, SkipStep, ReplaceStep, ConflictStep, CommitRowStep,
     RefuseStep, PruneStep, DeleteChunksStep, DeleteRowStep, ServeStep,
     StopStep, EditStep DEF IngestionNext, Startup, Ingest
<1> QED
  BY <1>1, <1>2

LEMMA IngestionInvariant ==
  ASSUME Clean \/ Quiet
  PROVE  IngestionSpec => [](IngestionTypeOK /\ PlaceInv /\ IngestionInv)
<1>1. IngestionTypeOK /\ PlaceInv /\ IngestionInv /\ [IngestionNext]_ingestionVars => IngestionInv'
  BY IngestionStep
<1> QED
  BY <1>1, IngestionInvInit, TypeAndPlace, PTL DEF IngestionSpec

-----------------------------------------------------------------------------

\* What is served is the corpus that was read, for every corpus: if no stop
\* falls between the two commits of a document, or if the operator leaves the
\* corpus alone until it is served.
THEOREM ServesTheCorpusAlways ==
  ASSUME Clean \/ Quiet
  PROVE  IngestionSpec => []ServesTheCorpus
<1>1. IngestionTypeOK /\ PlaceInv /\ IngestionInv => ServesTheCorpus
  <2> SUFFICES ASSUME IngestionTypeOK, PlaceInv, IngestionInv, phase = "serving",
                      NEW p \in Path
               PROVE  vectors[p] = IF p \in Present(mounted)
                                   THEN Chunks(mounted[p]) ELSE {}
    BY DEF ServesTheCorpus
  <2>1. CASE p \in Present(mounted)
    BY <2>1 DEF IngestionInv, DoneInv, Ingested, PlaceInv
  <2>2. CASE p \notin Present(mounted)
    <3>1. rows[p] = NoFile
      BY <2>2 DEF PlaceInv, Stale
    <3>2. Agrees(p)
      BY <2>2 DEF IngestionInv, StoreInv, Ahead, Corpus
    <3> QED
      BY <2>2, <3>1, <3>2 DEF Agrees
  <2> QED
    BY <2>1, <2>2
<1> QED
  BY <1>1, IngestionInvariant, PTL

\* Under the same condition, a document that ingest_upload is done with has the
\* chunks of its bytes and citation.
THEOREM ReingestionReplacesAlways ==
  ASSUME Clean \/ Quiet
  PROVE  IngestionSpec => ReingestionReplaces
<1>1. IngestionTypeOK /\ PlaceInv /\ IngestionInv /\ [IngestionNext]_ingestionVars =>
        [\A p \in pending \ pending' :
           phase' # "down" => vectors'[p] = Chunks(mounted[p])]_ingestionVars
  <2> SUFFICES ASSUME IngestionTypeOK, PlaceInv, IngestionInv, IngestionNext,
                      NEW p \in pending \ pending', phase' # "down"
               PROVE  vectors'[p] = Chunks(mounted[p])
    OBVIOUS
  <2>1. CASE CommitRow
    BY <2>1 DEF CommitRow, IngestionInv, ChunksInv
  <2>2. ASSUME NEW q \in Path, Skip(q) PROVE vectors'[p] = Chunks(mounted[p])
    <3>1. Ingested(q)
      BY <2>2, UnchangedIsRight DEF Skip, PlaceInv, IngestionInv, StoreInv
    <3> QED
      BY <2>2, <3>1 DEF Skip, Ingested
  <2> QED
    BY <2>1, <2>2 DEF IngestionNext, Startup, Ingest, Start, Replace, Conflict, Refuse,
       Prune, DeleteChunks, DeleteRow, Serve, Stop, Edit, processVars, PlaceInv
<1> QED
  BY <1>1, IngestionInvariant, PTL DEF IngestionSpec, ReingestionReplaces

\* Under the same condition, nothing of a document that left the corpus is
\* deleted before every document of the corpus has its own chunks.
THEOREM PrunedWhenWholeAlways ==
  ASSUME Clean \/ Quiet
  PROVE  IngestionSpec => PrunedWhenWhole
<1>1. IngestionTypeOK /\ PlaceInv /\ IngestionInv /\ [IngestionNext]_ingestionVars =>
        [\A p \in Path \ Present(mounted) :
           vectors'[p] # vectors[p] =>
             \A q \in Present(mounted) : vectors[q] = Chunks(mounted[q])]_ingestionVars
  <2> SUFFICES ASSUME IngestionTypeOK, PlaceInv, IngestionInv, IngestionNext,
                      NEW p \in Path \ Present(mounted), vectors'[p] # vectors[p],
                      NEW q \in Present(mounted)
               PROVE  vectors[q] = Chunks(mounted[q])
    OBVIOUS
  <2>1. ASSUME NEW r \in Path, Replace(r) PROVE FALSE
    BY <2>1 DEF Replace, PlaceInv, IngestionTypeOK
  <2>2. ASSUME NEW r \in Path, DeleteChunks(r)
        PROVE  vectors[q] = Chunks(mounted[q])
    BY <2>2 DEF DeleteChunks, PlaceInv, IngestionInv, DoneInv, Ingested
  <2> QED
    BY <2>1, <2>2 DEF IngestionNext, Startup, Ingest, Start, Skip, Conflict, Refuse,
       CommitRow, Prune, DeleteRow, Serve, Stop, Edit
<1> QED
  BY <1>1, IngestionInvariant, PTL DEF IngestionSpec, PrunedWhenWhole
=============================================================================
