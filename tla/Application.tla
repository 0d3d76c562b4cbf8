------------------------------ MODULE Application -----------------------------
(***************************************************************************)
(* The life of the application: create_app and the lifespan of main.py,    *)
(* with the schema migrations of db/__init__.py that start-up runs.  A     *)
(* start-up step fails or succeeds, the process dies at any point, and the *)
(* operator deploys another release while it is down.  What the corpus     *)
(* step does to the stores is StaticIngestion.                             *)
(*                                                                         *)
(* The database file is the process's own: the deployment guide rules out  *)
(* a second process on it.                                                 *)
(***************************************************************************)
EXTENDS Integers, Sequences

CONSTANTS
  MaxRelease,   \* releases; release r ships migrations 1 .. r
  Statements,   \* statements of a migration script
  MaxFaults     \* steps that fail, closings cancelled and crashes

ASSUME ApplicationAssumption ==
  MaxRelease \in Nat \ {0} /\ Statements \in Nat \ {0} /\ MaxFaults \in Nat

\* What start-up does, in order, and in what order the lifespan closes.
Steps == <<"database", "vector", "collection", "retrieval", "route", "catalog", "corpus">>
CloseOrder == <<"retrieval", "vector", "database", "catalog", "provider">>

Resource == {"retrieval", "vector", "database", "catalog", "provider"}

\* Closed by a call that is awaited, and so can be cancelled.
Awaited == {"retrieval", "catalog", "provider"}

VARIABLES
  release,    \* of the deployed program
  ran,        \* statements of migrations in effect, on disk
  recorded,   \* schema_migrations, on disk
  stage,      \* of the process
  step,       \* of start-up: what is under way
  connected,  \* bootstrap of this process has opened the database file
  cursor,     \* statements of the current script that were executed
  uses,       \* whose each resource is: the application's, the host's, no one's
  held,       \* resources create_app and the lifespan have a handle on
  ready,      \* app.state.corpus_ready
  turn,       \* of closing: the next in CloseOrder
  closed,     \* resources whose closing was called
  cancelled,  \* closing was cancelled
  faults

diskVars == <<ran, recorded>>
startVars == <<step, connected, cursor, ready>>
closeVars == <<turn, closed, cancelled>>
vars == <<release, diskVars, stage, startVars, uses, held, closeVars, faults>>

-----------------------------------------------------------------------------

\* What settings and the arguments of create_app decide: the retrieval adapter
\* is the application's with Firestore, the host's (or a view of the collection,
\* which owns nothing) otherwise, and missing if the host gave a resolver.
Compositions ==
  {u \in [Resource -> {"owned", "given", "absent"}] :
     /\ u["database"] = "owned" /\ u["vector"] = "owned"
     /\ u["provider"] # "absent"}

Init ==
  /\ release \in 1 .. MaxRelease
  /\ ran = {} /\ recorded = {}
  /\ stage = "down"
  /\ step = 1 /\ connected = FALSE /\ cursor = 0 /\ ready = FALSE
  /\ uses \in Compositions
  /\ held = {}
  /\ turn = 1 /\ closed = {} /\ cancelled = FALSE
  /\ faults = 0

\* create_app, which builds the provider unless the host gave one, and the
\* lifespan entered.
Boot(u) ==
  /\ stage = "down"
  /\ uses' = u
  /\ held' = {"provider"} \cup {r \in {"retrieval"} : u[r] = "given"}
  /\ stage' = "starting"
  /\ step' = 1 /\ connected' = FALSE /\ cursor' = 0 /\ ready' = FALSE
  /\ turn' = 1 /\ closed' = {} /\ cancelled' = FALSE
  /\ UNCHANGED <<release, diskVars, faults>>

Starting(s) == stage = "starting" /\ Steps[step] = s

Pending == {v \in 1 .. release : v \notin recorded}

\* The migration the loop is at: the first file that is not recorded.
Current(v) == v \in Pending /\ \A w \in Pending : v <= w

\* A statement or a step raises.
Raise ==
  /\ stage' = "closing"
  /\ UNCHANGED <<release, diskVars, startVars, uses, held, closeVars>>

\* connect, the first thing bootstrap does; its connection has no other name
\* until bootstrap returns it.
Connect ==
  /\ Starting("database") /\ ~connected
  /\ connected' = TRUE
  /\ UNCHANGED <<release, diskVars, stage, step, cursor, ready, uses, held, closeVars, faults>>

\* executescript commits each statement on its own.  Every one that is shipped
\* may run again (IF NOT EXISTS).
RunStatement(v) ==
  /\ Starting("database") /\ connected /\ Current(v) /\ cursor < Statements
  /\ ran' = ran \cup {<<v, cursor + 1>>}
  /\ cursor' = cursor + 1
  /\ UNCHANGED <<release, recorded, stage, step, connected, ready, uses, held,
                 closeVars, faults>>

Executed == cursor = Statements

\* INSERT INTO schema_migrations, committed at the end of the block.
RecordVersion(v) ==
  /\ Starting("database") /\ Current(v) /\ Executed
  /\ recorded' = recorded \cup {v}
  /\ cursor' = 0
  /\ UNCHANGED <<release, ran, stage, step, connected, ready, uses, held,
                 closeVars, faults>>

Advance == ready' = (ready \/ Steps[step] = "corpus")

\* Mutant of Done: bootstrap does not wait for its migrations.
DoneAlways == TRUE

Done == Steps[step] = "database" => connected /\ Pending = {}

\* What a step puts into the lifespan's variables.
Handles(s) == {r \in {s} : r \in Resource /\ uses[r] = "owned"}

\* A step is done; after the last the application serves.
Succeed ==
  /\ stage = "starting" /\ Done
  /\ held' = held \cup Handles(Steps[step])
  /\ Advance
  /\ IF step < Len(Steps) THEN step' = step + 1 /\ UNCHANGED stage
                          ELSE stage' = "serving" /\ UNCHANGED step
  /\ cursor' = 0
  /\ UNCHANGED <<release, diskVars, connected, uses, closeVars, faults>>

\* Any step raises, a migration at any of its statements.
Fail ==
  /\ stage = "starting" /\ Raise
  /\ faults < MaxFaults /\ faults' = faults + 1

\* The server leaves the lifespan, by its end or by cancelling it.
Shutdown ==
  /\ stage = "serving" /\ stage' = "closing"
  /\ UNCHANGED <<release, diskVars, startVars, uses, held, closeVars, faults>>

Closes(r) == r \in held /\ uses[r] = "owned"

\* One resource of _close_application_resources; a
\* closing that raises is remembered and the next one follows.
Close ==
  /\ stage = "closing" /\ turn <= Len(CloseOrder)
  /\ closed' = closed \cup {r \in {CloseOrder[turn]} : Closes(r)}
  /\ turn' = turn + 1
  /\ UNCHANGED <<release, diskVars, stage, startVars, uses, held, cancelled, faults>>

\* An awaited closing is cancelled: no other follows.
CancelClose ==
  /\ stage = "closing" /\ turn <= Len(CloseOrder)
  /\ CloseOrder[turn] \in Awaited /\ Closes(CloseOrder[turn])
  /\ faults < MaxFaults /\ faults' = faults + 1
  /\ closed' = closed \cup {CloseOrder[turn]}
  /\ cancelled' = TRUE
  /\ stage' = "ended"
  /\ UNCHANGED <<release, diskVars, startVars, uses, held, turn>>

End ==
  /\ stage = "closing" /\ turn > Len(CloseOrder)
  /\ stage' = "ended"
  /\ UNCHANGED <<release, diskVars, startVars, uses, held, closeVars, faults>>

\* The process is gone.
Down ==
  /\ stage' = "down"
  /\ held' = {} /\ closed' = {} /\ turn' = 1 /\ cancelled' = FALSE
  /\ UNCHANGED <<release, diskVars, startVars, uses>>

Exit == stage = "ended" /\ Down /\ UNCHANGED faults

Crash ==
  /\ stage \in {"starting", "serving", "closing"}
  /\ faults < MaxFaults /\ faults' = faults + 1
  /\ Down

\* The operator installs another release, an older one as well.
Deploy(r) ==
  /\ stage = "down" /\ r # release
  /\ release' = r
  /\ UNCHANGED <<diskVars, stage, startVars, uses, held, closeVars, faults>>

Migrate == Connect \/ \E v \in 1 .. MaxRelease : RunStatement(v) \/ RecordVersion(v)

\* What the process does unless it fails, and its restart by the operator.
Forward ==
  \/ \E u \in Compositions : Boot(u)
  \/ Migrate
  \/ Succeed
  \/ Close
  \/ End
  \/ Exit

Next ==
  \/ Forward
  \/ Fail
  \/ Shutdown
  \/ CancelClose
  \/ Crash
  \/ \E r \in 1 .. MaxRelease : Deploy(r)

Spec == Init /\ [][Next]_vars

-----------------------------------------------------------------------------

\* Type invariant.
ApplicationTypeOK ==
  /\ release \in 1 .. MaxRelease
  /\ ran \subseteq (1 .. MaxRelease) \X (1 .. Statements)
  /\ recorded \subseteq 1 .. MaxRelease
  /\ stage \in {"down", "starting", "serving", "closing", "ended"}
  /\ step \in 1 .. Len(Steps) /\ cursor \in 0 .. Statements
  /\ uses \in Compositions
  /\ held \subseteq Resource /\ closed \subseteq held
  /\ connected \in BOOLEAN /\ ready \in BOOLEAN /\ cancelled \in BOOLEAN
  /\ turn \in 1 .. Len(CloseOrder) + 1
  /\ faults \in 0 .. MaxFaults

\* A recorded migration is in effect, and no statement is in effect before
\* every earlier migration is recorded, whatever crashes and whichever releases
\* were deployed in between (run_migrations).
SchemaIsSound ==
  /\ \A v \in recorded : \A i \in 1 .. Statements : <<v, i>> \in ran
  /\ \A s \in ran : \A w \in 1 .. s[1] - 1 : w \in recorded

\* An application that serves has the schema its release ships, a corpus, and
\* every resource of its composition open (lifespan, up to its yield).
NeverServesHalf ==
  stage = "serving" =>
    /\ ready
    /\ 1 .. release \subseteq recorded
    /\ \A r \in Resource : uses[r] = "owned" => r \in held
    /\ closed = {}

\* What the application has opened of its own: its provider, the database it
\* has connected to, and the resources of the start-up steps it got through.
Opened ==
  {r \in Resource :
     /\ uses[r] = "owned"
     /\ \/ r = "provider"
        \/ r = "database" /\ connected
        \/ \E i \in 1 .. step - 1 : Steps[i] = r}

\* The connection of a bootstrap that is under way, or has raised.
Unreturned == IF step = 1 THEN {"database"} ELSE {}

\* A lifespan that ends, served or failed at any step, has closed all that was
\* opened for it and nothing of the host's, except the connection of a bootstrap
\* that raised, which no one can close; only a cancellation leaves more open, and
\* nothing whose turn had come (bootstrap, _close_application_resources).
ClosesWhatItOwns ==
  /\ \A r \in closed : uses[r] = "owned"
  /\ stage = "ended" =>
       \A i \in 1 .. Len(CloseOrder) :
         CloseOrder[i] \in Opened \ Unreturned /\ (~cancelled \/ i <= turn)
           => CloseOrder[i] \in closed

=============================================================================
