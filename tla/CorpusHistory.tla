--------------------------- MODULE CorpusHistory ---------------------------
(***************************************************************************)
(* What the corpus lifecycle registry promises, without operators,         *)
(* transactions or retries: every version is registered once and removed   *)
(* at most once, and the versions that have served form one history whose  *)
(* last member is the active version, never the one before it again and    *)
(* never a removed one.                                                    *)
(***************************************************************************)
EXTENDS Naturals, Sequences

CONSTANTS Version, MaxRevision

VARIABLES
  registered,   \* versions accepted as ready, removed ones included
  removed,      \* versions logically removed
  served        \* the active versions, oldest first

vars == <<registered, removed, served>>

Active == IF served = <<>> THEN {} ELSE {served[Len(served)]}

Init == registered = {} /\ removed = {} /\ served = <<>>

Register(v) ==
  /\ v \notin registered
  /\ registered' = registered \cup {v}
  /\ UNCHANGED <<removed, served>>

Activate(v) ==
  /\ v \in registered \ (removed \cup Active)
  /\ Len(served) <= MaxRevision
  /\ served' = Append(served, v)
  /\ UNCHANGED <<registered, removed>>

Remove(v) ==
  /\ v \in registered \ (removed \cup Active)
  /\ removed' = removed \cup {v}
  /\ UNCHANGED <<registered, served>>

Next == \E v \in Version : Register(v) \/ Activate(v) \/ Remove(v)

Spec == Init /\ [][Next]_vars
=============================================================================
