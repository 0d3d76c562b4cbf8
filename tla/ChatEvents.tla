----------------------------- MODULE ChatEvents -----------------------------
(***************************************************************************)
(* What a chat response promises its client: the order of its events.  The *)
(* response may be cut off after any event; if it is not, it ends after    *)
(* exactly one terminal event and sends nothing after it.  Pings may come  *)
(* between the events of a generated answer and change nothing.            *)
(***************************************************************************)
VARIABLES
  last,   \* the last event the client was sent, pings apart
  over    \* the response has ended

eventVars == <<last, over>>

Terminal == {"refused", "stop", "limit", "error"}

\* The events that may follow each event.
Follows(event) ==
  CASE event = "none" -> {"retrieving"}
    [] event = "retrieving" -> {"refusing", "citations", "generating"}
    [] event = "refusing" -> {"refusal"}
    [] event = "refusal" -> {"refused"}
    [] event = "citations" -> {"generating"}
    [] event = "generating" -> {"chunk", "stop", "error"}
    [] event = "chunk" -> {"chunk", "stop", "limit", "error"}
    [] event \in Terminal -> {}

Init == last = "none" /\ over = FALSE

Send == ~ over /\ last' \in Follows(last) /\ UNCHANGED over

End == ~ over /\ over' = TRUE /\ UNCHANGED last

Next == Send \/ End

Spec == Init /\ [][Next]_eventVars
=============================================================================
