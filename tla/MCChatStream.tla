---------------------------- MODULE MCChatStream ----------------------------
(* Small instances of an uncontrolled chat response for TLC.               *)
EXTENDS ChatStream

CONSTANTS model, usd

\* A first report, a later one, and one that goes backwards.
Report3(input, output) ==
  [f \in Field |->
     CASE f = "input" -> input [] f = "output" -> output [] f = "total" -> None
       [] OTHER -> 0]
Reports == {Report3(1, 1), Report3(1, 2)}

Rate == [uncached |-> 1, cached |-> 0, output |-> 1, thinking |-> 0]
OnePrice ==
  {[owner |-> model, tier |-> None, currency |-> usd, from |-> 0, through |-> None,
    rate |-> Rate]}
=============================================================================
