------------------------------- MODULE MCWidget -------------------------------
(* Two bases, and answers that end well, are refused or may be retried.    *)
EXTENDS Widget, TLC

CONSTANTS A, B
TwoBases == {A, B}
Endings == {"chunk", "stop", "refused", "retryable"}
================================================================================
