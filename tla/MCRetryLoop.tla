----------------------------- MODULE MCRetryLoop -----------------------------
(***************************************************************************)
(* Small instances of RetryLoop for TLC.                                   *)
(***************************************************************************)
EXTENDS RetryLoop

BaselineOutcomes == {SUCCESS, FAILURE_RETRYABLE, FAILURE_NONRETRYABLE}
RetryableOnly == {SUCCESS, FAILURE_RETRYABLE}
===============================================================================
