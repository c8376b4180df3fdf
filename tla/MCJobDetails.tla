----------------------------- MODULE MCJobDetails -----------------------------
(***************************************************************************)
(* Small taxonomies for JobDetails: two exit codes, two names.             *)
(***************************************************************************)
EXTENDS JobDetails

ExitCodes == {"3", "4"}
OutcomeNames == {"CLOUDY", "LOW_SUN_ANGLE"}
===============================================================================
