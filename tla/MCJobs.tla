------------------------------- MODULE MCJobs -------------------------------
(***************************************************************************)
(* A call split in two, for TLC.                                           *)
(***************************************************************************)
EXTENDS Jobs
============================================================================
