------------------------------ MODULE MCMipJobs -------------------------------
(* One job, that several callers poll and give input to.                   *)
EXTENDS MipJobs
==============================================================================
