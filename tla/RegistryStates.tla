---------------------------- MODULE RegistryStates ----------------------------
(***************************************************************************)
(* The registration states of an agent or inbox agent, and how the payment *)
(* node, which is external, moves its own entries through them.  The       *)
(* Requested and Initiated states, which this code never tells apart, are  *)
(* one state here.                                                         *)
(***************************************************************************)

RegistrationStates ==
  {"RegistrationRequested", "RegistrationConfirmed", "RegistrationFailed",
   "DeregistrationRequested", "DeregistrationConfirmed", "DeregistrationFailed"}

(* An entry of the payment node: one of the states, or no entry.           *)
EntryStates == RegistrationStates \cup {"absent"}
InProgress == {"RegistrationRequested", "DeregistrationRequested"}

(* On chain, or about to be.                                               *)
LiveStates == RegistrationStates \ {"RegistrationFailed", "DeregistrationConfirmed"}

(* How what is in progress ends, on chain.                                 *)
Outcomes(s) ==
  CASE s = "RegistrationRequested"   -> {"RegistrationConfirmed", "RegistrationFailed"}
    [] s = "DeregistrationRequested" -> {"DeregistrationConfirmed", "DeregistrationFailed"}
    [] OTHER -> {}
==============================================================================
