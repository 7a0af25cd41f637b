---------------------------- MODULE MCInboxAgents -----------------------------
(* Three requests for one slug at the same time, of two users, the first   *)
(* of whom can pay for one registration and asks twice; and one request of *)
(* each of two users, who then list their inbox agents over and over.      *)
EXTENDS InboxAgents, TLC

CONSTANTS p1, p2, p3, u1, u2

ThreeAuthors == (p1 :> u1) @@ (p2 :> u2) @@ (p3 :> u1)
TwoAuthors == (p1 :> u1) @@ (p2 :> u2)
==============================================================================
