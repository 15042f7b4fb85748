-------------------------- MODULE MCCredentialAudit --------------------------
(***************************************************************************)
(* An instance of CredentialAudit for TLC: the seed credential, presented  *)
(* by a trusted anchor, and another one presented by the rogue anchor and  *)
(* signed with another key of the gateway.                                 *)
(***************************************************************************)
EXTENDS CredentialAudit, TLC

CONSTANTS seed, earned, trusted, rogue, k1, k2

MCAnchorOf == (seed :> trusted) @@ (earned :> rogue)

MCKeyOf == (seed :> k1) @@ (earned :> k2)

Symmetry == Permutations(Audits)

=============================================================================
