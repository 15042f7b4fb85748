------------------------------ MODULE MCGrants ------------------------------
(***************************************************************************)
(* Instances of Grants for TLC.  One unit of the clock stands for several  *)
(* minutes; a template's claims depend on the configuration and on the     *)
(* date, which changes at time DateLine.                                   *)
(***************************************************************************)
EXTENDS Grants, TLC

CONSTANTS DateLine

MCConfigs == {"config1", "config2"}

MCClaimSets == MCConfigs \X {"before", "after"}

\* The second configuration has no mapping for the direct template.
MCMapsFields(ty, c) == ~(ty \in DirectTypes /\ c = "config2")

MCBuildClaims(ty, c, d) ==
  IF MCMapsFields(ty, c) THEN <<c, IF d < DateLine THEN "before" ELSE "after">>
  ELSE Null

Symmetry ==
  Permutations(ConsentIds) \union Permutations(Codes) \union Permutations(Tokens)

=============================================================================
