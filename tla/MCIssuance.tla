----------------------------- MODULE MCIssuance -----------------------------
(***************************************************************************)
(* An instance of Issuance for TLC, with one readable configuration and    *)
(* lifetimes of one instant: everything interleaves within it, and the     *)
(* next instant finds every entry expired.  There is no symmetry, because  *)
(* a liveness property is checked.                                         *)
(***************************************************************************)
EXTENDS Issuance, TLC

CONSTANTS DateLine

MCConfigs == {"config1"}

MCClaimSets == MCConfigs \X {"before", "after"}

MCMapsFields(ty, c) == TRUE

\* From DateLine on, the direct template refuses the holder's data.
MCBuildClaims(ty, c, d) ==
  IF d < DateLine THEN <<c, "before">>
  ELSE IF ty \in ConsentTypes THEN <<c, "after">> ELSE Null

=============================================================================
