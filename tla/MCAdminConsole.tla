--------------------------- MODULE MCAdminConsole ---------------------------
(***************************************************************************)
(* An instance of AdminConsole for TLC: the age template checks options,   *)
(* the employee template does not, and each requires a field of its own.   *)
(***************************************************************************)
EXTENDS AdminConsole, TLC

CONSTANTS age, employee, dateOfBirth, role

MCRequiredFields == (age :> {dateOfBirth}) @@ (employee :> {role})

\* No file; a configured issuer whose unused options are invalid; one left
\* for the wizard with a type nobody registered.
MCDeployments ==
  { Absent,
    [named |-> TRUE, host |-> "example.com", type |-> employee,
     fieldMappings |-> {role}, options |-> FALSE, dataSource |-> TRUE],
    [named |-> FALSE, host |-> "localhost", type |-> UnknownType,
     fieldMappings |-> {dateOfBirth}, options |-> TRUE, dataSource |-> TRUE] }

Symmetry == Permutations(SessionIds) \union Permutations(CsrfIds)

=============================================================================
