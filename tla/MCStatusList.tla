---------------------------- MODULE MCStatusList ----------------------------
\* No symmetry is declared: FetchesAnswered is a liveness property.
EXTENDS StatusList

=============================================================================
