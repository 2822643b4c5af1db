------------------------------ MODULE MCCiTools ------------------------------
EXTENDS CiTools

\* Every job names the same commit: one directory, one registration.
MCCommit == [j \in Jobs |-> "sha"]

=============================================================================
