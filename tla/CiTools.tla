------------------------------- MODULE CiTools -------------------------------
(***************************************************************************)
(* The tools a change meets on its way in: the rule scanner of the         *)
(* pre-commit hook, the reference vectors of the FPU benches, the coverage *)
(* gates and the cycle comparison.  They share no state, so a behaviour    *)
(* runs one of them and leaves the others where they start.                *)
(***************************************************************************)
EXTENDS CycleDiff, CoverageGate, RtlRules, SrtRef

ciVars == <<cdVars, covVars, rrVars, srtVars>>

Init == CdInit /\ CovInit /\ RrInit /\ SrtInit

CompareCycles == CovInit /\ RrInit /\ SrtInit /\ CdNext /\ UNCHANGED <<covVars, rrVars, srtVars>>
GateCoverage == CdInit /\ RrInit /\ SrtInit /\ CovNext /\ UNCHANGED <<cdVars, rrVars, srtVars>>
CheckRules == CdInit /\ CovInit /\ SrtInit /\ RrNext /\ UNCHANGED <<cdVars, covVars, srtVars>>
MakeVectors == CdInit /\ CovInit /\ RrInit /\ SrtNext /\ UNCHANGED <<cdVars, covVars, rrVars>>

Next == CompareCycles \/ GateCoverage \/ CheckRules \/ MakeVectors

Spec == Init /\ [][Next]_ciVars

=============================================================================
