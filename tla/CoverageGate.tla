---------------------------- MODULE CoverageGate ----------------------------
(***************************************************************************)
(* The coverage checks: make sim-crv-coverage runs the coverage testbench  *)
(* once per scenario, merges every coverage_*.txt of the directory         *)
(* (tools/crv_cov_merge.py) and gates on the merged bins; make coverage    *)
(* gates on an LCOV file (both modes of tools/coverage_gate.py).           *)
(*                                                                         *)
(* The directory outlives a make.  A testbench run may be skipped, fail    *)
(* before it writes, or die while it writes, and make goes on.             *)
(***************************************************************************)
EXTENDS Integers, Sequences, FiniteSets

CONSTANTS CovScenarios,  \* scenarios of the loop, in any order
          Bins,          \* bins the testbench reports
          Thresholds,    \* percentages the gate may be called with
          MaxInfo        \* bound on the lines of an LCOV file

ASSUME CoverageAssumption ==
    IsFiniteSet(Bins) /\ Thresholds \subseteq 0..100 /\ MaxInfo \in Nat

VARIABLES cov,       \* scenario -> its coverage file: bin -> flag, for the bins written
          pending,   \* scenarios the loop has still to run
          merged,    \* merged.txt
          info,      \* the LCOV file
          infoPos,   \* lines of it that run_line has read
          scan,      \* run_line's skip, total and hit
          request,   \* the gate's command line
          result     \* exit code of the last command, -1 while the recipe runs

covVars == <<cov, pending, merged, info, infoPos, scan, request, result>>

NoFile == [b \in {} |-> 0]
CovFiles == UNION {[W -> {0, 1}] : W \in SUBSET Bins}

InfoLines == {"SF tb", "SF rtl", "DA 0", "DA 1", "end_of_record"}
Infos == UNION {[1..n -> InfoLines] : n \in 0..MaxInfo}

\* --exclude-bins, --threshold and the second positional argument of the usage.
Requests == [mode : {"functional"}, exclude : SUBSET Bins,
             threshold : Thresholds, positional : {FALSE}]
       \cup [mode : {"line"}, exclude : {{}}, threshold : Thresholds, positional : BOOLEAN]

NoRequest == [mode |-> "none", exclude |-> {}, threshold |-> 0, positional |-> FALSE]

CovInit ==
    /\ cov = [s \in CovScenarios |-> NoFile]
    /\ pending = {}
    /\ merged = NoFile
    /\ info = <<>>
    /\ infoPos = 0
    /\ scan = [skip |-> FALSE, total |-> 0, hit |-> 0]
    /\ request = NoRequest
    /\ result = -1

\* A make starts, with the files that earlier ones left.
Invoke ==
    /\ request = NoRequest
    /\ request' \in Requests
    /\ IF request'.mode = "functional"
       THEN cov' \in [CovScenarios -> CovFiles] /\ pending' = CovScenarios /\ UNCHANGED info
       ELSE info' \in Infos /\ UNCHANGED <<cov, pending>>
    /\ UNCHANGED <<merged, infoPos, scan, result>>

\* One turn of the loop: the testbench writes all bins, or part of them when it
\* dies in dump_coverage, or nothing: the file of an earlier make stays.
RunTestbench ==
    /\ result = -1 /\ request.mode = "functional"
    /\ \E s \in pending :
        /\ pending' = pending \ {s}
        /\ \E f \in CovFiles \cup {cov[s]} : cov' = [cov EXCEPT ![s] = f]
    /\ UNCHANGED <<merged, info, infoPos, scan, request, result>>

\* crv_cov_merge: OR over the files that exist.
MutMergeFiles(files) ==
    [b \in UNION {DOMAIN f : f \in files} |->
        LET f == CHOOSE f \in files : b \in DOMAIN f IN f[b]]
MergeFiles(files) ==
    [b \in UNION {DOMAIN f : f \in files} |->
        IF \E f \in files : b \in DOMAIN f /\ f[b] = 1 THEN 1 ELSE 0]

Merge ==
    /\ result = -1 /\ request.mode = "functional"
    /\ pending = {} /\ merged = NoFile
    /\ LET all == MergeFiles({cov[s] : s \in CovScenarios}) IN
       IF DOMAIN all = {}
       THEN result' = 1 /\ UNCHANGED merged
       ELSE merged' = all /\ UNCHANGED result
    /\ UNCHANGED <<cov, pending, info, infoPos, scan, request>>

\* pct >= threshold, and exit code 2 when nothing was counted.
GateExit(hit, total, threshold) ==
    IF total = 0 THEN 2 ELSE IF 100 * hit >= threshold * total THEN 0 ELSE 1

RunFunctional ==
    /\ result = -1 /\ request.mode = "functional"
    /\ merged # NoFile
    /\ LET counted == DOMAIN merged \ request.exclude IN
       result' = GateExit(Cardinality({b \in counted : merged[b] # 0}),
                          Cardinality(counted), request.threshold)
    /\ UNCHANGED <<cov, pending, merged, info, infoPos, scan, request>>

\* run_line: one turn of its loop, with the flag skip; at the end of the file the
\* same comparison.
MutInfoStep(s, line) ==
    CASE line = "SF tb"  -> [s EXCEPT !.skip = TRUE]
      [] line = "DA 0" /\ ~s.skip -> [s EXCEPT !.total = @ + 1]
      [] line = "DA 1" /\ ~s.skip -> [s EXCEPT !.total = @ + 1, !.hit = @ + 1]
      [] OTHER -> s
InfoStep(s, line) ==
    CASE line = "SF tb"  -> [s EXCEPT !.skip = TRUE]
      [] line = "SF rtl" -> [s EXCEPT !.skip = FALSE]
      [] line = "DA 0" /\ ~s.skip -> [s EXCEPT !.total = @ + 1]
      [] line = "DA 1" /\ ~s.skip -> [s EXCEPT !.total = @ + 1, !.hit = @ + 1]
      [] OTHER -> s

ReadInfoLine ==
    /\ result = -1 /\ request.mode = "line" /\ ~request.positional
    /\ infoPos < Len(info)
    /\ infoPos' = infoPos + 1
    /\ scan' = InfoStep(scan, info[infoPos + 1])
    /\ UNCHANGED <<cov, pending, merged, info, request, result>>

RunLine ==
    /\ result = -1 /\ request.mode = "line"
    /\ IF request.positional
       THEN result' = 2            \* argparse: unrecognized arguments
       ELSE /\ infoPos = Len(info)
            /\ result' = GateExit(scan.hit, scan.total, request.threshold)
    /\ UNCHANGED <<cov, pending, merged, info, infoPos, scan, request>>

CovDone == result # -1 /\ UNCHANGED covVars

CovNext ==
    Invoke \/ RunTestbench \/ Merge \/ RunFunctional \/ ReadInfoLine \/ RunLine \/ CovDone
CovSpec == CovInit /\ [][CovNext]_covVars

-----------------------------------------------------------------------------
(* Properties.                                                             *)

\* The functional gate at 100 % passes exactly when every bin that is not
\* excluded and that some scenario's file lists was hit in some file, whichever
\* of the scenarios were skipped, failed or wrote half a file.
CovGateExact ==
    LET Has(s, b) == b \in DOMAIN cov[s]
        listed == {b \in Bins \ request.exclude : \E s \in CovScenarios : Has(s, b)}
    IN  (request.mode = "functional" /\ request.threshold = 100 /\ result # -1)
        => (result = 0 <=> /\ listed # {}
                           /\ \A b \in listed :
                                \E s \in CovScenarios : Has(s, b) /\ cov[s][b] = 1)

\* The line gate counts exactly the lines of files outside ../tb/, that is the
\* ones whose nearest file header above is not a testbench's, and passes exactly
\* when the hit ones reach the threshold.
Counted(i) ==
    /\ info[i] \in {"DA 0", "DA 1"}
    /\ \A h \in 1..(i - 1) :
        info[h] = "SF tb" => \E g \in (h + 1)..(i - 1) : info[g] = "SF rtl"
Reaches(threshold) ==
    LET counted == {i \in DOMAIN info : Counted(i)}
        hits == {i \in counted : info[i] = "DA 1"}
    IN  counted # {} /\ 100 * Cardinality(hits) >= threshold * Cardinality(counted)
CovLineGateExact ==
    (request.mode = "line" /\ ~request.positional /\ result # -1)
    => (result = 0 <=> Reaches(request.threshold))

\* The same of the documented call "coverage_gate.py <merged.info> [threshold_pct]".
CovUsage ==
    (request.mode = "line" /\ result # -1) => (result = 0 <=> Reaches(request.threshold))

=============================================================================
