--------------------------- MODULE CiTools_proofs ---------------------------
(***************************************************************************)
(* Theorems about the tools of a change: cycle_diff for every number of    *)
(* jobs, every assignment of commits to them, every set of cycle counts    *)
(* and every budget; the coverage gates for every set of bins, scenarios   *)
(* and files; the scanner of the rule checker for every source text.       *)
(***************************************************************************)
EXTENDS CycleDiff, CoverageGate, RtlRules, FiniteSetTheorems, TLAPS

-----------------------------------------------------------------------------
(* cycle_diff.                                                             *)

\* The types, in the parts the actions disturb separately.
FlowType == /\ at \in [Jobs -> Steps] /\ args \in [Jobs -> Args]
            /\ owned \in [Jobs -> {"no", "local", "main"}]
            /\ code \in [Jobs -> {Running, 0, 1, 2, Killed}]
AloneType == alone \in [Jobs -> BOOLEAN]
SimType == sim \in [Jobs -> [base : Runs \cup {NotRun}, cand : Runs \cup {NotRun}]]
DiskType == /\ dir \in [Commits -> {"none", "empty", "built"}]
            /\ registered \in [Commits -> BOOLEAN]

\* Both runs are there when they are compared: the strengthening that makes the
\* last part of CdTypeOK inductive.
Measured ==
    \A j \in Jobs :
        /\ at[j] = "runCand" => sim[j].base # NotRun
        /\ (at[j] \in {"finally", "finallyRm", "finallyPrune"} /\ code[j] = Running)
              => sim[j].base # NotRun /\ sim[j].cand # NotRun
        /\ at[j] = "compare" => sim[j].base # NotRun /\ sim[j].cand # NotRun
        /\ code[j] # Running => at[j] \in {"finally", "finallyRm", "finallyPrune", "done"}
        /\ code[j] = Killed => at[j] = "done"

Types == FlowType /\ AloneType /\ SimType /\ DiskType /\ Measured

\* A run that has not happened is none that can.
LEMMA NotRunIsNoRun == NotRun \notin Runs
BY CycleDiffAssumption DEF NotRun, Runs

\* The commit of a job is one of the commits the disk is indexed by.
LEMMA CommitOfJob == \A j \in Jobs : Commit[j] \in Commits
BY DEF Commits

\* The parts make up CdTypeOK.
LEMMA TypesMeanCdTypeOK == Types => CdTypeOK
BY DEF Types, FlowType, AloneType, SimType, DiskType, Measured, CdTypeOK

\* They hold initially.
LEMMA TypesInit == CdInit => Types
BY DEF CdInit, Types, FlowType, AloneType, SimType, DiskType, Measured,
       Steps, Args, NoArgs, Running, Killed

\* No step of any job, and none of its failures, breaks them.
LEMMA TypesStep == Types /\ [CdNext]_cdVars => Types'
<1> SUFFICES ASSUME Types, [CdNext]_cdVars
             PROVE  Types'
  OBVIOUS
<1> USE DEF Types
<1>1. CASE UNCHANGED cdVars
  BY <1>1 DEF FlowType, AloneType, SimType, DiskType, Measured, cdVars
<1>2. ASSUME NEW j \in Jobs, ParseArgs(j)
      PROVE  Types'
  <2>0. PICK a \in Args :
           /\ args' = [args EXCEPT ![j] = a]
           /\ \/ Exit(j, 2)
              \/ Goto(j, IF a.commit THEN "try" ELSE "runBase") /\ UNCHANGED code
    BY <1>2 DEF ParseArgs
  <2>a. at[j] = "start" /\ UNCHANGED <<owned, sim>>
    BY <1>2 DEF ParseArgs
  <2>1. FlowType'
    BY <2>0, <2>a DEF FlowType, Exit, Goto, Steps, Running, Killed
  <2>2. AloneType'
    <3>1. CASE UNCHANGED alone
      BY <3>1 DEF AloneType
    <3>2. CASE alone' = [k \in Jobs |-> IF k = j THEN \A p \in Peers(j) : ~Active(p)
                                       ELSE alone[k] /\ ~(k \in Peers(j) /\ Active(k))]
      BY <3>2, Zenon DEF AloneType
    <3> QED
      BY <1>2, <3>1, <3>2 DEF ParseArgs
  <2>3. SimType'
    BY <1>2 DEF SimType, ParseArgs
  <2>4. DiskType'
    BY <1>2 DEF DiskType, disk, ParseArgs
  <2>5. Measured'
    BY <2>0, <2>a DEF Measured, FlowType, Exit, Goto, Running, Killed
  <2> QED
    BY <2>1, <2>2, <2>3, <2>4, <2>5
<1>3. ASSUME NEW j \in Jobs, VerifyCommit(j)
      PROVE  Types'
  <2>1. FlowType'
    BY <1>3 DEF FlowType, VerifyCommit, Raise, Goto, Steps, Running, Killed
  <2>2. AloneType'
    BY <1>3 DEF AloneType, VerifyCommit
  <2>3. SimType'
    BY <1>3 DEF SimType, VerifyCommit
  <2>4. DiskType'
    BY <1>3 DEF DiskType, disk, VerifyCommit
  <2>5. Measured'
    BY <1>3 DEF Measured, FlowType, VerifyCommit, Raise, Goto, Running, Killed
  <2> QED
    BY <2>1, <2>2, <2>3, <2>4, <2>5
<1>4. ASSUME NEW j \in Jobs, StaleCleanup(j)
      PROVE  Types'
  <2>1. FlowType'
    BY <1>4 DEF FlowType, StaleCleanup, GitRemove, Rmtree, Prune, Goto, Steps, Running, Killed
  <2>2. AloneType'
    BY <1>4 DEF AloneType, StaleCleanup
  <2>3. SimType'
    BY <1>4 DEF SimType, StaleCleanup
  <2>4. DiskType'
    BY <1>4, CommitOfJob DEF DiskType, disk, StaleCleanup, GitRemove, Rmtree, Prune
  <2>5. Measured'
    BY <1>4 DEF Measured, FlowType, StaleCleanup, GitRemove, Rmtree, Prune, Goto
  <2> QED
    BY <2>1, <2>2, <2>3, <2>4, <2>5
<1>5. ASSUME NEW j \in Jobs, WorktreeAdd(j)
      PROVE  Types'
  <2>1. FlowType'
    BY <1>5 DEF FlowType, WorktreeAdd, Raise, Goto, Steps, Running, Killed
  <2>2. AloneType'
    BY <1>5 DEF AloneType, WorktreeAdd
  <2>3. SimType'
    BY <1>5 DEF SimType, WorktreeAdd
  <2>4. DiskType'
    BY <1>5, CommitOfJob DEF DiskType, disk, WorktreeAdd
  <2>5. Measured'
    BY <1>5 DEF Measured, FlowType, WorktreeAdd, Raise, Goto, Running, Killed
  <2> QED
    BY <2>1, <2>2, <2>3, <2>4, <2>5
<1>6. ASSUME NEW j \in Jobs, BuildBaseline(j)
      PROVE  Types'
  <2>1. FlowType'
    BY <1>6 DEF FlowType, BuildBaseline, Raise, Goto, Steps, Running, Killed
  <2>2. AloneType'
    BY <1>6 DEF AloneType, BuildBaseline
  <2>3. SimType'
    BY <1>6 DEF SimType, BuildBaseline
  <2>4. DiskType'
    BY <1>6, CommitOfJob DEF DiskType, disk, BuildBaseline
  <2>5. Measured'
    BY <1>6 DEF Measured, FlowType, BuildBaseline, Raise, Goto, Running, Killed
  <2> QED
    BY <2>1, <2>2, <2>3, <2>4, <2>5
<1>7. ASSUME NEW j \in Jobs, BuildCandidate(j)
      PROVE  Types'
  <2>1. FlowType'
    BY <1>7 DEF FlowType, BuildCandidate, Raise, Goto, Steps, Running, Killed
  <2>2. AloneType'
    BY <1>7 DEF AloneType, BuildCandidate
  <2>3. SimType'
    BY <1>7 DEF SimType, BuildCandidate
  <2>4. DiskType'
    BY <1>7 DEF DiskType, disk, BuildCandidate
  <2>5. Measured'
    BY <1>7 DEF Measured, FlowType, BuildCandidate, Raise, Goto, Running, Killed
  <2> QED
    BY <2>1, <2>2, <2>3, <2>4, <2>5
<1>8. ASSUME NEW j \in Jobs, RunBaseline(j)
      PROVE  Types'
  <2>1. FlowType'
    BY <1>8 DEF FlowType, RunBaseline, Raise, Goto, Steps, Running, Killed
  <2>2. AloneType'
    BY <1>8 DEF AloneType, RunBaseline
  <2>3. SimType'
    BY <1>8 DEF SimType, RunBaseline
  <2>4. DiskType'
    BY <1>8 DEF DiskType, disk, RunBaseline
  <2>5. Measured'
    BY <1>8, NotRunIsNoRun DEF Measured, FlowType, SimType, RunBaseline, Raise, Goto, Running, Killed
  <2> QED
    BY <2>1, <2>2, <2>3, <2>4, <2>5
<1>9. ASSUME NEW j \in Jobs, RunCandidate(j)
      PROVE  Types'
  <2>1. FlowType'
    BY <1>9 DEF FlowType, RunCandidate, Raise, Goto, Steps, Running, Killed
  <2>2. AloneType'
    BY <1>9 DEF AloneType, RunCandidate
  <2>3. SimType'
    BY <1>9 DEF SimType, RunCandidate
  <2>4. DiskType'
    BY <1>9 DEF DiskType, disk, RunCandidate
  <2>5. Measured'
    BY <1>9, NotRunIsNoRun DEF Measured, FlowType, SimType, RunCandidate, Raise, Goto, Running, Killed
  <2> QED
    BY <2>1, <2>2, <2>3, <2>4, <2>5
<1>10. ASSUME NEW j \in Jobs, Finally(j)
       PROVE  Types'
  <2>1. FlowType'
    BY <1>10 DEF FlowType, Finally, AfterFinally, GitRemove, Rmtree, Prune, Goto, Steps, Running, Killed
  <2>2. AloneType'
    BY <1>10 DEF AloneType, Finally
  <2>3. SimType'
    BY <1>10 DEF SimType, Finally
  <2>4. DiskType'
    BY <1>10, CommitOfJob DEF DiskType, disk, Finally, GitRemove, Rmtree, Prune
  <2>5. Measured'
    BY <1>10 DEF Measured, FlowType, Finally, AfterFinally, GitRemove, Rmtree, Prune, Goto
  <2> QED
    BY <2>1, <2>2, <2>3, <2>4, <2>5
<1>11. ASSUME NEW j \in Jobs, Compare(j)
       PROVE  Types'
  <2>1. FlowType'
    BY <1>11 DEF FlowType, Compare, Verdict, Exit, Goto, Steps, Running, Killed
  <2>2. AloneType'
    BY <1>11 DEF AloneType, Compare
  <2>3. SimType'
    BY <1>11 DEF SimType, Compare
  <2>4. DiskType'
    BY <1>11 DEF DiskType, disk, Compare
  <2>5. Measured'
    BY <1>11 DEF Measured, FlowType, Compare, Exit, Goto, Running, Killed
  <2> QED
    BY <2>1, <2>2, <2>3, <2>4, <2>5
<1>12. ASSUME NEW j \in Jobs, Kill(j)
       PROVE  Types'
  <2>1. FlowType'
    BY <1>12 DEF FlowType, Kill, Exit, Goto, Steps, Running, Killed
  <2>2. AloneType'
    BY <1>12 DEF AloneType, Kill
  <2>3. SimType'
    BY <1>12 DEF SimType, Kill
  <2>4. DiskType'
    BY <1>12 DEF DiskType, disk, Kill
  <2>5. Measured'
    BY <1>12 DEF Measured, FlowType, Kill, Exit, Goto, Running, Killed
  <2> QED
    BY <2>1, <2>2, <2>3, <2>4, <2>5
<1>13. CASE CdDone
  BY <1>1, <1>13 DEF CdDone
<1> QED
  BY <1>1, <1>2, <1>3, <1>4, <1>5, <1>6, <1>7, <1>8, <1>9, <1>10, <1>11, <1>12, <1>13
     DEF CdNext, CdStep

\* cycle_diff keeps its types and compares only what it has measured.
THEOREM TypeCorrect == CdSpec => []CdTypeOK
<1>1. CdSpec => []Types
  BY TypesInit, TypesStep, PTL DEF CdSpec
<1> QED
  BY <1>1, TypesMeanCdTypeOK, PTL

-----------------------------------------------------------------------------
(* What is left behind.                                                    *)

\* A job that accounts for a directory: the path is still in build_baseline,
\* main's finally block is still to come, or the job was killed.
Holds(j) == \/ owned[j] = "local"
            \/ code[j] = Killed
            \/ owned[j] = "main" /\ at[j] \in {"buildCand", "runBase", "runCand", "finally", "finallyRm"}
Prunes(j) == at[j] \in {"stalePrune", "finallyPrune"} \/ code[j] = Killed

\* The inductive invariant: a directory has a holder, and a registration without
\* its directory has a job that prunes it or was killed before it could.
Accounted ==
    \A c \in Commits :
        /\ dir[c] # "none" => \E j \in Jobs : Commit[j] = c /\ Holds(j)
        /\ (registered[c] /\ dir[c] = "none") => \E j \in Jobs : Commit[j] = c /\ Prunes(j)

\* The other jobs go on accounting for what they accounted for.
Frame(j) == \A k \in Jobs \ {j} : (Holds(k) => Holds(k)') /\ (Prunes(k) => Prunes(k)')
Keeps(j) == Frame(j) /\ (Holds(j) => Holds(j)') /\ (Prunes(j) => Prunes(j)')

\* A step that leaves the disk alone.
LEMMA KeepsAccounted ==
    ASSUME NEW j \in Jobs, Accounted, Keeps(j), dir' = dir, registered' = registered
    PROVE  Accounted'
<1>1. \A k \in Jobs : (Holds(k) => Holds(k)') /\ (Prunes(k) => Prunes(k)')
  BY DEF Keeps, Frame
<1> QED
  BY <1>1 DEF Accounted

\* A step that changes the worktree of one commit.
LEMMA ChangesOne ==
    ASSUME NEW j \in Jobs, Accounted, Frame(j),
           \A c \in Commits \ {Commit[j]} : dir'[c] = dir[c] /\ (registered'[c] => registered[c]),
           dir'[Commit[j]] # "none" => \E k \in Jobs : Commit[k] = Commit[j] /\ Holds(k)',
           (registered'[Commit[j]] /\ dir'[Commit[j]] = "none")
              => \E k \in Jobs : Commit[k] = Commit[j] /\ Prunes(k)'
    PROVE  Accounted'
<1> SUFFICES ASSUME NEW c \in Commits
             PROVE  /\ dir'[c] # "none" => \E k \in Jobs : Commit[k] = c /\ Holds(k)'
                    /\ (registered'[c] /\ dir'[c] = "none")
                         => \E k \in Jobs : Commit[k] = c /\ Prunes(k)'
  BY DEF Accounted
<1>1. CASE c = Commit[j]
  BY <1>1
<1>2. CASE c # Commit[j]
  BY <1>2 DEF Accounted, Frame
<1> QED
  BY <1>1, <1>2

\* Nothing is left behind at the start.
LEMMA AccountedInit == CdInit => Accounted
BY DEF CdInit, Accounted


\* No step of a job, overlapping with others or not, breaks it.
LEMMA AccountedStep == Types /\ Accounted /\ [CdNext]_cdVars => Accounted'
<1> SUFFICES ASSUME Types, Accounted, [CdNext]_cdVars
             PROVE  Accounted'
  OBVIOUS
<1>1. CASE UNCHANGED cdVars
  BY <1>1 DEF Accounted, Holds, Prunes, cdVars
<1>2. ASSUME NEW j \in Jobs, ParseArgs(j)
      PROVE  Accounted'
  <2>1. \/ Exit(j, 2)
        \/ (Goto(j, "try") \/ Goto(j, "runBase")) /\ UNCHANGED code
    BY <1>2 DEF ParseArgs
  <2>2. at[j] = "start" /\ UNCHANGED <<owned, disk>>
    BY <1>2 DEF ParseArgs
  <2>3. Keeps(j)
    BY <2>1, <2>2 DEF Keeps, Frame, Holds, Prunes, Exit, Goto, Types, FlowType, Measured
  <2> QED
    BY <2>2, <2>3, KeepsAccounted DEF disk
<1>3. ASSUME NEW j \in Jobs, VerifyCommit(j)
      PROVE  Accounted'
  <2>1. Keeps(j)
    BY <1>3 DEF Keeps, Frame, Holds, Prunes, VerifyCommit, Raise, Goto, Types, FlowType, Measured
  <2>2. dir' = dir /\ registered' = registered
    BY <1>3 DEF VerifyCommit, disk
  <2> QED
    BY <2>1, <2>2, KeepsAccounted
<1>4. ASSUME NEW j \in Jobs, BuildCandidate(j)
      PROVE  Accounted'
  <2>1. Keeps(j)
    BY <1>4 DEF Keeps, Frame, Holds, Prunes, BuildCandidate, Raise, Goto, Types, FlowType, Measured
  <2>2. dir' = dir /\ registered' = registered
    BY <1>4 DEF BuildCandidate, disk
  <2> QED
    BY <2>1, <2>2, KeepsAccounted
<1>5. ASSUME NEW j \in Jobs, RunBaseline(j)
      PROVE  Accounted'
  <2>1. Keeps(j)
    BY <1>5 DEF Keeps, Frame, Holds, Prunes, RunBaseline, Raise, Goto, Types, FlowType, Measured
  <2>2. dir' = dir /\ registered' = registered
    BY <1>5 DEF RunBaseline, disk
  <2> QED
    BY <2>1, <2>2, KeepsAccounted
<1>6. ASSUME NEW j \in Jobs, RunCandidate(j)
      PROVE  Accounted'
  <2>1. Keeps(j)
    BY <1>6 DEF Keeps, Frame, Holds, Prunes, RunCandidate, Raise, Goto, Types, FlowType, Measured
  <2>2. dir' = dir /\ registered' = registered
    BY <1>6 DEF RunCandidate, disk
  <2> QED
    BY <2>1, <2>2, KeepsAccounted
<1>7. ASSUME NEW j \in Jobs, Compare(j)
      PROVE  Accounted'
  <2>1. Keeps(j)
    BY <1>7 DEF Keeps, Frame, Holds, Prunes, Compare, Exit, Goto, Types, FlowType, Measured
  <2>2. dir' = dir /\ registered' = registered
    BY <1>7 DEF Compare, disk
  <2> QED
    BY <2>1, <2>2, KeepsAccounted
<1>8. ASSUME NEW j \in Jobs, Kill(j)
      PROVE  Accounted'
  <2>1. Keeps(j)
    BY <1>8 DEF Keeps, Frame, Holds, Prunes, Kill, Active, Exit, Goto, Types, FlowType, Measured
  <2>2. dir' = dir /\ registered' = registered
    BY <1>8 DEF Kill, disk
  <2> QED
    BY <2>1, <2>2, KeepsAccounted
<1>9. ASSUME NEW j \in Jobs, StaleCleanup(j)
      PROVE  Accounted'
  <2>0. Commit[j] \in Commits
    BY CommitOfJob
  <2>a. at[j] \in {"stale", "staleRm", "stalePrune"} /\ UNCHANGED <<owned, code>>
    BY <1>9 DEF StaleCleanup
  <2>b. \E s \in Steps : at' = [at EXCEPT ![j] = s]
    BY <1>9 DEF StaleCleanup, GitRemove, Rmtree, Prune, Goto, Steps
  <2>1. Frame(j) /\ (Holds(j) => Holds(j)')
    BY <2>a, <2>b DEF Frame, Holds, Prunes, Types, FlowType, Measured
  <2>2. CASE at[j] = "stale"
    <3>1. CASE dir' = dir /\ registered' = registered
      BY <2>1, <2>2, <2>a, <3>1, KeepsAccounted DEF Keeps, Prunes, Types, Measured
    <3>2. CASE /\ dir' = [dir EXCEPT ![Commit[j]] = "none"]
               /\ registered' = [registered EXCEPT ![Commit[j]] = FALSE]
      BY <2>0, <2>1, <3>2, ChangesOne DEF Types, DiskType
    <3> QED
      BY <1>9, <2>2, <3>1, <3>2 DEF StaleCleanup, GitRemove, disk
  <2>3. CASE at[j] = "staleRm"
    <3>1. /\ dir' = [dir EXCEPT ![Commit[j]] = "none"] /\ registered' = registered
          /\ Prunes(j)'
      BY <1>9, <2>3 DEF StaleCleanup, Rmtree, Goto, Prunes, Types, FlowType
    <3> QED
      BY <2>0, <2>1, <3>1, ChangesOne DEF Types, DiskType
  <2>4. CASE at[j] = "stalePrune"
    <3>1. /\ dir' = dir
          /\ registered' = [c \in Commits |-> registered[c] /\ dir[c] # "none"]
      BY <1>9, <2>4 DEF StaleCleanup, Prune
    <3>2. dir[Commit[j]] # "none" => \E k \in Jobs : Commit[k] = Commit[j] /\ Holds(k)'
      BY <2>0, <2>1 DEF Accounted, Frame
    <3> QED
      BY <2>0, <2>1, <3>1, <3>2, ChangesOne DEF Types, DiskType
  <2> QED
    BY <2>2, <2>3, <2>4, <2>a
<1>10. ASSUME NEW j \in Jobs, WorktreeAdd(j)
       PROVE  Accounted'
  <2>0. Commit[j] \in Commits
    BY CommitOfJob
  <2>1. CASE Raise(j) /\ UNCHANGED <<owned, disk>>
    <3>1. Keeps(j)
      BY <1>10, <2>1 DEF WorktreeAdd, Keeps, Frame, Holds, Prunes, Raise, Goto, Types, FlowType, Measured
    <3> QED
      BY <2>1, <3>1, KeepsAccounted DEF disk
  <2>2. CASE /\ dir' = [dir EXCEPT ![Commit[j]] = "empty"]
             /\ registered' = [registered EXCEPT ![Commit[j]] = TRUE]
             /\ owned' = [owned EXCEPT ![j] = "local"]
             /\ Goto(j, "buildBase") /\ UNCHANGED code
    <3>1. Frame(j) /\ Holds(j)'
      BY <2>2 DEF Frame, Holds, Prunes, Goto, Types, FlowType
    <3> QED
      BY <2>0, <2>2, <3>1, ChangesOne DEF Types, DiskType
  <2> QED
    BY <1>10, <2>1, <2>2 DEF WorktreeAdd
<1>11. ASSUME NEW j \in Jobs, BuildBaseline(j)
       PROVE  Accounted'
  <2>0. Commit[j] \in Commits
    BY CommitOfJob
  <2>1. CASE Raise(j) /\ UNCHANGED <<owned, dir>>
    <3>1. Keeps(j)
      BY <1>11, <2>1 DEF BuildBaseline, Keeps, Frame, Holds, Prunes, Raise, Goto, Types, FlowType, Measured
    <3> QED
      BY <1>11, <2>1, <3>1, KeepsAccounted DEF BuildBaseline
  <2>2. CASE /\ dir' = [dir EXCEPT ![Commit[j]] = "built"]
             /\ owned' = [owned EXCEPT ![j] = "main"]
             /\ Goto(j, "buildCand") /\ UNCHANGED code
    <3>1. Frame(j) /\ Holds(j)'
      BY <2>2 DEF Frame, Holds, Prunes, Goto, Types, FlowType
    <3>2. registered' = registered
      BY <1>11 DEF BuildBaseline
    <3> QED
      BY <2>0, <2>2, <3>1, <3>2, ChangesOne DEF Types, DiskType
  <2> QED
    BY <1>11, <2>1, <2>2 DEF BuildBaseline
<1>12. ASSUME NEW j \in Jobs, Finally(j)
       PROVE  Accounted'
  <2>0. Commit[j] \in Commits
    BY CommitOfJob
  <2>a. at[j] \in {"finally", "finallyRm", "finallyPrune"} /\ UNCHANGED <<owned, code>>
    BY <1>12 DEF Finally
  <2>b. \E s \in Steps : at' = [at EXCEPT ![j] = s]
    BY <1>12 DEF Finally, AfterFinally, GitRemove, Rmtree, Prune, Goto, Steps
  <2>1. Frame(j)
    BY <2>a, <2>b DEF Frame, Holds, Prunes, Types, FlowType
  <2>c. code[j] # Killed
    BY <2>a DEF Types, Measured
  <2>2. CASE at[j] = "finally" /\ owned[j] # "main"
    <3>1. Keeps(j)
      BY <2>1, <2>2, <2>a, <2>c DEF Keeps, Holds, Prunes
    <3> QED
      BY <1>12, <2>2, <3>1, KeepsAccounted DEF Finally, disk
  <2>3. CASE at[j] = "finally" /\ owned[j] = "main"
    <3>1. CASE dir[Commit[j]] = "none" /\ UNCHANGED disk
      <4>1. \A k \in Jobs : Prunes(k) => Prunes(k)'
        BY <2>1, <2>3, <2>c DEF Frame, Prunes
      <4> QED
        BY <2>0, <2>1, <3>1, <4>1, ChangesOne DEF disk, Accounted
    <3>2. CASE /\ dir' = [dir EXCEPT ![Commit[j]] = "none"]
               /\ registered' = [registered EXCEPT ![Commit[j]] = FALSE]
      BY <2>0, <2>1, <3>2, ChangesOne DEF Types, DiskType
    <3>3. CASE Goto(j, "finallyRm") /\ UNCHANGED disk
      <4>1. Keeps(j)
        BY <2>1, <2>3, <2>a, <2>c, <3>3 DEF Keeps, Holds, Prunes, Goto, Types, FlowType
      <4> QED
        BY <3>3, <4>1, KeepsAccounted DEF disk
    <3> QED
      BY <1>12, <2>3, <3>1, <3>2, <3>3 DEF Finally, GitRemove
  <2>4. CASE at[j] = "finallyRm"
    <3>1. /\ dir' = [dir EXCEPT ![Commit[j]] = "none"] /\ registered' = registered
          /\ Prunes(j)'
      BY <1>12, <2>4 DEF Finally, Rmtree, Goto, Prunes, Types, FlowType
    <3> QED
      BY <2>0, <2>1, <3>1, ChangesOne DEF Types, DiskType
  <2>5. CASE at[j] = "finallyPrune"
    <3>1. /\ dir' = dir
          /\ registered' = [c \in Commits |-> registered[c] /\ dir[c] # "none"]
      BY <1>12, <2>5 DEF Finally, Prune
    <3>2. Holds(j) => Holds(j)'
      BY <2>5, <2>a, <2>c DEF Holds
    <3>3. dir[Commit[j]] # "none" => \E k \in Jobs : Commit[k] = Commit[j] /\ Holds(k)'
      BY <2>0, <2>1, <3>2 DEF Accounted, Frame
    <3> QED
      BY <2>0, <2>1, <3>1, <3>3, ChangesOne DEF Types, DiskType
  <2> QED
    BY <2>2, <2>3, <2>4, <2>5, <2>a
<1>13. CASE CdDone
  BY <1>1, <1>13 DEF CdDone
<1> QED
  BY <1>1, <1>2, <1>3, <1>4, <1>5, <1>6, <1>7, <1>8, <1>9, <1>10, <1>11, <1>12, <1>13
     DEF CdNext, CdStep

\* Whatever jobs overlap, fail or are killed, a worktree that nobody is working
\* on was left by a killed job or by one whose baseline build failed.
THEOREM CleansUp == CdSpec => []CdCleansUp
<1>1. Types /\ Accounted => CdCleansUp
  BY DEF Accounted, CdCleansUp, LeftBy, Holds, Prunes, Active, Types, DiskType
<1>2. CdSpec => [](Types /\ Accounted)
  BY TypesInit, TypesStep, AccountedInit, AccountedStep, PTL DEF CdSpec
<1> QED
  BY <1>1, <1>2, PTL

-----------------------------------------------------------------------------
(* A job that has the directory to itself.                                 *)

\* What a step of job j does to the others: nothing but ending their being alone.
Others(j) ==
    /\ \A i \in Jobs \ {j} : /\ at'[i] = at[i] /\ args'[i] = args[i] /\ code'[i] = code[i]
                             /\ alone'[i] => alone[i]
    /\ \A c \in Commits \ {Commit[j]} : dir'[c] = dir[c] /\ (registered'[c] => registered[c])
    /\ code[j] # Killed
    /\ Active(j) => alone' = alone
    /\ ~Active(j) => /\ dir' = dir /\ registered' = registered
                     /\ at'[j] # "done" => \A i \in Peers(j) : Active(i) => ~alone'[i]
                     /\ (at'[j] # "done" /\ alone'[j]) => \A i \in Peers(j) : ~Active(i)
                     /\ args'[j].commit => at'[j] \in {"try", "done"}

\* Nobody else is at work on the commit of a job that is alone.
Solo == \A j \in Jobs : (alone[j] /\ Active(j)) => \A i \in Peers(j) : ~Active(i)

\* The directory as a job that is alone left it in its own last step.
AsLeft(j) ==
    (alone[j] /\ args[j].commit) =>
        /\ at[j] \in {"stalePrune", "add"} => dir[Commit[j]] = "none"
        /\ (at[j] = "add" /\ \A k \in Peers(j) : code[k] # Killed) => ~registered[Commit[j]]
        /\ at[j] \in {"buildCand", "runBase"} => dir[Commit[j]] = "built"

\* Every step of a job is one of Others.
LEMMA StepOthers ==
    ASSUME Types, NEW j \in Jobs, CdStep(j)
    PROVE  Others(j)
<1> USE CommitOfJob DEF Types, FlowType, DiskType, Measured, Active, disk
<1>1. CASE ParseArgs(j)
  <2>1. PICK a \in Args :
          /\ args' = [args EXCEPT ![j] = a]
          /\ \/ Exit(j, 2) /\ UNCHANGED alone
             \/ /\ Goto(j, IF a.commit THEN "try" ELSE "runBase")
                /\ alone' = [k \in Jobs |-> IF k = j THEN \A p \in Peers(j) : ~Active(p)
                                            ELSE alone[k] /\ ~(k \in Peers(j) /\ Active(k))]
                /\ UNCHANGED code
    BY <1>1 DEF ParseArgs
  <2>2. at[j] = "start" /\ UNCHANGED <<owned, sim, disk>>
    BY <1>1 DEF ParseArgs
  <2>3. Peers(j) \subseteq Jobs /\ j \notin Peers(j)
    BY DEF Peers
  <2>4. CASE Exit(j, 2) /\ UNCHANGED alone
    BY <2>1, <2>2, <2>4 DEF Others, Exit, Goto, Running, Killed
  <2>5. CASE /\ Goto(j, IF a.commit THEN "try" ELSE "runBase")
             /\ alone' = [k \in Jobs |-> IF k = j THEN \A p \in Peers(j) : ~Active(p)
                                         ELSE alone[k] /\ ~(k \in Peers(j) /\ Active(k))]
             /\ UNCHANGED code
    <3>1. \A i \in Jobs \ {j} : alone'[i] => alone[i]
      BY <2>5, Zenon
    <3>2. \A i \in Peers(j) : Active(i) => ~alone'[i]
      BY <2>3, <2>5, Zenon
    <3>3. alone'[j] => \A i \in Peers(j) : ~Active(i)
      BY <2>5, Zenon
    <3> QED
      BY <2>1, <2>2, <2>5, <3>1, <3>2, <3>3 DEF Others, Goto, Running, Killed
  <2> QED
    BY <2>1, <2>4, <2>5
<1>2. CASE VerifyCommit(j)
  BY <1>2 DEF Others, VerifyCommit, Raise, Goto
<1>3. CASE StaleCleanup(j)
  BY <1>3 DEF Others, StaleCleanup, GitRemove, Rmtree, Prune, Goto
<1>4. CASE WorktreeAdd(j)
  BY <1>4 DEF Others, WorktreeAdd, Raise, Goto
<1>5. CASE BuildBaseline(j)
  BY <1>5 DEF Others, BuildBaseline, Raise, Goto
<1>6. CASE BuildCandidate(j)
  BY <1>6 DEF Others, BuildCandidate, Raise, Goto
<1>7. CASE RunBaseline(j)
  BY <1>7 DEF Others, RunBaseline, Raise, Goto
<1>8. CASE RunCandidate(j)
  BY <1>8 DEF Others, RunCandidate, Raise, Goto
<1>9. CASE Finally(j)
  BY <1>9 DEF Others, Finally, AfterFinally, GitRemove, Rmtree, Prune, Goto
<1>10. CASE Compare(j)
  BY <1>10 DEF Others, Compare, Exit, Goto
<1>11. CASE Kill(j)
  BY <1>11 DEF Others, Kill, Exit, Goto
<1> QED
  BY <1>1, <1>2, <1>3, <1>4, <1>5, <1>6, <1>7, <1>8, <1>9, <1>10, <1>11 DEF CdStep

\* A job that is alone stays so until another one starts.
LEMMA SoloStep ==
    ASSUME Types, Solo, NEW j \in Jobs, Others(j)
    PROVE  Solo'
<1> SUFFICES ASSUME NEW i \in Jobs, alone'[i], Active(i)', NEW k \in Peers(i)
             PROVE  ~Active(k)'
  BY DEF Solo, Peers
<1>1. k \in Jobs /\ k # i /\ i \in Peers(k)
  BY DEF Peers
<1>2. CASE Active(j)
  BY <1>1, <1>2 DEF Solo, Others, Active
<1>3. CASE ~Active(j) /\ i = j
  BY <1>1, <1>3 DEF Others, Active
<1>4. CASE ~Active(j) /\ k = j
  BY <1>1, <1>4 DEF Others, Active
<1>5. CASE ~Active(j) /\ i # j /\ k # j
  BY <1>1, <1>5 DEF Solo, Others, Active
<1> QED
  BY <1>2, <1>3, <1>4, <1>5

\* Nobody disturbs the directory of a job that is alone.
LEMMA OthersKeepAsLeft ==
    ASSUME Types, Solo, NEW j \in Jobs, Others(j), NEW i \in Jobs \ {j}, AsLeft(i)
    PROVE  AsLeft(i)'
<1> SUFFICES ASSUME alone'[i], args'[i].commit,
                    at'[i] \in {"stalePrune", "add", "buildCand", "runBase"}
             PROVE  AsLeft(i)'
  BY DEF AsLeft
<1>1. alone[i] /\ args[i].commit /\ at[i] = at'[i] /\ Active(i)
  BY DEF Others, Active
<1>2. Peers(i)' = Peers(i) /\ Commit[i] \in Commits
  BY CommitOfJob DEF Peers
<1>3. \A k \in Peers(i) : code'[k] # Killed => code[k] # Killed
  BY DEF Others, Peers
<1>4. CASE j \notin Peers(i)
  BY <1>1, <1>2, <1>3, <1>4 DEF AsLeft, Others, Peers
<1>5. CASE j \in Peers(i)
  <2>1. ~Active(j)
    BY <1>1, <1>5 DEF Solo
  <2>2. dir' = dir /\ registered' = registered
    BY <2>1 DEF Others
  <2> QED
    BY <1>1, <1>2, <1>3, <2>2 DEF AsLeft
<1> QED
  BY <1>4, <1>5

\* Nor does the job itself: the cleanup before git worktree add is complete,
\* unless a killed job left a registration without a directory.
LEMMA OwnAsLeft ==
    ASSUME Types, Accounted, Solo, NEW j \in Jobs, Others(j), AsLeft(j), CdStep(j)
    PROVE  AsLeft(j)'
<1> USE CommitOfJob DEF Types, FlowType, DiskType, Measured
<1>1. CASE ParseArgs(j)
  BY <1>1 DEF AsLeft, ParseArgs, Others, Active
<1>2. CASE StaleCleanup(j)
  <2>1. Active(j) /\ alone' = alone /\ args' = args /\ code' = code
    BY <1>2 DEF StaleCleanup, Active, Others
  <2>2. CASE at[j] = "stale" /\ dir[Commit[j]] = "none" /\ Goto(j, "add") /\ UNCHANGED disk
    <3>1. ASSUME alone[j], \A k \in Peers(j) : code[k] # Killed
          PROVE  ~registered[Commit[j]]
      <4>1. \A k \in Peers(j) : ~Prunes(k)
        BY <2>1, <3>1 DEF Solo, Prunes, Active
      <4>2. ~Prunes(j)
        BY <2>2 DEF Prunes
      <4> QED
        BY <2>2, <4>1, <4>2 DEF Accounted, Peers
    <3> QED
      BY <2>1, <2>2, <3>1 DEF AsLeft, Goto, disk, Peers
  <2>3. CASE /\ dir' = [dir EXCEPT ![Commit[j]] = "none"]
             /\ registered' = [registered EXCEPT ![Commit[j]] = FALSE]
             /\ Goto(j, "add")
    BY <2>1, <2>3 DEF AsLeft, Goto
  <2>4. CASE Goto(j, "staleRm")
    BY <2>1, <2>4 DEF AsLeft, Goto
  <2>5. CASE Rmtree(j, "stalePrune")
    BY <2>1, <2>5 DEF AsLeft, Rmtree, Goto
  <2>6. CASE at[j] = "stalePrune" /\ Prune(j, "add")
    BY <2>1, <2>6 DEF AsLeft, Prune, Goto
  <2> QED
    BY <1>2, <2>2, <2>3, <2>4, <2>5, <2>6 DEF StaleCleanup, GitRemove
<1>3. CASE VerifyCommit(j)
  BY <1>3 DEF AsLeft, VerifyCommit, Raise, Goto, disk
<1>4. CASE BuildCandidate(j)
  BY <1>4 DEF AsLeft, BuildCandidate, Raise, Goto, disk
<1>5. CASE RunBaseline(j)
  BY <1>5 DEF AsLeft, RunBaseline, Raise, Goto, disk
<1>6. CASE RunCandidate(j)
  BY <1>6 DEF AsLeft, RunCandidate, Raise, Goto, disk
<1>7. CASE Finally(j)
  BY <1>7 DEF AsLeft, Finally, AfterFinally, GitRemove, Rmtree, Prune, Goto, disk
<1>8. CASE Compare(j)
  BY <1>8 DEF AsLeft, Compare, Exit, Goto, disk
<1>9. CASE Kill(j)
  BY <1>9 DEF AsLeft, Kill, Exit, Goto, disk
<1>10. CASE WorktreeAdd(j)
  BY <1>10 DEF AsLeft, WorktreeAdd, Raise, Goto, disk
<1>11. CASE BuildBaseline(j)
  BY <1>11 DEF AsLeft, BuildBaseline, Raise, Goto, disk
<1> QED
  BY <1>1, <1>2, <1>3, <1>4, <1>5, <1>6, <1>7, <1>8, <1>9, <1>10, <1>11 DEF CdStep

\* A job that has the directory to itself finds it free when it adds the worktree
\* and finds its binary there when it runs it, whatever was left before it, unless
\* a job was killed between rmtree and prune.
THEOREM Recovers == CdSpec => []CdRecovers
<1> DEFINE Inv == Types /\ Accounted /\ Solo /\ \A j \in Jobs : AsLeft(j)
<1>1. CdInit => Inv
  BY TypesInit, AccountedInit DEF CdInit, Solo, AsLeft, Active
<1>2. Inv /\ [CdNext]_cdVars => Inv'
  <2> SUFFICES ASSUME Inv, [CdNext]_cdVars
               PROVE  Inv'
    OBVIOUS
  <2>1. Types' /\ Accounted'
    BY TypesStep, AccountedStep
  <2>2. CASE UNCHANGED cdVars
    BY <2>1, <2>2 DEF Solo, AsLeft, Active, Peers, cdVars
  <2>3. ASSUME NEW j \in Jobs, CdStep(j)
        PROVE  Inv'
    <3>1. Others(j)
      BY <2>3, StepOthers
    <3>2. Solo'
      BY <3>1, SoloStep
    <3>3. AsLeft(j)'
      BY <2>3, <3>1, OwnAsLeft
    <3>4. \A i \in Jobs \ {j} : AsLeft(i)'
      BY <3>1, OthersKeepAsLeft
    <3> QED
      BY <2>1, <3>2, <3>3, <3>4
  <2> QED
    BY <2>2, <2>3 DEF CdNext, CdDone
<1>3. Inv => CdRecovers
  BY DEF CdRecovers, AsLeft
<1> QED
  BY <1>1, <1>2, <1>3, PTL DEF CdSpec

-----------------------------------------------------------------------------
(* The verdict.                                                            *)

\* One job's part of CdPassMeasured.
Passed(j) ==
    code[j] = 0 =>
        /\ sim[j].base \in Runs /\ sim[j].cand \in Runs
        /\ sim[j].cand.cycles * 100 <= (100 + MaxDelta) * sim[j].base.cycles
        /\ ~args[j].ignoreX10 => sim[j].base.x10 = 0 /\ sim[j].cand.x10 = 0

\* The comparison of the cycle difference with the budget, without the division.
LEMMA BudgetKept ==
    ASSUME NEW b \in Nat, NEW c \in Nat, ~((c - b) * 100 > MaxDelta * b)
    PROVE  c * 100 <= (100 + MaxDelta) * b
BY CycleDiffAssumption

\* Only the comparison ends in exit code 0, and a job that has ended keeps its
\* arguments and its measurements.
LEMMA PassedStep ==
    ASSUME Types, NEW j \in Jobs, CdStep(j), \A i \in Jobs : Passed(i)
    PROVE  \A i \in Jobs : Passed(i)'
<1> USE DEF Types, FlowType, SimType, Measured
<1>1. CASE Compare(j)
  <2>1. sim[j].base \in Runs /\ sim[j].cand \in Runs
    BY <1>1 DEF Compare
  <2>2. /\ sim[j].base.cycles \in Nat /\ sim[j].cand.cycles \in Nat
    BY <2>1, CycleDiffAssumption DEF Runs
  <2>3. UNCHANGED <<args, sim>> /\ code' = [code EXCEPT ![j] = Verdict(sim[j], args[j].ignoreX10)]
    BY <1>1 DEF Compare, Exit
  <2>4. Passed(j)'
    <3>1. ASSUME Verdict(sim[j], args[j].ignoreX10) = 0
          PROVE  /\ ~((sim[j].cand.cycles - sim[j].base.cycles) * 100 > MaxDelta * sim[j].base.cycles)
                 /\ ~args[j].ignoreX10 => sim[j].base.x10 = 0 /\ sim[j].cand.x10 = 0
      BY <3>1 DEF Verdict
    <3>2. ASSUME Verdict(sim[j], args[j].ignoreX10) = 0
          PROVE  sim[j].cand.cycles * 100 <= (100 + MaxDelta) * sim[j].base.cycles
      BY <2>2, <3>1, <3>2, BudgetKept
    <3> QED
      BY <2>1, <2>3, <3>1, <3>2 DEF Passed
  <2> QED
    BY <2>3, <2>4 DEF Passed
<1>2. CASE ParseArgs(j)
  <2>1. at[j] = "start" /\ code[j] = Running /\ UNCHANGED sim
    BY <1>2 DEF ParseArgs
  <2>2. (\E a \in Args : args' = [args EXCEPT ![j] = a]) /\ (Exit(j, 2) \/ UNCHANGED code)
    BY <1>2 DEF ParseArgs
  <2> QED
    BY <2>1, <2>2 DEF Passed, Exit, Running
<1>3. CASE VerifyCommit(j)
  BY <1>3 DEF Passed, VerifyCommit, Raise
<1>4. CASE StaleCleanup(j)
  BY <1>4 DEF Passed, StaleCleanup
<1>5. CASE WorktreeAdd(j)
  BY <1>5 DEF Passed, WorktreeAdd, Raise
<1>6. CASE BuildBaseline(j)
  BY <1>6 DEF Passed, BuildBaseline, Raise
<1>7. CASE BuildCandidate(j)
  BY <1>7 DEF Passed, BuildCandidate, Raise
<1>8. CASE RunBaseline(j)
  BY <1>8 DEF Passed, RunBaseline, Raise, Running
<1>9. CASE RunCandidate(j)
  BY <1>9 DEF Passed, RunCandidate, Raise, Running
<1>10. CASE Finally(j)
  BY <1>10 DEF Passed, Finally
<1>11. CASE Kill(j)
  BY <1>11 DEF Passed, Kill, Exit, Killed
<1> QED
  BY <1>1, <1>2, <1>3, <1>4, <1>5, <1>6, <1>7, <1>8, <1>9, <1>10, <1>11 DEF CdStep

\* Exit code 0 is a verdict on two completed simulations, for every budget.
THEOREM PassIsMeasured == CdSpec => []CdPassMeasured
<1> DEFINE Inv == Types /\ \A j \in Jobs : Passed(j)
<1>1. CdInit => Inv
  BY TypesInit DEF CdInit, Passed, Running
<1>2. Inv /\ [CdNext]_cdVars => Inv'
  <2> SUFFICES ASSUME Inv, [CdNext]_cdVars
               PROVE  Inv'
    OBVIOUS
  <2>1. CASE UNCHANGED cdVars
    BY <2>1, TypesStep DEF Passed, cdVars
  <2>2. ASSUME NEW j \in Jobs, CdStep(j)
        PROVE  Inv'
    BY <2>2, TypesStep, PassedStep
  <2> QED
    BY <2>1, <2>2 DEF CdNext, CdDone
<1>3. Inv => CdPassMeasured
  BY DEF CdPassMeasured, Passed
<1> QED
  BY <1>1, <1>2, <1>3, PTL DEF CdSpec


-----------------------------------------------------------------------------
(* The coverage gates, for every set of scenarios, bins and thresholds and *)
(* LCOV files of every length.                                             *)

\* What crv_cov_merge makes of the files on disk, and what run_functional counts.
AllCov == MergeFiles({cov[s] : s \in CovScenarios})
CountedBins == DOMAIN AllCov \ request.exclude
HitBins == {b \in CountedBins : AllCov[b] # 0}

CovTypes == /\ cov \in [CovScenarios -> CovFiles]
            /\ info \in Seq(InfoLines)
            /\ request \in Requests \cup {NoRequest}
            /\ infoPos \in 0..Len(info)
            /\ scan \in [skip : BOOLEAN, total : Nat, hit : Nat]

\* Before a make nothing has been read or written by it.
BeforeMake == request = NoRequest => /\ result = -1 /\ merged = NoFile /\ infoPos = 0
                                     /\ scan = [skip |-> FALSE, total |-> 0, hit |-> 0]

\* The merged file is the merge of the files as they stay, and an exit code of
\* the functional recipe is the gate's on it, or the merge's own failure.
MergeHolds ==
    /\ merged = NoFile \/ (merged = AllCov /\ pending = {})
    /\ (result # -1 /\ request.mode = "functional") =>
        \/ DOMAIN AllCov = {} /\ result = 1
        \/ result = GateExit(Cardinality(HitBins), Cardinality(CountedBins), request.threshold)

\* The requests, case by case.
LEMMA RequestModes ==
    ASSUME NEW r \in Requests
    PROVE  /\ r.mode \in {"functional", "line"}
           /\ r.threshold \in 0..100
           /\ r # NoRequest
           /\ r.mode = "functional" => r.exclude \subseteq Bins
<1>1. r.mode \in {"functional", "line"} /\ r.threshold \in Thresholds
  BY DEF Requests
<1>2. NoRequest.mode = "none"
  BY DEF NoRequest
<1>3. r.mode = "functional" => r.exclude \subseteq Bins
  BY DEF Requests
<1> QED
  BY <1>1, <1>2, <1>3, CoverageAssumption

\* The types hold initially and in every step.
LEMMA CovTypesInit == CovInit => CovTypes /\ BeforeMake
<1> SUFFICES ASSUME CovInit PROVE CovTypes /\ BeforeMake
  OBVIOUS
<1>1. cov \in [CovScenarios -> CovFiles]
  <2>1. NoFile \in [{} -> {0, 1}] /\ {} \in SUBSET Bins
    BY DEF NoFile
  <2> QED
    BY <2>1 DEF CovInit, CovFiles
<1>2. info \in Seq(InfoLines) /\ infoPos \in 0..Len(info) /\ request = NoRequest
  BY DEF CovInit
<1>3. scan \in [skip : BOOLEAN, total : Nat, hit : Nat]
  BY DEF CovInit
<1> QED
  BY <1>1, <1>2, <1>3 DEF CovInit, CovTypes, BeforeMake

\* An LCOV file is a sequence of lines.
LEMMA InfosAreSeqs == Infos \subseteq Seq(InfoLines)
BY CoverageAssumption DEF Infos

\* One line of an LCOV file keeps the flag a truth value and the counters numbers.
LEMMA InfoStepType ==
    ASSUME NEW s \in [skip : BOOLEAN, total : Nat, hit : Nat], NEW line \in InfoLines
    PROVE  InfoStep(s, line) \in [skip : BOOLEAN, total : Nat, hit : Nat]
<1>1. CASE line = "SF tb"
  BY <1>1 DEF InfoStep
<1>2. CASE line = "SF rtl"
  BY <1>2 DEF InfoStep
<1>3. CASE (line \in {"DA 0", "DA 1"} /\ s.skip) \/ line = "end_of_record"
  BY <1>3 DEF InfoStep
<1>4. CASE line = "DA 0" /\ ~s.skip
  <2>1. InfoStep(s, line) = [s EXCEPT !.total = @ + 1]
    BY <1>4 DEF InfoStep
  <2>2. InfoStep(s, line) = [skip |-> s.skip, total |-> s.total + 1, hit |-> s.hit]
    BY <2>1
  <2> QED
    BY <2>2
<1>5. CASE line = "DA 1" /\ ~s.skip
  <2>1. InfoStep(s, line) = [s EXCEPT !.total = @ + 1, !.hit = @ + 1]
    BY <1>5 DEF InfoStep
  <2>2. InfoStep(s, line) = [skip |-> s.skip, total |-> s.total + 1, hit |-> s.hit + 1]
    BY <2>1
  <2> QED
    BY <2>2
<1> QED
  BY <1>1, <1>2, <1>3, <1>4, <1>5 DEF InfoLines

\* Every step of the recipe keeps the types.
LEMMA CovTypesStep ==
    ASSUME CovTypes, BeforeMake, [CovNext]_covVars
    PROVE  CovTypes' /\ BeforeMake'
<1> USE DEF CovTypes, BeforeMake
<1>1. CASE Invoke
  <2>1. request' \in Requests /\ request' # NoRequest
    BY <1>1, RequestModes DEF Invoke
  <2>2. cov' \in [CovScenarios -> CovFiles] /\ info' \in Seq(InfoLines)
    BY <1>1, InfosAreSeqs DEF Invoke
  <2>3. infoPos' = 0 /\ scan' = scan
    BY <1>1 DEF Invoke
  <2> QED
    BY <2>1, <2>2, <2>3
<1>2. CASE RunTestbench
  <2>1. cov' \in [CovScenarios -> CovFiles]
    BY <1>2 DEF RunTestbench
  <2>2. request.mode = "functional" => request # NoRequest
    BY DEF NoRequest
  <2> QED
    BY <1>2, <2>1, <2>2 DEF RunTestbench
<1>3. CASE ReadInfoLine
  <2>1. info[infoPos + 1] \in InfoLines
    BY <1>3 DEF ReadInfoLine
  <2>2. scan' \in [skip : BOOLEAN, total : Nat, hit : Nat]
    BY <1>3, <2>1, InfoStepType DEF ReadInfoLine
  <2>3. request # NoRequest
    BY <1>3 DEF ReadInfoLine, NoRequest
  <2> QED
    BY <1>3, <2>2, <2>3 DEF ReadInfoLine
<1>4. CASE Merge
  BY <1>4 DEF Merge, NoRequest
<1>5. CASE RunFunctional
  BY <1>5 DEF RunFunctional, NoRequest
<1>6. CASE RunLine
  BY <1>6 DEF RunLine, NoRequest
<1>7. CASE CovDone
  BY <1>7 DEF CovDone, covVars
<1>8. CASE UNCHANGED covVars
  BY <1>8 DEF covVars
<1> QED
  BY <1>1, <1>2, <1>3, <1>4, <1>5, <1>6, <1>7, <1>8 DEF CovNext

\* A coverage file written after the merge would be missed: none is.
LEMMA MergeHoldsStep ==
    ASSUME CovTypes, BeforeMake, MergeHolds, [CovNext]_covVars
    PROVE  MergeHolds'
<1>1. CASE Invoke
  BY <1>1 DEF Invoke, BeforeMake, MergeHolds
<1>2. CASE RunTestbench
  <2>1. pending # {} /\ result = -1 /\ result' = result /\ merged' = merged
    BY <1>2 DEF RunTestbench
  <2> QED
    BY <2>1 DEF MergeHolds
<1>3. CASE Merge
  <2>1. AllCov' = AllCov /\ CountedBins' = CountedBins /\ HitBins' = HitBins
    BY <1>3 DEF Merge, AllCov, CountedBins, HitBins
  <2>2. result = -1 /\ pending = {} /\ pending' = pending /\ merged = NoFile
    BY <1>3 DEF Merge
  <2>3. CASE DOMAIN AllCov = {}
    <3>1. result' = 1 /\ merged' = merged
      BY <1>3, <2>3 DEF Merge, AllCov
    <3> QED
      BY <2>1, <2>2, <2>3, <3>1 DEF MergeHolds
  <2>4. CASE DOMAIN AllCov # {}
    <3>1. merged' = AllCov /\ result' = result
      BY <1>3, <2>4 DEF Merge, AllCov
    <3> QED
      BY <2>1, <2>2, <3>1 DEF MergeHolds
  <2> QED
    BY <2>3, <2>4
<1>4. CASE RunFunctional
  <2>1. AllCov' = AllCov /\ CountedBins' = CountedBins /\ HitBins' = HitBins
    BY <1>4 DEF RunFunctional, AllCov, CountedBins, HitBins
  <2>2. merged = AllCov /\ pending = {} /\ UNCHANGED <<merged, pending, request>>
    BY <1>4 DEF RunFunctional, MergeHolds
  <2>3. result' = GateExit(Cardinality(HitBins), Cardinality(CountedBins), request.threshold)
    BY <1>4, <2>2 DEF RunFunctional, CountedBins, HitBins
  <2> QED
    BY <2>1, <2>2, <2>3 DEF MergeHolds
<1>5. CASE ReadInfoLine \/ RunLine
  <2>1. AllCov' = AllCov /\ UNCHANGED <<merged, pending, request>>
    BY <1>5 DEF ReadInfoLine, RunLine, AllCov
  <2>2. request.mode # "functional"
    BY <1>5 DEF ReadInfoLine, RunLine
  <2> QED
    BY <2>1, <2>2 DEF MergeHolds
<1>6. CASE CovDone \/ UNCHANGED covVars
  <2>1. AllCov' = AllCov /\ CountedBins' = CountedBins /\ HitBins' = HitBins
    BY <1>6 DEF CovDone, covVars, AllCov, CountedBins, HitBins
  <2> QED
    BY <1>6, <2>1 DEF CovDone, covVars, MergeHolds
<1> QED
  BY <1>1, <1>2, <1>3, <1>4, <1>5, <1>6 DEF CovNext

\* A finite set and a part of it: the part reaches 100 % exactly when it is all.
LEMMA AllOfThem ==
    ASSUME NEW S, IsFiniteSet(S), NEW T \in SUBSET S
    PROVE  GateExit(Cardinality(T), Cardinality(S), 100) = 0 <=> S # {} /\ T = S
<1>1. /\ Cardinality(S) \in Nat /\ Cardinality(T) \in Nat
      /\ Cardinality(T) <= Cardinality(S)
      /\ Cardinality(S) = Cardinality(T) => S = T
      /\ Cardinality(S) = 0 <=> S = {}
  BY FS_Subset, FS_CardinalityType, FS_EmptySet
<1> QED
  BY <1>1 DEF GateExit

\* What the merge means, bin by bin.
LEMMA MergedBins ==
    ASSUME CovTypes
    PROVE  /\ DOMAIN AllCov = {b \in Bins : \E s \in CovScenarios : b \in DOMAIN cov[s]}
           /\ \A b \in DOMAIN AllCov :
                AllCov[b] # 0 <=> \E s \in CovScenarios : b \in DOMAIN cov[s] /\ cov[s][b] = 1
<1> DEFINE files == {cov[s] : s \in CovScenarios}
<1>1. DOMAIN AllCov = UNION {DOMAIN f : f \in files}
  BY DEF AllCov, MergeFiles
<1>2. \A b \in DOMAIN AllCov :
        AllCov[b] = IF \E f \in files : b \in DOMAIN f /\ f[b] = 1 THEN 1 ELSE 0
  BY DEF AllCov, MergeFiles
<1>3. \A s \in CovScenarios : DOMAIN cov[s] \subseteq Bins
  BY DEF CovTypes, CovFiles
<1> QED
  BY <1>1, <1>2, <1>3

\* At a threshold of 100 the gate's exit code says what CovGateExact says.
LEMMA GateMeansExact == CovTypes /\ MergeHolds => CovGateExact
<1> SUFFICES ASSUME CovTypes, MergeHolds, request.mode = "functional",
                    request.threshold = 100, result # -1
             PROVE  CovGateExact
  BY DEF CovGateExact
<1> DEFINE listed == {b \in Bins \ request.exclude :
                        \E s \in CovScenarios : b \in DOMAIN cov[s]}
           hit(b) == \E s \in CovScenarios : b \in DOMAIN cov[s] /\ cov[s][b] = 1
<1>1. listed = CountedBins
  BY MergedBins DEF CountedBins
<1>2. IsFiniteSet(CountedBins) /\ HitBins \in SUBSET CountedBins
  <2>1. CountedBins \in SUBSET Bins
    BY <1>1
  <2> QED
    BY <2>1, CoverageAssumption, FS_Subset DEF HitBins
<1>3. HitBins = CountedBins <=> \A b \in listed : hit(b)
  BY <1>1, MergedBins DEF HitBins, CountedBins
<1>4. result = 0 <=> listed # {} /\ \A b \in listed : hit(b)
  <2>1. CASE DOMAIN AllCov = {} /\ result = 1
    BY <1>1, <2>1 DEF CountedBins
  <2>2. CASE result = GateExit(Cardinality(HitBins), Cardinality(CountedBins), 100)
    BY <1>1, <1>2, <1>3, <2>2, AllOfThem
  <2> QED
    BY <2>1, <2>2 DEF MergeHolds
<1> QED
  BY <1>4 DEF CovGateExact

\* The functional gate is exact: at 100 % it passes exactly when every bin that is
\* not excluded and that some file on disk lists was hit in some file, whatever
\* earlier makes left and whichever scenarios of this one failed.
THEOREM FunctionalGateExact == CovSpec => []CovGateExact
<1>1. CovInit => CovTypes /\ BeforeMake /\ MergeHolds
  BY CovTypesInit DEF CovInit, MergeHolds
<1>2. CovTypes /\ BeforeMake /\ MergeHolds /\ [CovNext]_covVars
        => CovTypes' /\ BeforeMake' /\ MergeHolds'
  BY CovTypesStep, MergeHoldsStep
<1> QED
  BY <1>1, <1>2, GateMeansExact, PTL DEF CovSpec

\* Counting one more element of an interval.
LEMMA CountNext ==
    ASSUME NEW S, NEW a \in Int, NEW n \in Int, a <= n + 1
    PROVE  /\ Cardinality(S \cap (a..n)) \in Nat
           /\ Cardinality(S \cap (a..(n + 1)))
                = Cardinality(S \cap (a..n)) + (IF n + 1 \in S THEN 1 ELSE 0)
<1>1. IsFiniteSet(S \cap (a..n))
  <2>1. S \cap (a..n) \in SUBSET (a..n)
    OBVIOUS
  <2> QED
    BY <2>1, FS_Interval, FS_Subset
<1>0. Cardinality(S \cap (a..n)) \in Nat
  BY <1>1, FS_CardinalityType
<1>2. CASE n + 1 \in S
  <2>1. S \cap (a..(n + 1)) = (S \cap (a..n)) \cup {n + 1}
    BY <1>2
  <2>2. n + 1 \notin S \cap (a..n)
    OBVIOUS
  <2>3. Cardinality((S \cap (a..n)) \cup {n + 1}) = Cardinality(S \cap (a..n)) + 1
    BY <1>1, <2>2, FS_AddElement
  <2> QED
    BY <1>2, <1>0, <2>1, <2>3
<1>3. CASE n + 1 \notin S
  <2>1. S \cap (a..(n + 1)) = S \cap (a..n)
    BY <1>3
  <2> QED
    BY <1>0, <1>3, <2>1
<1> QED
  BY <1>2, <1>3

\* The lines run_line counts and the ones it counts as hit.
CountedLines == {i \in DOMAIN info : Counted(i)}
HitLines == {i \in CountedLines : info[i] = "DA 1"}

\* After infoPos lines the flag and both counters are what the text above says,
\* and an exit code is the comparison of the counters of the whole file.
ScanHolds ==
    /\ scan.skip <=> \E h \in 1..infoPos :
                        /\ info[h] = "SF tb"
                        /\ \A g \in (h + 1)..infoPos : info[g] # "SF rtl"
    /\ scan.total = Cardinality(CountedLines \cap (1..infoPos))
    /\ scan.hit = Cardinality(HitLines \cap (1..infoPos))
    /\ (result # -1 /\ request.mode = "line" /\ ~request.positional)
         => infoPos = Len(info) /\ result = GateExit(scan.hit, scan.total, request.threshold)

\* With nothing read it is the state run_line starts in.
LEMMA ScanStart ==
    ASSUME infoPos = 0, scan = [skip |-> FALSE, total |-> 0, hit |-> 0], result = -1
    PROVE  ScanHolds
<1>1. CountedLines \cap (1..0) = {} /\ HitLines \cap (1..0) = {}
  OBVIOUS
<1> QED
  BY <1>1, FS_EmptySet DEF ScanHolds

\* One turn of the loop.
LEMMA ScanTurn ==
    ASSUME CovTypes, ScanHolds, ReadInfoLine
    PROVE  ScanHolds'
<1> DEFINE n == infoPos
           line == info[n + 1]
<1>1. /\ n \in Nat /\ n < Len(info) /\ info \in Seq(InfoLines) /\ line \in InfoLines
      /\ infoPos' = n + 1 /\ info' = info /\ scan' = InfoStep(scan, line)
      /\ n + 1 \in DOMAIN info
      /\ result' = -1
      /\ scan \in [skip : BOOLEAN, total : Nat, hit : Nat]
  BY DEF CovTypes, ReadInfoLine
<1>2. CountedLines' = CountedLines /\ HitLines' = HitLines
  BY <1>1 DEF CountedLines, HitLines, Counted
<1>3. scan.skip <=> \E h \in 1..n : /\ info[h] = "SF tb"
                                    /\ \A g \in (h + 1)..n : info[g] # "SF rtl"
  BY DEF ScanHolds
<1>4. n + 1 \in CountedLines <=> line \in {"DA 0", "DA 1"} /\ ~scan.skip
  <2>1. (n + 1) - 1 = n
    BY <1>1
  <2>2. Counted(n + 1) <=> line \in {"DA 0", "DA 1"} /\ ~scan.skip
    BY <1>3, <2>1 DEF Counted
  <2> QED
    BY <1>1, <2>2 DEF CountedLines
<1>5. n + 1 \in HitLines <=> line = "DA 1" /\ ~scan.skip
  BY <1>4 DEF HitLines
<1> HIDE DEF n, line
<1>6. /\ Cardinality(CountedLines \cap (1..(n + 1)))
           = scan.total + (IF n + 1 \in CountedLines THEN 1 ELSE 0)
      /\ Cardinality(HitLines \cap (1..(n + 1)))
           = scan.hit + (IF n + 1 \in HitLines THEN 1 ELSE 0)
  <2>1. 1 \in Int /\ n \in Int /\ 1 <= n + 1
    BY <1>1
  <2>2. /\ scan.total = Cardinality(CountedLines \cap (1..n))
        /\ scan.hit = Cardinality(HitLines \cap (1..n))
    BY DEF ScanHolds, n
  <2> QED
    BY <2>1, <2>2, CountNext
<1>7. /\ scan'.total = scan.total + (IF n + 1 \in CountedLines THEN 1 ELSE 0)
      /\ scan'.hit = scan.hit + (IF n + 1 \in HitLines THEN 1 ELSE 0)
  <2>1. CASE n + 1 \notin CountedLines
    <3>1. scan' = scan \/ scan' = [scan EXCEPT !.skip = TRUE]
             \/ scan' = [scan EXCEPT !.skip = FALSE]
      BY <1>1, <1>4, <2>1 DEF InfoStep
    <3>2. n + 1 \notin HitLines
      BY <2>1 DEF HitLines
    <3> QED
      BY <1>1, <2>1, <3>1, <3>2
  <2>2. CASE n + 1 \in CountedLines /\ n + 1 \notin HitLines
    <3>1. line = "DA 0" /\ ~scan.skip
      BY <1>4, <1>5, <2>2
    <3>2. scan' = [scan EXCEPT !.total = @ + 1]
      BY <1>1, <3>1 DEF InfoStep
    <3>3. scan' = [skip |-> scan.skip, total |-> scan.total + 1, hit |-> scan.hit]
      BY <1>1, <3>2
    <3> QED
      BY <1>1, <2>2, <3>3
  <2>3. CASE n + 1 \in HitLines
    <3>1. line = "DA 1" /\ ~scan.skip /\ n + 1 \in CountedLines
      BY <1>4, <1>5, <2>3
    <3>2. scan' = [scan EXCEPT !.total = @ + 1, !.hit = @ + 1]
      BY <1>1, <3>1 DEF InfoStep
    <3>3. scan' = [skip |-> scan.skip, total |-> scan.total + 1, hit |-> scan.hit + 1]
      BY <1>1, <3>2
    <3> QED
      BY <2>3, <3>1, <3>3
  <2> QED
    BY <2>1, <2>2, <2>3
<1>8. scan'.skip <=> \E h \in 1..(n + 1) : /\ info[h] = "SF tb"
                                           /\ \A g \in (h + 1)..(n + 1) : info[g] # "SF rtl"
  <2>1. CASE line = "SF tb"
    <3>1. scan'.skip = TRUE
      BY <1>1, <2>1 DEF InfoStep
    <3>2. n + 1 \in 1..(n + 1) /\ (n + 1 + 1)..(n + 1) = {}
      BY <1>1
    <3> QED
      BY <2>1, <3>1, <3>2 DEF line
  <2>2. CASE line = "SF rtl"
    <3>1. scan'.skip = FALSE
      BY <1>1, <2>2 DEF InfoStep
    <3>2. \A h \in 1..(n + 1) : info[h] = "SF tb" => n + 1 \in (h + 1)..(n + 1)
      <4>1. info[n + 1] # "SF tb"
        BY <2>2 DEF line
      <4>2. \A h \in 1..(n + 1) : h # n + 1 => n + 1 \in (h + 1)..(n + 1)
        BY <1>1
      <4> QED
        BY <4>1, <4>2
    <3> QED
      BY <2>2, <3>1, <3>2 DEF line
  <2>3. CASE line \notin {"SF tb", "SF rtl"}
    <3>1. scan'.skip = scan.skip
      BY <1>1, <2>3 DEF InfoStep, InfoLines
    <3>2. \A h \in 1..(n + 1) : info[h] = "SF tb" => h \in 1..n
      <4>1. info[n + 1] # "SF tb"
        BY <2>3 DEF line
      <4>2. \A h \in 1..(n + 1) : h # n + 1 => h \in 1..n
        BY <1>1
      <4> QED
        BY <4>1, <4>2
    <3>3. \A h \in 1..n : \A g \in (h + 1)..(n + 1) : info[g] = "SF rtl" => g \in (h + 1)..n
      <4>1. info[n + 1] # "SF rtl"
        BY <2>3 DEF line
      <4>2. \A h \in 1..n : \A g \in (h + 1)..(n + 1) : g # n + 1 => g \in (h + 1)..n
        BY <1>1
      <4> QED
        BY <4>1, <4>2
    <3>4. \A h \in 1..n : h \in 1..(n + 1) /\ (h + 1)..n \subseteq (h + 1)..(n + 1)
      BY <1>1
    <3> QED
      BY <1>3, <3>1, <3>2, <3>3, <3>4
  <2> QED
    BY <2>1, <2>2, <2>3
<1> QED
  BY <1>1, <1>2, <1>6, <1>7, <1>8 DEF ScanHolds

\* Every step keeps it.
LEMMA ScanHoldsStep ==
    ASSUME CovTypes, BeforeMake, ScanHolds, [CovNext]_covVars
    PROVE  ScanHolds'
<1>1. CASE Invoke
  <2>1. infoPos' = 0 /\ scan' = [skip |-> FALSE, total |-> 0, hit |-> 0] /\ result' = -1
    BY <1>1 DEF Invoke, BeforeMake
  <2>2. CountedLines' \cap (1..0) = {} /\ HitLines' \cap (1..0) = {}
    OBVIOUS
  <2>3. scan'.skip = FALSE /\ scan'.total = 0 /\ scan'.hit = 0
    BY <2>1
  <2>4. (1..infoPos)' = 1..0 /\ 1..0 = {}
    BY <2>1
  <2> QED
    BY <2>1, <2>2, <2>3, <2>4, FS_EmptySet DEF ScanHolds
<1>2. CASE ReadInfoLine
  BY <1>2, ScanTurn
<1>3. CASE RunTestbench \/ Merge \/ RunFunctional
  <2>1. /\ UNCHANGED <<info, infoPos, scan, request>> /\ request.mode = "functional"
    BY <1>3 DEF RunTestbench, Merge, RunFunctional
  <2>2. CountedLines' = CountedLines /\ HitLines' = HitLines
    BY <2>1 DEF CountedLines, HitLines, Counted
  <2> QED
    BY <2>1, <2>2 DEF ScanHolds
<1>4. CASE RunLine
  <2>1. UNCHANGED <<info, infoPos, scan, request>>
    BY <1>4 DEF RunLine
  <2>2. CountedLines' = CountedLines /\ HitLines' = HitLines
    BY <2>1 DEF CountedLines, HitLines, Counted
  <2>3. ~request.positional =>
           infoPos = Len(info) /\ result' = GateExit(scan.hit, scan.total, request.threshold)
    BY <1>4 DEF RunLine
  <2> QED
    BY <2>1, <2>2, <2>3 DEF ScanHolds
<1>5. CASE CovDone \/ UNCHANGED covVars
  <2>1. UNCHANGED covVars
    BY <1>5 DEF CovDone
  <2>2. CountedLines' = CountedLines /\ HitLines' = HitLines
    BY <2>1 DEF covVars, CountedLines, HitLines, Counted
  <2> QED
    BY <2>1, <2>2 DEF covVars, ScanHolds
<1> QED
  BY <1>1, <1>2, <1>3, <1>4, <1>5 DEF CovNext

\* At the end of the file the counters are those of the property.
LEMMA ScanMeansExact == CovTypes /\ ScanHolds => CovLineGateExact
<1> SUFFICES ASSUME CovTypes, ScanHolds, request.mode = "line",
                    ~request.positional, result # -1
             PROVE  result = 0 <=> Reaches(request.threshold)
  BY DEF CovLineGateExact
<1>1. infoPos = Len(info) /\ result = GateExit(scan.hit, scan.total, request.threshold)
  BY DEF ScanHolds
<1>2. CountedLines \in SUBSET (1..infoPos) /\ HitLines \in SUBSET CountedLines
  <2>1. DOMAIN info = 1..infoPos
    BY <1>1 DEF CovTypes
  <2> QED
    BY <2>1 DEF CountedLines, HitLines
<1>3. scan.total = Cardinality(CountedLines) /\ scan.hit = Cardinality(HitLines)
  <2>1. CountedLines \cap (1..infoPos) = CountedLines /\ HitLines \cap (1..infoPos) = HitLines
    BY <1>2
  <2> QED
    BY <2>1 DEF ScanHolds
<1>4. IsFiniteSet(CountedLines)
  <2>1. IsFiniteSet(1..infoPos)
    BY FS_Interval DEF CovTypes
  <2> QED
    BY <1>2, <2>1, FS_Subset
<1>5. scan.total = 0 <=> CountedLines = {}
  BY <1>3, <1>4, FS_EmptySet
<1>6. Reaches(request.threshold)
        <=> CountedLines # {} /\ 100 * scan.hit >= request.threshold * scan.total
  BY <1>3 DEF Reaches, CountedLines, HitLines
<1> QED
  BY <1>1, <1>5, <1>6 DEF GateExit

\* The line gate is exact for LCOV files of every length and every threshold: it
\* counts the lines whose nearest file header above is not a testbench's and
\* passes exactly when enough of them are hit.
THEOREM LineGateExact == CovSpec => []CovLineGateExact
<1>1. CovInit => CovTypes /\ BeforeMake /\ ScanHolds
  BY CovTypesInit, ScanStart DEF CovInit
<1>2. CovTypes /\ BeforeMake /\ ScanHolds /\ [CovNext]_covVars
        => CovTypes' /\ BeforeMake' /\ ScanHolds'
  BY CovTypesStep, ScanHoldsStep
<1> QED
  BY <1>1, <1>2, ScanMeansExact, PTL DEF CovSpec

-----------------------------------------------------------------------------
(* The rule scanner, for files of every length.                            *)

\* The lines that open and that close a block, and the blocks still open.
OpenLines == {i \in DOMAIN file : file[i] \in Opens}
CloseLines == {i \in DOMAIN file : file[i] \in Closes}
OpenBlocks == {i \in OpenLines : OpenAt(i, Len(file))}

\* Blocks opened and not closed after line i.
Deep(i) == Cardinality(OpenLines \cap ((i + 1)..Len(file)))
             - Cardinality(CloseLines \cap ((i + 1)..Len(file)))

\* The blocks in the order of their depth are the stack, from its top, and carry
\* its labels.
Ranked == /\ Len(stack) = Cardinality(OpenBlocks)
          /\ \A i \in OpenBlocks : Deep(i) \in 0..(Len(stack) - 1)
          /\ \A i, j \in OpenBlocks : Deep(i) = Deep(j) => i = j
          /\ \A d \in 0..(Len(stack) - 1) : \E i \in OpenBlocks : Deep(i) = d
StackHolds ==
    /\ Ranked
    /\ LabelsKept => \A i \in OpenBlocks : stack[Len(stack) - Deep(i)] = (file[i] \in OpensNamed)

\* A region counter that goes back to zero at a stray close: it bounds how many
\* more opening lines (A) than closing ones (B) any suffix of the text has, and
\* each of its values is reached by a region that is still open.
Net(A, B, i, k) == Cardinality(A \cap (i..k)) - Cardinality(B \cap (i..k))
Region(A, B, n, d) ==
    /\ \A i \in 1..n : Net(A, B, i, n) <= d
    /\ \A j \in 1..d : \E i \in 1..n : /\ Net(A, B, i, n) = j
                                       /\ \A k \in i..n : Net(A, B, i, k) >= 1

LinesOf(k) == {i \in DOMAIN file : file[i] = k}
RegionsHold == /\ Region(LinesOf("function"), LinesOf("endfunction"), Len(file), depth.function)
               /\ Region(LinesOf("generate"), LinesOf("endgenerate"), Len(file), depth.generate)

RrTypes == /\ file \in Seq(Kinds) /\ stack \in Seq(BOOLEAN) /\ seen \in BOOLEAN
           /\ depth \in [function : Nat, generate : Nat]
           /\ flagged \in [r1 : SUBSET (1..Len(file)), r2 : SUBSET (1..Len(file))]
SeenHolds == seen <=> \E i \in DOMAIN file : file[i] = "always begin"

\* Reading a line appends it and leaves the text above as it was.
LEMMA FileGrows ==
    ASSUME file \in Seq(Kinds), NEW k \in Kinds, file' = Append(file, k)
    PROVE  /\ Len(file) \in Nat /\ Len(file') = Len(file) + 1 /\ file' \in Seq(Kinds)
           /\ DOMAIN file = 1..Len(file) /\ DOMAIN file' = 1..(Len(file) + 1)
           /\ \A i \in 1..Len(file) : file'[i] = file[i]
           /\ file'[Len(file) + 1] = k
OBVIOUS

\* So what is said of blocks and regions up to an earlier line stays said.
LEMMA OpenAtKept ==
    ASSUME file \in Seq(Kinds), NEW k \in Kinds, file' = Append(file, k),
           NEW i \in Nat, NEW m \in Int, m <= Len(file)
    PROVE  OpenAt(i, m)' <=> OpenAt(i, m)
<1>1. \A c \in (i + 1)..m : file'[c] = file[c]
  BY FileGrows
<1>2. ASSUME NEW j \in (i + 1)..m
      PROVE  /\ {c \in (i + 1)..j : file'[c] \in Closes} = {c \in (i + 1)..j : file[c] \in Closes}
             /\ {b \in (i + 1)..(j - 1) : file'[b] \in Opens}
                  = {b \in (i + 1)..(j - 1) : file[b] \in Opens}
  <2>1. (i + 1)..j \subseteq (i + 1)..m /\ (i + 1)..(j - 1) \subseteq (i + 1)..m
    OBVIOUS
  <2> QED
    BY <1>1, <2>1
<1> QED
  BY <1>2 DEF OpenAt

\* Whether a line is inside a region does not depend on the lines behind it.
LEMMA InsideKept ==
    ASSUME file \in Seq(Kinds), NEW k \in Kinds, file' = Append(file, k),
           NEW open, NEW close, NEW m \in 0..Len(file)
    PROVE  Inside(open, close, m)' <=> Inside(open, close, m)
<1>1. \A c \in 1..m : file'[c] = file[c]
  BY FileGrows
<1>2. ASSUME NEW i \in 1..m, NEW j \in i..m
      PROVE  /\ {b \in i..j : file'[b] = open} = {b \in i..j : file[b] = open}
             /\ {c \in i..j : file'[c] = close} = {c \in i..j : file[c] = close}
  <2>1. i..j \subseteq 1..m
    BY FileGrows
  <2> QED
    BY <1>1, <2>1
<1> QED
  BY <1>2 DEF Inside

\* A text whose labels are kept has them kept in each of its beginnings.
LEMMA LabelsWereKept ==
    ASSUME file \in Seq(Kinds), NEW k \in Kinds, file' = Append(file, k), LabelsKept'
    PROVE  LabelsKept
<1> SUFFICES ASSUME NEW i \in DOMAIN file, NEW j \in DOMAIN file, i < j,
                    file[i] \in Opens, file[j] \in Opens, ClosedBy(i, j)
             PROVE  file[i] \in OpensNamed <=> file[j] \in OpensNamed
  BY DEF LabelsKept
<1>1. /\ i \in DOMAIN file' /\ j \in DOMAIN file' /\ i \in Nat
      /\ j \in Int /\ j <= Len(file) /\ j - 1 \in Int /\ j - 1 <= Len(file)
      /\ file'[i] = file[i] /\ file'[j] = file[j]
  BY FileGrows
<1>2. ClosedBy(i, j)'
  BY <1>1, OpenAtKept DEF ClosedBy
<1> QED
  BY <1>1, <1>2 DEF LabelsKept

\* A region counter goes up at an opening line, down to no less than zero at a
\* closing one, and stays exact.
LEMMA RegionStep ==
    ASSUME NEW n \in Nat, NEW A, NEW B, NEW A1, NEW B1,
           A1 \cap (1..n) = A, B1 \cap (1..n) = B, ~(n + 1 \in A1 /\ n + 1 \in B1),
           NEW d \in Nat, NEW e \in Nat,
           e = IF n + 1 \in A1 THEN d + 1 ELSE IF n + 1 \in B1 THEN Down(d) ELSE d,
           Region(A, B, n, d)
    PROVE  Region(A1, B1, n + 1, e)
<1> DEFINE up == IF n + 1 \in A1 THEN 1 ELSE 0
           dn == IF n + 1 \in B1 THEN 1 ELSE 0
<1>1. \A i \in 1..(n + 1) : /\ Net(A, B, i, n) \in Int
                            /\ Net(A1, B1, i, n + 1) = (Net(A, B, i, n) + up) - dn
  <2> SUFFICES ASSUME NEW i \in 1..(n + 1)
               PROVE  /\ Net(A, B, i, n) \in Int
                      /\ Net(A1, B1, i, n + 1) = (Net(A, B, i, n) + up) - dn
    OBVIOUS
  <2>0. /\ i \in Int /\ n \in Int /\ i <= n + 1
        /\ A1 \cap (i..n) = A \cap (i..n) /\ B1 \cap (i..n) = B \cap (i..n)
    OBVIOUS
  <2>1. /\ Cardinality(A \cap (i..n)) \in Nat
        /\ Cardinality(A1 \cap (i..(n + 1))) = Cardinality(A \cap (i..n)) + up
    BY <2>0, CountNext
  <2>2. /\ Cardinality(B \cap (i..n)) \in Nat
        /\ Cardinality(B1 \cap (i..(n + 1))) = Cardinality(B \cap (i..n)) + dn
    BY <2>0, CountNext
  <2> QED
    BY <2>1, <2>2 DEF Net
<1>2. \A i \in 1..n : \A k \in i..n : Net(A1, B1, i, k) = Net(A, B, i, k)
  <2> SUFFICES ASSUME NEW i \in 1..n, NEW k \in i..n
               PROVE  Net(A1, B1, i, k) = Net(A, B, i, k)
    OBVIOUS
  <2>1. A1 \cap (i..k) = A \cap (i..k) /\ B1 \cap (i..k) = B \cap (i..k)
    OBVIOUS
  <2> QED
    BY <2>1 DEF Net
<1>3. Net(A, B, n + 1, n) = 0
  <2>1. A \cap ((n + 1)..n) = {} /\ B \cap ((n + 1)..n) = {}
    OBVIOUS
  <2>2. /\ Cardinality(A \cap ((n + 1)..n)) = 0
        /\ Cardinality(B \cap ((n + 1)..n)) = 0
    BY <2>1, FS_EmptySet, Zenon
  <2> QED
    BY <2>2 DEF Net
<1>4. (up = 1 \/ up = 0) /\ (dn = 1 \/ dn = 0) /\ ~(up = 1 /\ dn = 1)
      /\ e = IF up = 1 THEN d + 1 ELSE IF dn = 1 THEN Down(d) ELSE d
  OBVIOUS
<1> HIDE DEF up, dn
<1>5. \A i \in 1..(n + 1) : Net(A1, B1, i, n + 1) <= e
  <2> SUFFICES ASSUME NEW i \in 1..(n + 1)
               PROVE  Net(A1, B1, i, n + 1) <= e
    OBVIOUS
  <2>1. Net(A, B, i, n) \in Int /\ Net(A, B, i, n) <= d
    <3>1. CASE i = n + 1
      BY <1>3, <3>1
    <3>2. CASE i \in 1..n
      BY <1>1, <3>2 DEF Region
    <3> QED
      BY <3>1, <3>2
  <2> QED
    BY <1>1, <1>4, <2>1 DEF Down
<1>6. ASSUME NEW j \in 1..e
      PROVE  \E i \in 1..(n + 1) : /\ Net(A1, B1, i, n + 1) = j
                                   /\ \A k \in i..(n + 1) : Net(A1, B1, i, k) >= 1
  <2>1. CASE up = 1 /\ j = 1
    <3>1. Net(A1, B1, n + 1, n + 1) = 1
      <4>1. n + 1 \in 1..(n + 1)
        OBVIOUS
      <4> QED
        BY <1>1, <1>3, <1>4, <2>1, <4>1
    <3>2. \A k \in (n + 1)..(n + 1) : k = n + 1
      OBVIOUS
    <3> QED
      BY <2>1, <3>1, <3>2
  <2>2. CASE ~(up = 1 /\ j = 1)
    <3> DEFINE old == (j - up) + dn
    <3>1. old \in 1..d
      BY <1>4, <2>2 DEF Down
    <3>2. PICK i \in 1..n : Net(A, B, i, n) = old /\ \A k \in i..n : Net(A, B, i, k) >= 1
      BY <3>1 DEF Region
    <3>3. i \in 1..(n + 1) /\ Net(A1, B1, i, n + 1) = j
      BY <1>1, <1>4, <3>2
    <3>4. \A k \in i..(n + 1) : k \in i..n \/ k = n + 1
      OBVIOUS
    <3>5. \A k \in i..n : Net(A1, B1, i, k) >= 1
      BY <1>2, <3>2
    <3>6. j >= 1
      OBVIOUS
    <3> QED
      BY <3>3, <3>4, <3>5, <3>6
  <2> QED
    BY <2>1, <2>2
<1> QED
  BY <1>5, <1>6 DEF Region

\* The counter is positive exactly inside a region.
LEMMA RegionMeansInside ==
    ASSUME file \in Seq(Kinds), NEW open, NEW close, NEW d \in Nat,
           Region(LinesOf(open), LinesOf(close), Len(file), d)
    PROVE  Inside(open, close, Len(file)) <=> d # 0
<1> DEFINE n == Len(file)
           A == LinesOf(open)
           B == LinesOf(close)
<1>1. \A i \in 1..n : \A k \in i..n :
        /\ {b \in i..k : file[b] = open} = A \cap (i..k)
        /\ {c \in i..k : file[c] = close} = B \cap (i..k)
  BY DEF LinesOf
<1>2. \A i \in 1..n : \A k \in i..n :
        /\ Cardinality(A \cap (i..k)) \in Nat
        /\ Cardinality(B \cap (i..k)) \in Nat
  <2> SUFFICES ASSUME NEW i \in 1..n, NEW k \in i..n
               PROVE  /\ Cardinality(A \cap (i..k)) \in Nat
                      /\ Cardinality(B \cap (i..k)) \in Nat
    OBVIOUS
  <2>1. i \in Int /\ k \in Int /\ i <= k + 1
    OBVIOUS
  <2> QED
    BY <2>1, CountNext
<1> HIDE DEF A, B
<1>3. \A i \in 1..n : \A k \in i..n :
        Net(A, B, i, k) >= 1 <=> Cardinality(A \cap (i..k)) > Cardinality(B \cap (i..k))
  BY <1>2 DEF Net
<1>4. Inside(open, close, n) <=> \E i \in 1..n : \A k \in i..n : Net(A, B, i, k) >= 1
  BY <1>1, <1>3 DEF Inside
<1>5. ASSUME d # 0 PROVE Inside(open, close, n)
  <2>1. 1 \in 1..d
    BY <1>5
  <2> QED
    BY <1>4, <2>1 DEF Region, A, B
<1>6. ASSUME NEW i \in 1..n, \A k \in i..n : Net(A, B, i, k) >= 1
      PROVE  d # 0
  <2>1. n \in i..n
    OBVIOUS
  <2>2. Net(A, B, i, n) <= d
    BY DEF Region, A, B
  <2> QED
    BY <1>2, <1>6, <2>1, <2>2 DEF Net
<1> QED
  BY <1>4, <1>5, <1>6

\* What the new line does to the blocks opened above it: it closes the one with
\* nothing open after it, and shifts the depth of the others.
LEMMA BlocksNext ==
    ASSUME file \in Seq(Kinds), NEW k \in Kinds, file' = Append(file, k),
           NEW n \in Nat, n = Len(file)
    PROVE  /\ \A i \in 1..n :
                /\ Deep(i) \in Int
                /\ Deep(i)' = (Deep(i) + (IF k \in Opens THEN 1 ELSE 0))
                                - (IF k \in Closes THEN 1 ELSE 0)
                /\ OpenAt(i, n + 1)' <=> /\ OpenAt(i, n)
                                         /\ Deep(i) >= IF k \in Closes THEN 1 ELSE 0
           /\ Deep(n + 1)' = 0
           /\ OpenAt(n + 1, n + 1)'
<1> DEFINE up == IF k \in Opens THEN 1 ELSE 0
           dn == IF k \in Closes THEN 1 ELSE 0
<1>0. n \in Nat /\ Len(file') = n + 1
  BY FileGrows
<1>1. /\ OpenLines' \cap (1..n) = OpenLines \cap (1..n)
      /\ CloseLines' \cap (1..n) = CloseLines \cap (1..n)
      /\ n + 1 \in OpenLines' <=> k \in Opens
      /\ n + 1 \in CloseLines' <=> k \in Closes
  BY FileGrows DEF OpenLines, CloseLines
<1>2. ASSUME NEW i \in 1..n
      PROVE  /\ Deep(i) \in Int
             /\ Deep(i)' = (Deep(i) + up) - dn
             /\ OpenAt(i, n + 1)' <=> OpenAt(i, n) /\ Deep(i) >= dn
  <2>0. /\ i + 1 \in Int /\ n \in Int /\ i + 1 <= n + 1 /\ i \in Nat
        /\ OpenLines' \cap ((i + 1)..n) = OpenLines \cap ((i + 1)..n)
        /\ CloseLines' \cap ((i + 1)..n) = CloseLines \cap ((i + 1)..n)
    BY <1>0, <1>1
  <2>1. /\ Cardinality(OpenLines \cap ((i + 1)..n)) \in Nat
        /\ Cardinality(OpenLines' \cap ((i + 1)..(n + 1)))
             = Cardinality(OpenLines \cap ((i + 1)..n)) + up
    <3>1. /\ Cardinality(OpenLines' \cap ((i + 1)..n)) \in Nat
          /\ Cardinality(OpenLines' \cap ((i + 1)..(n + 1)))
               = Cardinality(OpenLines' \cap ((i + 1)..n)) + (IF n + 1 \in OpenLines' THEN 1 ELSE 0)
      <4>1. PICK T : T = OpenLines'
        OBVIOUS
      <4>2. /\ Cardinality(T \cap ((i + 1)..n)) \in Nat
            /\ Cardinality(T \cap ((i + 1)..(n + 1)))
                 = Cardinality(T \cap ((i + 1)..n)) + (IF n + 1 \in T THEN 1 ELSE 0)
        BY <2>0, CountNext
      <4> QED
        BY <4>1, <4>2
    <3> QED
      BY <1>1, <2>0, <3>1
  <2>2. /\ Cardinality(CloseLines \cap ((i + 1)..n)) \in Nat
        /\ Cardinality(CloseLines' \cap ((i + 1)..(n + 1)))
             = Cardinality(CloseLines \cap ((i + 1)..n)) + dn
    <3>1. /\ Cardinality(CloseLines' \cap ((i + 1)..n)) \in Nat
          /\ Cardinality(CloseLines' \cap ((i + 1)..(n + 1)))
               = Cardinality(CloseLines' \cap ((i + 1)..n)) + (IF n + 1 \in CloseLines' THEN 1 ELSE 0)
      <4>1. PICK T : T = CloseLines'
        OBVIOUS
      <4>2. /\ Cardinality(T \cap ((i + 1)..n)) \in Nat
            /\ Cardinality(T \cap ((i + 1)..(n + 1)))
                 = Cardinality(T \cap ((i + 1)..n)) + (IF n + 1 \in T THEN 1 ELSE 0)
        BY <2>0, CountNext
      <4> QED
        BY <4>1, <4>2
    <3> QED
      BY <1>1, <2>0, <3>1
  <2>3. Deep(i) = Cardinality(OpenLines \cap ((i + 1)..n))
                    - Cardinality(CloseLines \cap ((i + 1)..n))
    BY DEF Deep
  <2>4. Deep(i)' = Cardinality(OpenLines' \cap ((i + 1)..(n + 1)))
                     - Cardinality(CloseLines' \cap ((i + 1)..(n + 1)))
    BY <1>0 DEF Deep
  <2>5. OpenAt(i, n + 1)' <=> /\ OpenAt(i, n)'
                              /\ Cardinality(CloseLines' \cap ((i + 1)..(n + 1)))
                                   <= Cardinality(OpenLines' \cap ((i + 1)..n))
    <3>1. /\ (i + 1)..(n + 1) = ((i + 1)..n) \cup {n + 1}
          /\ (n + 1) - 1 = n
      BY <2>0
    <3>2. /\ {c \in (i + 1)..(n + 1) : file'[c] \in Closes} = CloseLines' \cap ((i + 1)..(n + 1))
          /\ {b \in (i + 1)..n : file'[b] \in Opens} = OpenLines' \cap ((i + 1)..n)
      BY FileGrows, <2>0 DEF OpenLines, CloseLines
    <3> QED
      BY <3>1, <3>2 DEF OpenAt
  <2>6. OpenAt(i, n)' <=> OpenAt(i, n)
    BY <2>0, OpenAtKept
  <2> HIDE DEF up, dn
  <2>7. dn \in {0, 1} /\ up \in {0, 1}
    BY DEF up, dn
  <2>8. Deep(i) \in Int /\ Deep(i)' = (Deep(i) + up) - dn
    BY <2>1, <2>2, <2>3, <2>4, <2>7
  <2>9. Cardinality(CloseLines' \cap ((i + 1)..(n + 1))) <= Cardinality(OpenLines' \cap ((i + 1)..n))
          <=> Deep(i) >= dn
    <3>1. Cardinality(OpenLines' \cap ((i + 1)..n)) = Cardinality(OpenLines \cap ((i + 1)..n))
      BY <2>0, Zenon
    <3> QED
      BY <2>1, <2>2, <2>3, <2>7, <3>1
  <2> QED
    BY <2>5, <2>6, <2>8, <2>9
<1>3. Deep(n + 1)' = 0
  <2>1. /\ OpenLines' \cap ((n + 1 + 1)..(n + 1)) = {}
        /\ CloseLines' \cap ((n + 1 + 1)..(n + 1)) = {}
    BY <1>0
  <2>2. Deep(n + 1)' = Cardinality(OpenLines' \cap ((n + 1 + 1)..(n + 1)))
                        - Cardinality(CloseLines' \cap ((n + 1 + 1)..(n + 1)))
    BY <1>0 DEF Deep
  <2>3. /\ Cardinality(OpenLines' \cap ((n + 1 + 1)..(n + 1))) = 0
        /\ Cardinality(CloseLines' \cap ((n + 1 + 1)..(n + 1))) = 0
    BY <2>1, FS_EmptySet, Zenon
  <2> QED
    BY <2>2, <2>3
<1>4. OpenAt(n + 1, n + 1)'
  <2>1. (n + 1 + 1)..(n + 1) = {}
    BY <1>0
  <2> QED
    BY <2>1 DEF OpenAt
<1> QED
  BY <1>2, <1>3, <1>4

\* Sequences that the scanner pushes on.
LEMMA Pushing ==
    ASSUME NEW S, NEW s \in Seq(S), NEW x \in S
    PROVE  /\ s \o <<>> = s
           /\ s \o <<x>> = Append(s, x)
           /\ s \o <<x>> \o <<>> = Append(s, x)
           /\ s \o <<>> \o <<x>> = Append(s, x)
           /\ SubSeq(Append(s, x), 1, Len(Append(s, x)) - 1) = s
           /\ Append(s, x) # <<>>
           /\ Len(Append(s, x)) = Len(s) + 1
<1>1. s \o <<>> = s
  OBVIOUS
<1>2. s \o <<x>> = Append(s, x)
  OBVIOUS
<1>3. Append(s, x) \o <<>> = Append(s, x)
  OBVIOUS
<1>4. SubSeq(Append(s, x), 1, Len(Append(s, x)) - 1) = s
  OBVIOUS
<1>5. Append(s, x) # <<>>
  <2>1. Len(Append(s, x)) # Len(<<>>)
    OBVIOUS
  <2> QED
    BY <2>1
<1>6. Len(Append(s, x)) = Len(s) + 1
  OBVIOUS
<1> QED
  BY <1>1, <1>2, <1>3, <1>4, <1>5, <1>6

\* What it does to the stack.
LEMMA StackNext ==
    ASSUME stack \in Seq(BOOLEAN), NEW k \in Kinds
    PROVE  /\ k \in Opens \ Closes => StackAfter(k) = Append(stack, k \in OpensNamed)
           /\ k \in Closes \ Opens =>
                StackAfter(k) = IF stack = <<>> THEN stack ELSE SubSeq(stack, 1, Len(stack) - 1)
           /\ k \in Closes \cap Opens => StackAfter(k) = stack
           /\ k \notin Opens \cup Closes => StackAfter(k) = stack
<1> DEFINE named == IF k \in OpensNamed THEN <<TRUE>> ELSE <<>>
           plain == IF k \in OpensPlain THEN <<FALSE>> ELSE <<>>
           pushed == stack \o named \o plain
<1>1. StackAfter(k) = IF k \in Closes /\ pushed # <<>> THEN Front(pushed) ELSE pushed
  BY DEF StackAfter
<1>2. ASSUME k \notin Opens PROVE pushed = stack
  <2>1. pushed = stack \o <<>> \o <<>>
    BY <1>2 DEF Opens
  <2>2. stack \o <<>> = stack
    OBVIOUS
  <2> QED
    BY <2>1, <2>2
<1>3. k \in Opens => pushed = Append(stack, k \in OpensNamed)
  <2>1. CASE k \in OpensNamed
    <3>1. k \notin OpensPlain
      BY <2>1 DEF OpensNamed, OpensPlain
    <3>2. pushed = stack \o <<TRUE>> \o <<>>
      BY <2>1, <3>1
    <3>3. pushed = Append(stack, TRUE)
      <4>1. TRUE \in BOOLEAN
        OBVIOUS
      <4> QED
        BY <3>2, <4>1, Pushing, Zenon
    <3>4. (k \in OpensNamed) = TRUE
      BY <2>1
    <3> QED
      BY <3>3, <3>4
  <2>2. CASE k \in OpensPlain
    <3>1. k \notin OpensNamed
      BY <2>2 DEF OpensNamed, OpensPlain
    <3>2. pushed = stack \o <<>> \o <<FALSE>>
      BY <2>2, <3>1
    <3>3. pushed = Append(stack, FALSE)
      <4>1. FALSE \in BOOLEAN
        OBVIOUS
      <4> QED
        BY <3>2, <4>1, Pushing, Zenon
    <3>4. (k \in OpensNamed) = FALSE
      BY <3>1
    <3> QED
      BY <3>3, <3>4
  <2> QED
    BY <2>1, <2>2 DEF Opens
<1> HIDE DEF named, plain, pushed
<1>4. ASSUME k \in Opens, k \in Closes
      PROVE  StackAfter(k) = stack
  <2> DEFINE lbl == k \in OpensNamed
  <2>0. lbl \in BOOLEAN
    OBVIOUS
  <2>1. pushed = Append(stack, lbl)
    BY <1>3, <1>4
  <2> HIDE DEF lbl
  <2>2. pushed # <<>> /\ Front(pushed) = stack
    BY <2>0, <2>1, Pushing DEF Front
  <2> QED
    BY <1>1, <1>4, <2>2
<1> QED
  BY <1>1, <1>2, <1>3, <1>4 DEF Front

\* The blocks that are open after the new line.
LEMMA BlocksOpen ==
    ASSUME RrTypes, StackHolds, NEW k \in Kinds, file' = Append(file, k),
           NEW n \in Nat, n = Len(file)
    PROVE  /\ OpenBlocks' = {i \in OpenBlocks : k \in Closes => Deep(i) # 0}
                              \cup (IF k \in Opens THEN {n + 1} ELSE {})
           /\ n + 1 \notin OpenBlocks
           /\ OpenBlocks \subseteq 1..n
           /\ IsFiniteSet(OpenBlocks)
           /\ \A i \in OpenBlocks : Deep(i) \in Nat
<1>0. file \in Seq(Kinds) /\ Len(file') = n + 1 /\ Len(stack) \in Nat
  BY FileGrows DEF RrTypes
<1>1. OpenBlocks \subseteq 1..n /\ n + 1 \notin OpenBlocks
  BY <1>0, FileGrows DEF OpenBlocks, OpenLines
<1>2. IsFiniteSet(OpenBlocks)
  <2>1. OpenBlocks \in SUBSET (1..n) /\ IsFiniteSet(1..n)
    BY <1>0, <1>1, FS_Interval
  <2> QED
    BY <2>1, FS_Subset
<1>3. \A i \in OpenBlocks : Deep(i) \in Nat
  BY <1>0 DEF StackHolds, Ranked
<1>4. OpenLines' = OpenLines \cup (IF k \in Opens THEN {n + 1} ELSE {})
  BY <1>0, FileGrows DEF OpenLines
<1>5. OpenLines \subseteq 1..n
  BY <1>0, FileGrows DEF OpenLines
<1>6. OpenBlocks' = {i \in OpenLines' : OpenAt(i, n + 1)'}
  BY <1>0 DEF OpenBlocks
<1>7. ASSUME NEW i \in OpenLines
      PROVE  OpenAt(i, n + 1)' <=> i \in OpenBlocks /\ (k \in Closes => Deep(i) # 0)
  <2>1. i \in 1..n
    BY <1>5
  <2>2. OpenAt(i, n + 1)' <=> OpenAt(i, n) /\ Deep(i) >= IF k \in Closes THEN 1 ELSE 0
    BY <1>0, <2>1, BlocksNext
  <2>3. OpenAt(i, n) <=> i \in OpenBlocks
    BY DEF OpenBlocks
  <2> QED
    BY <1>3, <2>2, <2>3
<1>8. OpenAt(n + 1, n + 1)'
  BY <1>0, BlocksNext
<1>9. OpenBlocks \subseteq OpenLines
  BY DEF OpenBlocks
<1> QED
  BY <1>1, <1>2, <1>3, <1>4, <1>6, <1>7, <1>8, <1>9

\* What the new line does to the open blocks and to the stack, case by case.  The
\* block that a close ends is t, the one with nothing open after it.
LeavesBlocks(k, n) ==
    /\ k \notin Opens \cup Closes
    /\ OpenBlocks' = OpenBlocks /\ stack' = stack
    /\ \A i \in OpenBlocks : Deep(i)' = Deep(i)
Pushes(k, n) ==
    /\ k \in Opens \ Closes
    /\ OpenBlocks' = OpenBlocks \cup {n + 1} /\ stack' = Append(stack, k \in OpensNamed)
    /\ \A i \in OpenBlocks : Deep(i)' = Deep(i) + 1
    /\ Deep(n + 1)' = 0
Pops(k, n, t) ==
    /\ k \in Closes \ Opens
    /\ t \in OpenBlocks /\ Deep(t) = 0
    /\ OpenBlocks' = OpenBlocks \ {t} /\ stack' = SubSeq(stack, 1, Len(stack) - 1)
    /\ \A i \in OpenBlocks : Deep(i)' = Deep(i) - 1
Replaces(k, n, t) ==
    /\ k \in Closes \cap Opens
    /\ t \in OpenBlocks /\ Deep(t) = 0
    /\ OpenBlocks' = (OpenBlocks \ {t}) \cup {n + 1} /\ stack' = stack
    /\ \A i \in OpenBlocks : Deep(i)' = Deep(i)
    /\ Deep(n + 1)' = 0

\* One of the four happens, or a stray end meets an empty stack.
LEMMA FourCases ==
    ASSUME RrTypes, StackHolds, NEW k \in Kinds, file' = Append(file, k),
           stack' = StackAfter(k), k \in Closes \cap Opens => stack # <<>>,
           NEW n \in Nat, n = Len(file)
    PROVE  \/ LeavesBlocks(k, n) \/ Pushes(k, n)
           \/ \E t \in OpenBlocks : Pops(k, n, t) \/ Replaces(k, n, t)
           \/ k \in Closes \ Opens /\ stack = <<>> /\ stack' = <<>>
                /\ OpenBlocks = {} /\ OpenBlocks' = {}
<1> DEFINE up == IF k \in Opens THEN 1 ELSE 0
           dn == IF k \in Closes THEN 1 ELSE 0
<1>0. file \in Seq(Kinds) /\ stack \in Seq(BOOLEAN) /\ Len(stack) \in Nat
  BY DEF RrTypes
<1>1. /\ OpenBlocks' = {i \in OpenBlocks : k \in Closes => Deep(i) # 0}
                         \cup (IF k \in Opens THEN {n + 1} ELSE {})
      /\ OpenBlocks \subseteq 1..n
      /\ \A i \in OpenBlocks : Deep(i) \in Nat
  BY BlocksOpen
<1>2. /\ \A i \in 1..n : Deep(i)' = (Deep(i) + up) - dn
      /\ Deep(n + 1)' = 0
  BY <1>0, BlocksNext
<1>3. \A i \in OpenBlocks : Deep(i)' = (Deep(i) + up) - dn
  BY <1>1, <1>2
<1>4. CASE k \notin Opens \cup Closes
  <2>1. \A i \in OpenBlocks : Deep(i)' = Deep(i)
    BY <1>1, <1>3, <1>4
  <2>2. OpenBlocks' = OpenBlocks
    BY <1>1, <1>4
  <2> QED
    BY <1>0, <1>4, <2>1, <2>2, StackNext DEF LeavesBlocks
<1>5. CASE k \in Opens \ Closes
  <2>1. \A i \in OpenBlocks : Deep(i)' = Deep(i) + 1
    BY <1>1, <1>3, <1>5
  <2>2. OpenBlocks' = OpenBlocks \cup {n + 1}
    BY <1>1, <1>5
  <2>3. stack' = Append(stack, k \in OpensNamed)
    BY <1>0, <1>5, StackNext
  <2> QED
    BY <1>2, <1>5, <2>1, <2>2, <2>3 DEF Pushes
<1>6. ASSUME k \in Closes, stack # <<>>
      PROVE  \E t \in OpenBlocks : Deep(t) = 0 /\ \A i \in OpenBlocks : Deep(i) = 0 => i = t
  <2>1. 0 \in 0..(Len(stack) - 1)
    <3>1. Len(stack) # 0
      BY <1>0, <1>6
    <3> QED
      BY <1>0, <3>1
  <2> QED
    BY <2>1 DEF StackHolds, Ranked
<1>7. CASE k \in Closes \ Opens /\ stack # <<>>
  <2>1. PICK t \in OpenBlocks : Deep(t) = 0 /\ \A i \in OpenBlocks : Deep(i) = 0 => i = t
    BY <1>6, <1>7
  <2>2. \A i \in OpenBlocks : Deep(i)' = Deep(i) - 1
    BY <1>1, <1>3, <1>7
  <2>3. OpenBlocks' = OpenBlocks \ {t}
    BY <1>1, <1>7, <2>1
  <2>4. stack' = SubSeq(stack, 1, Len(stack) - 1)
    BY <1>0, <1>7, StackNext
  <2> QED
    BY <1>7, <2>1, <2>2, <2>3, <2>4 DEF Pops
<1>8. CASE k \in Closes \cap Opens
  <2>1. PICK t \in OpenBlocks : Deep(t) = 0 /\ \A i \in OpenBlocks : Deep(i) = 0 => i = t
    BY <1>6, <1>8
  <2>2. \A i \in OpenBlocks : Deep(i)' = Deep(i)
    BY <1>1, <1>3, <1>8
  <2>3. OpenBlocks' = (OpenBlocks \ {t}) \cup {n + 1}
    BY <1>1, <1>8, <2>1
  <2>4. stack' = stack
    BY <1>0, <1>8, StackNext
  <2> QED
    BY <1>2, <1>8, <2>1, <2>2, <2>3, <2>4 DEF Replaces
<1>9. CASE k \in Closes \ Opens /\ stack = <<>>
  <2>1. Len(stack) = 0
    BY <1>9
  <2>2. OpenBlocks = {}
    BY <2>1 DEF StackHolds, Ranked
  <2>3. OpenBlocks' = {}
    BY <1>1, <1>9, <2>2
  <2>4. stack' = <<>>
    BY <1>0, <1>9, StackNext
  <2> QED
    BY <1>9, <2>2, <2>3, <2>4
<1> QED
  BY <1>4, <1>5, <1>7, <1>8, <1>9

\* The stack and the open blocks stay the same list.
LEMMA RankedStep ==
    ASSUME RrTypes, StackHolds, NEW k \in Kinds, file' = Append(file, k),
           stack' = StackAfter(k), k \in Closes \cap Opens => stack # <<>>,
           NEW n \in Nat, n = Len(file), NEW L \in Nat, L = Len(stack)
    PROVE  Ranked'
<1>0. /\ stack \in Seq(BOOLEAN)
      /\ L = Cardinality(OpenBlocks)
      /\ \A i \in OpenBlocks : Deep(i) \in 0..(L - 1)
      /\ \A i, j \in OpenBlocks : Deep(i) = Deep(j) => i = j
      /\ \A d \in 0..(L - 1) : \E i \in OpenBlocks : Deep(i) = d
  BY DEF RrTypes, StackHolds, Ranked
<1>1. /\ n + 1 \notin OpenBlocks /\ IsFiniteSet(OpenBlocks)
      /\ \A i \in OpenBlocks : Deep(i) \in Nat
  BY BlocksOpen
<1>2. CASE LeavesBlocks(k, n)
  <2>1. OpenBlocks' = OpenBlocks /\ Len(stack') = L
    BY <1>2 DEF LeavesBlocks
  <2>2. \A i \in OpenBlocks' : i \in OpenBlocks /\ Deep(i)' = Deep(i)
    BY <1>2 DEF LeavesBlocks
  <2>3. \A d \in 0..(L - 1) : \E i \in OpenBlocks' : Deep(i)' = d
    BY <1>0, <2>1, <2>2
  <2>4. /\ \A i \in OpenBlocks' : Deep(i)' \in 0..(L - 1)
        /\ \A i, j \in OpenBlocks' : Deep(i)' = Deep(j)' => i = j
    BY <1>0, <2>2
  <2> QED
    BY <1>0, <2>1, <2>3, <2>4 DEF Ranked
<1>3. CASE Pushes(k, n)
  <2>0. /\ OpenBlocks' = OpenBlocks \cup {n + 1} /\ Deep(n + 1)' = 0
        /\ \A i \in OpenBlocks : Deep(i)' = Deep(i) + 1
    BY <1>3 DEF Pushes
  <2>1. Len(stack') = L + 1
    <3> DEFINE lbl == k \in OpensNamed
    <3>1. lbl \in BOOLEAN /\ stack' = Append(stack, lbl)
      BY <1>3 DEF Pushes
    <3> HIDE DEF lbl
    <3>2. Len(Append(stack, lbl)) = Len(stack) + 1
      BY <1>0, <3>1, Pushing
    <3> QED
      BY <3>1, <3>2
  <2>2. Cardinality(OpenBlocks') = L + 1
    <3>1. Cardinality(OpenBlocks \cup {n + 1})
            = IF n + 1 \in OpenBlocks THEN Cardinality(OpenBlocks) ELSE Cardinality(OpenBlocks) + 1
      BY <1>1, FS_AddElement, Zenon
    <3> QED
      BY <1>0, <1>1, <2>0, <3>1
  <2>3. \A i \in OpenBlocks' : Deep(i)' \in 0..((L + 1) - 1)
    BY <1>0, <1>1, <2>0
  <2>4. \A i, j \in OpenBlocks' : Deep(i)' = Deep(j)' => i = j
    BY <1>0, <1>1, <2>0
  <2>5. \A d \in 0..((L + 1) - 1) : \E i \in OpenBlocks' : Deep(i)' = d
    <3> SUFFICES ASSUME NEW d \in 0..((L + 1) - 1)
                 PROVE  \E i \in OpenBlocks' : Deep(i)' = d
      OBVIOUS
    <3>1. CASE d = 0
      BY <2>0, <3>1
    <3>2. CASE d - 1 \in 0..(L - 1)
      <4>1. PICK i \in OpenBlocks : Deep(i) = d - 1
        BY <1>0, <3>2
      <4> QED
        BY <2>0, <4>1
    <3> QED
      BY <3>1, <3>2
  <2> QED
    BY <2>1, <2>2, <2>3, <2>4, <2>5 DEF Ranked
<1>4. ASSUME NEW t \in OpenBlocks, Pops(k, n, t)
      PROVE  Ranked'
  <2>0. /\ OpenBlocks' = OpenBlocks \ {t} /\ Deep(t) = 0
        /\ \A i \in OpenBlocks : Deep(i)' = Deep(i) - 1
    BY <1>4 DEF Pops
  <2>1. Len(stack') = L - 1 /\ L >= 1
    <3>1. L >= 1
      BY <1>0
    <3> QED
      BY <1>0, <1>4, <3>1 DEF Pops
  <2>2. Cardinality(OpenBlocks') = L - 1
    BY <1>0, <1>1, <2>0, FS_RemoveElement
  <2>3. \A i \in OpenBlocks' : Deep(i)' \in 0..((L - 1) - 1)
    BY <1>0, <1>1, <2>0
  <2>4. \A i, j \in OpenBlocks' : Deep(i)' = Deep(j)' => i = j
    BY <1>0, <1>1, <2>0
  <2>5. \A d \in 0..((L - 1) - 1) : \E i \in OpenBlocks' : Deep(i)' = d
    <3> SUFFICES ASSUME NEW d \in 0..((L - 1) - 1)
                 PROVE  \E i \in OpenBlocks' : Deep(i)' = d
      OBVIOUS
    <3>1. PICK i \in OpenBlocks : Deep(i) = d + 1
      BY <1>0
    <3>2. i # t
      BY <2>0, <3>1
    <3> QED
      BY <2>0, <3>1, <3>2
  <2> QED
    BY <2>1, <2>2, <2>3, <2>4, <2>5 DEF Ranked
<1>5. ASSUME NEW t \in OpenBlocks, Replaces(k, n, t)
      PROVE  Ranked'
  <2>0. /\ OpenBlocks' = (OpenBlocks \ {t}) \cup {n + 1} /\ Deep(t) = 0 /\ Deep(n + 1)' = 0
        /\ \A i \in OpenBlocks : Deep(i)' = Deep(i)
    BY <1>5 DEF Replaces
  <2>1. Len(stack') = L /\ L >= 1
    <3>1. L >= 1
      BY <1>0
    <3> QED
      BY <1>5, <3>1 DEF Replaces
  <2>2. Cardinality(OpenBlocks') = L
    <3>1. IsFiniteSet(OpenBlocks \ {t}) /\ Cardinality(OpenBlocks \ {t}) = L - 1
      BY <1>0, <1>1, FS_RemoveElement
    <3>2. n + 1 \notin OpenBlocks \ {t}
      BY <1>1
    <3>3. Cardinality((OpenBlocks \ {t}) \cup {n + 1})
            = IF n + 1 \in OpenBlocks \ {t} THEN Cardinality(OpenBlocks \ {t})
              ELSE Cardinality(OpenBlocks \ {t}) + 1
      BY <3>1, FS_AddElement, Zenon
    <3> QED
      BY <2>0, <3>1, <3>2, <3>3
  <2>3. \A i \in OpenBlocks' : Deep(i)' \in 0..(L - 1)
    BY <1>0, <1>1, <2>0, <2>1
  <2>4. \A i, j \in OpenBlocks' : Deep(i)' = Deep(j)' => i = j
    BY <1>0, <1>1, <2>0
  <2>5. \A d \in 0..(L - 1) : \E i \in OpenBlocks' : Deep(i)' = d
    <3> SUFFICES ASSUME NEW d \in 0..(L - 1)
                 PROVE  \E i \in OpenBlocks' : Deep(i)' = d
      OBVIOUS
    <3>1. PICK i \in OpenBlocks : Deep(i) = d
      BY <1>0
    <3>2. i = t => d = 0
      BY <2>0, <3>1
    <3> QED
      BY <2>0, <3>1, <3>2
  <2> QED
    BY <2>1, <2>2, <2>3, <2>4, <2>5 DEF Ranked
<1>6. CASE stack' = <<>> /\ OpenBlocks' = {}
  <2>1. Len(stack') = 0 /\ Cardinality(OpenBlocks') = 0
    BY <1>6, FS_EmptySet
  <2> QED
    BY <1>6, <2>1 DEF Ranked
<1> QED
  BY <1>2, <1>3, <1>4, <1>5, <1>6, FourCases

\* And it carries the labels: an else branch keeps the entry of the branch it
\* follows, which is right when both are labelled alike.
LEMMA LabelsStep ==
    ASSUME RrTypes, StackHolds, NEW k \in Kinds, file' = Append(file, k),
           stack' = StackAfter(k), k \in Closes \cap Opens => stack # <<>>,
           NEW n \in Nat, n = Len(file), NEW L \in Nat, L = Len(stack), LabelsKept'
    PROVE  \A i \in OpenBlocks' : stack'[Len(stack') - Deep(i)'] = (file'[i] \in OpensNamed)
<1>0. /\ stack \in Seq(BOOLEAN) /\ file \in Seq(Kinds)
      /\ \A i \in OpenBlocks : Deep(i) \in 0..(L - 1)
  BY DEF RrTypes, StackHolds, Ranked
<1>1. \A i \in OpenBlocks : stack[L - Deep(i)] = (file[i] \in OpensNamed)
  BY <1>0, LabelsWereKept DEF StackHolds, Ranked
<1>2. /\ OpenBlocks \subseteq 1..n
      /\ n + 1 \notin OpenBlocks
      /\ \A i \in 1..n : file'[i] = file[i]
      /\ file'[n + 1] = k
  BY <1>0, BlocksOpen, FileGrows
<1>3. CASE LeavesBlocks(k, n)
  BY <1>0, <1>1, <1>2, <1>3 DEF LeavesBlocks
<1>4. CASE Pushes(k, n)
  <2> SUFFICES ASSUME NEW i \in OpenBlocks'
               PROVE  stack'[Len(stack') - Deep(i)'] = (file'[i] \in OpensNamed)
    OBVIOUS
  <2>1. /\ Len(stack') = L + 1
        /\ stack'[L + 1] = (k \in OpensNamed)
        /\ \A j \in 1..L : stack'[j] = stack[j]
    <3>1. (k \in OpensNamed) \in BOOLEAN
      OBVIOUS
    <3> QED
      BY <1>0, <1>4, <3>1 DEF Pushes
  <2>2. CASE i = n + 1
    <3>1. Deep(i)' = 0
      BY <1>4, <2>2 DEF Pushes
    <3> QED
      BY <1>2, <2>1, <2>2, <3>1
  <2>3. CASE i \in OpenBlocks
    <3>1. Len(stack') - Deep(i)' = L - Deep(i) /\ L - Deep(i) \in 1..L
      BY <1>0, <1>4, <2>1, <2>3 DEF Pushes
    <3>2. stack'[Len(stack') - Deep(i)'] = stack[L - Deep(i)]
      BY <2>1, <3>1
    <3>3. file'[i] = file[i]
      BY <1>2, <2>3
    <3> QED
      BY <1>1, <2>3, <3>2, <3>3
  <2> QED
    BY <1>4, <2>2, <2>3 DEF Pushes
<1>5. ASSUME NEW t \in OpenBlocks, Pops(k, n, t), NEW i \in OpenBlocks'
      PROVE  stack'[Len(stack') - Deep(i)'] = (file'[i] \in OpensNamed)
  <2>0. /\ i \in OpenBlocks /\ i # t /\ Deep(t) = 0 /\ Deep(i)' = Deep(i) - 1
        /\ Deep(t) \in 0..(L - 1) /\ Deep(i) \in 0..(L - 1)
    BY <1>0, <1>5 DEF Pops
  <2>1. Deep(i) # 0
    BY <2>0 DEF StackHolds, Ranked
  <2>2. /\ Len(stack') = L - 1
        /\ \A j \in 1..(L - 1) : stack'[j] = stack[j]
    BY <1>0, <1>5, <2>0 DEF Pops
  <2>3. Len(stack') - Deep(i)' = L - Deep(i) /\ L - Deep(i) \in 1..(L - 1)
    BY <2>0, <2>1, <2>2
  <2>4. stack'[Len(stack') - Deep(i)'] = stack[L - Deep(i)]
    BY <2>2, <2>3
  <2>5. file'[i] = file[i]
    BY <1>2, <2>0
  <2> QED
    BY <1>1, <2>0, <2>4, <2>5
<1>6. ASSUME NEW t \in OpenBlocks, Replaces(k, n, t), NEW i \in OpenBlocks'
      PROVE  stack'[Len(stack') - Deep(i)'] = (file'[i] \in OpensNamed)
  <2>0. stack' = stack /\ Deep(t) = 0 /\ (i = n + 1 \/ i \in OpenBlocks)
    BY <1>6 DEF Replaces
  <2>1. CASE i \in OpenBlocks
    <3>1. Deep(i)' = Deep(i) /\ file'[i] = file[i]
      BY <1>2, <1>6, <2>1 DEF Replaces
    <3> QED
      BY <1>1, <2>0, <2>1, <3>1
  <2>2. CASE i = n + 1
    <3>1. Deep(i)' = 0 /\ L - 0 = L
      BY <1>6, <2>2 DEF Replaces
    <3>2. stack[L] = (file[t] \in OpensNamed)
      BY <1>1, <2>0, <3>1
    <3>3. file[t] \in OpensNamed <=> k \in OpensNamed
      <4>1. /\ t \in 1..n /\ t \in DOMAIN file' /\ n + 1 \in DOMAIN file' /\ t < n + 1
            /\ file'[t] = file[t] /\ file'[n + 1] = k
        BY <1>0, <1>2, FileGrows
      <4>2. file[t] \in Opens /\ k \in Opens /\ k \in Closes /\ OpenAt(t, n)
        BY <1>6 DEF Replaces, OpenBlocks, OpenLines
      <4>3. OpenAt(t, n)'
        BY <1>0, <4>1, <4>2, OpenAtKept
      <4>4. ~OpenAt(t, n + 1)'
        <5>1. OpenAt(t, n + 1)' <=> /\ OpenAt(t, n)
                                    /\ Deep(t) >= IF k \in Closes THEN 1 ELSE 0
          BY <1>0, <4>1, BlocksNext
        <5> QED
          BY <2>0, <4>2, <5>1
      <4>5. ClosedBy(t, n + 1)'
        <5>1. (n + 1) - 1 = n
          OBVIOUS
        <5> QED
          BY <4>3, <4>4, <5>1 DEF ClosedBy
      <4> QED
        BY <4>1, <4>2, <4>5 DEF LabelsKept
    <3> QED
      BY <1>2, <2>0, <2>2, <3>1, <3>2, <3>3
  <2> QED
    BY <2>0, <2>1, <2>2
<1>7. CASE OpenBlocks' = {}
  BY <1>7
<1> QED
  BY <1>3, <1>4, <1>5, <1>6, <1>7, FourCases

\* The types of the scanner's state.
LEMMA RrTypesStep ==
    ASSUME RrTypes, ReadLine
    PROVE  RrTypes'
<1>1. PICK k \in Kinds : /\ file' = Append(file, k) /\ stack' = StackAfter(k)
                         /\ depth' = DepthAfter(k) /\ seen' = (seen \/ k = "always begin")
  BY DEF ReadLine
<1>2. file \in Seq(Kinds) /\ stack \in Seq(BOOLEAN) /\ depth \in [function : Nat, generate : Nat]
  BY DEF RrTypes
<1>3. file' \in Seq(Kinds) /\ Len(file') = Len(file) + 1 /\ Len(file) \in Nat
  BY <1>1, <1>2, FileGrows
<1>4. stack' \in Seq(BOOLEAN)
  <2> DEFINE lbl == k \in OpensNamed
  <2>1. lbl \in BOOLEAN
    OBVIOUS
  <2>2. \/ stack' = stack \/ stack' = Append(stack, lbl)
        \/ stack # <<>> /\ stack' = SubSeq(stack, 1, Len(stack) - 1)
    BY <1>1, <1>2, StackNext
  <2> HIDE DEF lbl
  <2>3. Append(stack, lbl) \in Seq(BOOLEAN)
    BY <1>2, <2>1
  <2>4. stack # <<>> => SubSeq(stack, 1, Len(stack) - 1) \in Seq(BOOLEAN)
    BY <1>2
  <2> QED
    BY <1>2, <2>2, <2>3, <2>4
<1>5. depth' \in [function : Nat, generate : Nat]
  <2>1. Down(depth.function) \in Nat /\ Down(depth.generate) \in Nat
    BY <1>2 DEF Down
  <2>2. PICK f, g : /\ depth' = [function |-> f, generate |-> g]
                    /\ f \in {depth.function + 1, Down(depth.function), depth.function}
                    /\ g \in {depth.generate + 1, Down(depth.generate), depth.generate}
    BY <1>1 DEF DepthAfter
  <2>3. f \in Nat /\ g \in Nat
    BY <1>2, <2>1, <2>2
  <2> QED
    BY <2>2, <2>3
<1>6. seen' \in BOOLEAN
  BY <1>1
<1>7. flagged' \in [r1 : SUBSET (1..(Len(file) + 1)), r2 : SUBSET (1..(Len(file) + 1))]
  <2>1. PICK X, Y : /\ flagged' = [r1 |-> flagged.r1 \cup X, r2 |-> flagged.r2 \cup Y]
                    /\ X \subseteq {Len(file) + 1} /\ Y \subseteq {Len(file) + 1}
    <3> DEFINE late(h) == /\ h = "logic" /\ seen
                          /\ depth'.function = 0 /\ depth'.generate = 0
                          /\ \A i \in DOMAIN stack' : ~stack'[i]
               X(h) == IF late(h) THEN {Len(file) + 1} ELSE {}
               Y(h) == IF h = "automatic logic" THEN {Len(file) + 1} ELSE {}
    <3>1. PICK h \in Kinds : flagged' = [r1 |-> flagged.r1 \cup X(h), r2 |-> flagged.r2 \cup Y(h)]
      BY DEF ReadLine
    <3>2. X(h) \subseteq {Len(file) + 1} /\ Y(h) \subseteq {Len(file) + 1}
      OBVIOUS
    <3> HIDE DEF X, Y
    <3> QED
      BY <3>1, <3>2, Zenon
  <2>2. flagged.r1 \subseteq 1..Len(file) /\ flagged.r2 \subseteq 1..Len(file)
    BY DEF RrTypes
  <2>3. /\ flagged.r1 \cup X \subseteq 1..(Len(file) + 1)
        /\ flagged.r2 \cup Y \subseteq 1..(Len(file) + 1)
    <3>1. {Len(file) + 1} \subseteq 1..(Len(file) + 1) /\ 1..Len(file) \subseteq 1..(Len(file) + 1)
      BY <1>3
    <3> QED
      BY <2>1, <2>2, <3>1, Zenon
  <2> QED
    BY <2>1, <2>3
<1> QED
  BY <1>3, <1>4, <1>5, <1>6, <1>7 DEF RrTypes

\* The region counters stay exact.
LEMMA RegionsHoldStep ==
    ASSUME RrTypes, RegionsHold, ReadLine
    PROVE  RegionsHold'
<1>1. PICK k \in Kinds : file' = Append(file, k) /\ depth' = DepthAfter(k)
  BY DEF ReadLine
<1>2. PICK n \in Nat : n = Len(file)
  BY DEF RrTypes
<1>3. /\ file \in Seq(Kinds) /\ Len(file') = n + 1
      /\ depth.function \in Nat /\ depth.generate \in Nat
      /\ depth'.function \in Nat /\ depth'.generate \in Nat
  BY <1>1, <1>2, FileGrows, RrTypesStep DEF RrTypes
<1>4. \A x : LinesOf(x)' \cap (1..n) = LinesOf(x) /\ (n + 1 \in LinesOf(x)' <=> k = x)
  BY <1>1, <1>2, <1>3, FileGrows DEF LinesOf
<1>5. ASSUME NEW x, NEW y, x # y, NEW d \in Nat, NEW e \in Nat,
             e = IF k = x THEN d + 1 ELSE IF k = y THEN Down(d) ELSE d,
             Region(LinesOf(x), LinesOf(y), n, d)
      PROVE  Region(LinesOf(x)', LinesOf(y)', n + 1, e)
  <2>1. PICK A, B, A1, B1 : A = LinesOf(x) /\ B = LinesOf(y) /\ A1 = LinesOf(x)' /\ B1 = LinesOf(y)'
    OBVIOUS
  <2>2. /\ A1 \cap (1..n) = A /\ B1 \cap (1..n) = B
        /\ n + 1 \in A1 <=> k = x
        /\ n + 1 \in B1 <=> k = y
    BY <1>4, <2>1
  <2>3. Region(A, B, n, d)
    BY <1>5, <2>1
  <2>4. /\ ~(n + 1 \in A1 /\ n + 1 \in B1)
        /\ e = IF n + 1 \in A1 THEN d + 1 ELSE IF n + 1 \in B1 THEN Down(d) ELSE d
    BY <1>5, <2>2
  <2>5. Region(A1, B1, n + 1, e)
    BY <2>2, <2>3, <2>4, RegionStep
  <2> QED
    BY <2>1, <2>5
<1>6. /\ depth'.function = IF k = "function" THEN depth.function + 1
                           ELSE IF k = "endfunction" THEN Down(depth.function) ELSE depth.function
      /\ depth'.generate = IF k = "generate" THEN depth.generate + 1
                           ELSE IF k = "endgenerate" THEN Down(depth.generate) ELSE depth.generate
  BY <1>1 DEF DepthAfter
<1>7. Region(LinesOf("function")', LinesOf("endfunction")', n + 1, depth'.function)
  BY <1>2, <1>3, <1>5, <1>6 DEF RegionsHold
<1>8. Region(LinesOf("generate")', LinesOf("endgenerate")', n + 1, depth'.generate)
  BY <1>2, <1>3, <1>5, <1>6 DEF RegionsHold
<1> QED
  BY <1>3, <1>7, <1>8 DEF RegionsHold, Region

\* The scanner's state describes the text read so far.
ScanState == RrTypes /\ StackHolds /\ RegionsHold /\ SeenHolds

\* The scanner starts on the empty text with an empty stack.
LEMMA ScanStateInit == RrInit => ScanState
<1> SUFFICES ASSUME RrInit PROVE ScanState
  OBVIOUS
<1>1. RrTypes
  <2>1. depth \in [function : Nat, generate : Nat]
    BY DEF RrInit
  <2>2. flagged \in [r1 : SUBSET (1..Len(file)), r2 : SUBSET (1..Len(file))]
    BY DEF RrInit
  <2>3. file \in Seq(Kinds) /\ stack \in Seq(BOOLEAN)
    BY DEF RrInit
  <2>4. seen \in BOOLEAN
    BY DEF RrInit
  <2> QED
    BY <2>1, <2>2, <2>3, <2>4 DEF RrTypes
<1>2. Len(file) = 0 /\ DOMAIN file = {} /\ Len(stack) = 0
  BY DEF RrInit
<1>3. OpenBlocks = {}
  BY <1>2 DEF OpenBlocks, OpenLines
<1>4. StackHolds
  BY <1>2, <1>3, FS_EmptySet DEF StackHolds, Ranked
<1>5. RegionsHold
  BY <1>2 DEF RrInit, RegionsHold, Region
<1>6. SeenHolds
  BY <1>2 DEF RrInit, SeenHolds
<1> QED
  BY <1>1, <1>4, <1>5, <1>6 DEF ScanState

\* Reading a line keeps the state a description of the text.
LEMMA ScanStateStep == ScanState /\ [RrNext]_rrVars => ScanState'
<1> SUFFICES ASSUME ScanState, [RrNext]_rrVars PROVE ScanState'
  OBVIOUS
<1>1. CASE ReadLine
  <2>1. RrTypes' /\ RegionsHold'
    BY <1>1, RrTypesStep, RegionsHoldStep DEF ScanState
  <2>2. PICK k \in Kinds : /\ file' = Append(file, k) /\ stack' = StackAfter(k)
                           /\ k \in Closes \cap Opens => stack # <<>>
                           /\ seen' = (seen \/ k = "always begin")
    BY <1>1 DEF ReadLine
  <2>3. PICK n \in Nat, L \in Nat : n = Len(file) /\ L = Len(stack)
    BY DEF ScanState, RrTypes
  <2>4. Ranked'
    BY <2>2, <2>3, RankedStep DEF ScanState
  <2>5. LabelsKept' =>
          \A i \in OpenBlocks' : stack'[Len(stack') - Deep(i)'] = (file'[i] \in OpensNamed)
    BY <2>2, <2>3, LabelsStep DEF ScanState
  <2>6. SeenHolds'
    <3>1. /\ DOMAIN file' = 1..(n + 1) /\ DOMAIN file = 1..n
          /\ \A i \in 1..n : file'[i] = file[i]
          /\ file'[n + 1] = k
      BY <2>2, <2>3, FileGrows DEF ScanState, RrTypes
    <3>2. 1..(n + 1) = (1..n) \cup {n + 1}
      OBVIOUS
    <3>3. seen <=> \E i \in DOMAIN file : file[i] = "always begin"
      BY DEF ScanState, SeenHolds
    <3>4. seen' <=> \E i \in DOMAIN file' : file'[i] = "always begin"
      BY <2>2, <3>1, <3>2, <3>3
    <3> QED
      BY <3>4 DEF SeenHolds
  <2> QED
    BY <2>1, <2>4, <2>5, <2>6 DEF ScanState, StackHolds
<1>2. CASE UNCHANGED rrVars
  <2>1. file' = file /\ stack' = stack /\ depth' = depth /\ seen' = seen /\ flagged' = flagged
    BY <1>2 DEF rrVars
  <2>2. RrTypes' /\ SeenHolds'
    BY <2>1 DEF ScanState, RrTypes, SeenHolds
  <2>3. RegionsHold'
    <3>1. \A x : LinesOf(x)' = LinesOf(x)
      BY <2>1 DEF LinesOf
    <3> QED
      BY <2>1, <3>1 DEF ScanState, RegionsHold, Region
  <2>4. \A i, n : OpenAt(i, n)' <=> OpenAt(i, n)
    BY <2>1 DEF OpenAt
  <2>5. OpenBlocks' = OpenBlocks /\ \A i : Deep(i)' = Deep(i)
    BY <2>1 DEF OpenBlocks, OpenLines, CloseLines, OpenAt, Deep
  <2>6. LabelsKept' <=> LabelsKept
    BY <2>1, <2>4 DEF LabelsKept, ClosedBy
  <2>7. StackHolds'
    BY <2>1, <2>5, <2>6 DEF ScanState, StackHolds, Ranked
  <2> QED
    BY <2>2, <2>3, <2>7 DEF ScanState
<1>3. CASE RrDone
  BY <1>2, <1>3 DEF RrDone
<1> QED
  BY <1>1, <1>2, <1>3 DEF RrNext

\* What the scanner looks at when it meets a declaration, and what that means.
Agrees ==
    /\ Inside("function", "endfunction", Len(file)) <=> depth.function # 0
    /\ Inside("generate", "endgenerate", Len(file)) <=> depth.generate # 0
    /\ LabelsKept => ((\A j \in DOMAIN stack : ~stack[j])
                        <=> ~\E i \in 1..Len(file) : file[i] \in OpensNamed /\ OpenAt(i, Len(file)))

\* In such a state the counters and the stack answer what a declaration asks.
LEMMA ScanStateAgrees == ScanState => Agrees
<1> SUFFICES ASSUME ScanState PROVE Agrees
  OBVIOUS
<1>0. /\ file \in Seq(Kinds) /\ stack \in Seq(BOOLEAN) /\ Len(stack) \in Nat
      /\ depth.function \in Nat /\ depth.generate \in Nat
      /\ DOMAIN stack = 1..Len(stack) /\ DOMAIN file = 1..Len(file)
  BY DEF ScanState, RrTypes
<1>1. Inside("function", "endfunction", Len(file)) <=> depth.function # 0
  <2>1. Region(LinesOf("function"), LinesOf("endfunction"), Len(file), depth.function)
    BY DEF ScanState, RegionsHold
  <2> QED
    BY <1>0, <2>1, RegionMeansInside
<1>2. Inside("generate", "endgenerate", Len(file)) <=> depth.generate # 0
  <2>1. Region(LinesOf("generate"), LinesOf("endgenerate"), Len(file), depth.generate)
    BY DEF ScanState, RegionsHold
  <2> QED
    BY <1>0, <2>1, RegionMeansInside
<1>3. \A i : i \in OpenBlocks /\ file[i] \in OpensNamed
               <=> i \in 1..Len(file) /\ file[i] \in OpensNamed /\ OpenAt(i, Len(file))
  BY <1>0 DEF OpenBlocks, OpenLines, Opens
<1>4. ASSUME LabelsKept
      PROVE  (\A j \in DOMAIN stack : ~stack[j]) <=> ~\E i \in OpenBlocks : file[i] \in OpensNamed
  <2>0. /\ \A i \in OpenBlocks : stack[Len(stack) - Deep(i)] = (file[i] \in OpensNamed)
        /\ \A i \in OpenBlocks : Deep(i) \in 0..(Len(stack) - 1)
        /\ \A d \in 0..(Len(stack) - 1) : \E i \in OpenBlocks : Deep(i) = d
    BY <1>4 DEF ScanState, StackHolds, Ranked
  <2>1. \A i \in OpenBlocks : Len(stack) - Deep(i) \in DOMAIN stack
    BY <1>0, <2>0
  <2>2. ASSUME NEW j \in DOMAIN stack
        PROVE  \E i \in OpenBlocks : stack[j] = (file[i] \in OpensNamed)
    <3>1. Len(stack) - j \in 0..(Len(stack) - 1)
      BY <1>0
    <3>2. PICK i \in OpenBlocks : Deep(i) = Len(stack) - j
      BY <2>0, <3>1
    <3>3. Len(stack) - Deep(i) = j
      BY <1>0, <3>2
    <3>4. stack[Len(stack) - Deep(i)] = (file[i] \in OpensNamed)
      BY <2>0
    <3> QED
      BY <3>3, <3>4
  <2> QED
    BY <2>0, <2>1, <2>2
<1> QED
  BY <1>1, <1>2, <1>3, <1>4 DEF Agrees

\* Line n is a declaration that rule R1 or R3 forbids.
Late(n) ==
    /\ file[n] = "logic"
    /\ \E i \in 1..(n - 1) : file[i] = "always begin"
    /\ ~Inside("function", "endfunction", n)
    /\ ~Inside("generate", "endgenerate", n)
    /\ ~\E i \in 1..n : file[i] \in OpensNamed /\ OpenAt(i, n)
FlagsHold == LabelsKept => \A n \in DOMAIN file : n \in flagged.r1 <=> Late(n)

\* A line is judged once, when it is read, and no later line changes the verdict.
LEMMA FlagsStep == ScanState /\ FlagsHold /\ [RrNext]_rrVars /\ Agrees' => FlagsHold'
<1> SUFFICES ASSUME ScanState, FlagsHold, [RrNext]_rrVars, Agrees' PROVE FlagsHold'
  OBVIOUS
<1>1. CASE ReadLine
  <2> SUFFICES ASSUME LabelsKept', NEW m \in DOMAIN file'
               PROVE  m \in flagged'.r1 <=> Late(m)'
    BY DEF FlagsHold
  <2> DEFINE lateLine(k) == /\ k = "logic" /\ seen
                            /\ depth'.function = 0 /\ depth'.generate = 0
                            /\ \A i \in DOMAIN stack' : ~stack'[i]
  <2>1. PICK k \in Kinds :
          /\ file' = Append(file, k)
          /\ flagged' = [r1 |-> flagged.r1 \cup (IF lateLine(k) THEN {Len(file) + 1} ELSE {}),
                         r2 |-> flagged.r2
                                  \cup (IF k = "automatic logic" THEN {Len(file) + 1} ELSE {})]
    BY <1>1 DEF ReadLine
  <2>2. PICK n \in Nat : n = Len(file)
    BY DEF ScanState, RrTypes
  <2>3. /\ file \in Seq(Kinds) /\ Len(file') = n + 1
        /\ DOMAIN file = 1..n /\ DOMAIN file' = 1..(n + 1)
        /\ \A i \in 1..n : file'[i] = file[i]
        /\ file'[n + 1] = k
    BY <2>1, <2>2, FileGrows DEF ScanState, RrTypes
  <2>4. flagged'.r1 = flagged.r1 \cup (IF lateLine(k) THEN {n + 1} ELSE {})
    BY <2>1, <2>2
  <2>5. flagged.r1 \subseteq 1..n
    BY <2>2 DEF ScanState, RrTypes
  <2>6. CASE m \in 1..n
    <3>1. m \in flagged'.r1 <=> m \in flagged.r1
      <4>1. m # n + 1
        BY <2>6
      <4> QED
        BY <2>4, <4>1
    <3>2. m \in flagged.r1 <=> Late(m)
      BY <2>1, <2>3, <2>6, LabelsWereKept DEF FlagsHold
    <3>3. /\ file'[m] = file[m]
          /\ \A i \in 1..m : i \in Nat /\ file'[i] = file[i]
          /\ \A i \in 1..(m - 1) : file'[i] = file[i]
      BY <2>3, <2>6
    <3>4. /\ Inside("function", "endfunction", m)' <=> Inside("function", "endfunction", m)
          /\ Inside("generate", "endgenerate", m)' <=> Inside("generate", "endgenerate", m)
      <4>1. m \in 0..Len(file)
        BY <2>2, <2>6
      <4> QED
        BY <2>1, <2>3, <4>1, InsideKept
    <3>5. \A i \in 1..m : OpenAt(i, m)' <=> OpenAt(i, m)
      <4>1. m \in Int /\ m <= Len(file)
        BY <2>2, <2>6
      <4> QED
        BY <2>1, <2>3, <3>3, <4>1, OpenAtKept
    <3>6. Late(m)' <=> Late(m)
      BY <3>3, <3>4, <3>5 DEF Late
    <3> QED
      BY <3>1, <3>2, <3>6
  <2>7. CASE m = n + 1
    <3>1. m \in flagged'.r1 <=> lateLine(k)
      <4>1. n + 1 \notin 1..n
        OBVIOUS
      <4> QED
        BY <2>4, <2>5, <2>7, <4>1
    <3>2. seen <=> \E i \in 1..(m - 1) : file'[i] = "always begin"
      <4>1. m - 1 = n
        BY <2>7
      <4> QED
        BY <2>3, <4>1 DEF ScanState, SeenHolds
    <3>3. Len(file') = m /\ file'[m] = k
      BY <2>3, <2>7
    <3>4. /\ Inside("function", "endfunction", m)' <=> depth'.function # 0
          /\ Inside("generate", "endgenerate", m)' <=> depth'.generate # 0
      BY <3>3 DEF Agrees, Inside
    <3>5. (\A j \in DOMAIN stack' : ~stack'[j])
             <=> ~\E i \in 1..m : file'[i] \in OpensNamed /\ OpenAt(i, m)'
      BY <3>3 DEF Agrees, OpenAt
    <3> QED
      BY <3>1, <3>2, <3>3, <3>4, <3>5 DEF Late
  <2> QED
    BY <2>3, <2>6, <2>7
<1>2. CASE UNCHANGED rrVars
  <2>1. file' = file /\ flagged' = flagged
    BY <1>2 DEF rrVars
  <2>2. \A i, n : OpenAt(i, n)' <=> OpenAt(i, n)
    BY <2>1 DEF OpenAt
  <2>3. LabelsKept' <=> LabelsKept
    BY <2>1, <2>2 DEF LabelsKept, ClosedBy
  <2>4. \A x, y, n : Inside(x, y, n)' <=> Inside(x, y, n)
    BY <2>1 DEF Inside
  <2>5. \A n : Late(n)' <=> Late(n)
    BY <2>1, <2>2, <2>4 DEF Late
  <2> QED
    BY <2>1, <2>3, <2>5 DEF FlagsHold
<1>3. CASE RrDone
  BY <1>2, <1>3 DEF RrDone
<1> QED
  BY <1>1, <1>2, <1>3 DEF RrNext

\* Both parts are the property.
LEMMA FlagsMeanExact == ScanState /\ FlagsHold => RrExact
<1> SUFFICES ASSUME ScanState, FlagsHold PROVE RrExact
  OBVIOUS
<1>1. OpenBlocks = {i \in DOMAIN file : file[i] \in Opens /\ OpenAt(i, Len(file))}
  BY DEF OpenBlocks, OpenLines
<1>2. Len(stack) = Cardinality(OpenBlocks)
  BY DEF ScanState, StackHolds, Ranked
<1> QED
  BY <1>1, <1>2 DEF FlagsHold, Late, RrExact

\* The rule scanner is exact on files of every length: its stack is as deep as
\* blocks are open, and with else branches labelled as the branches they follow
\* it reports a declaration exactly when it comes after an always block and
\* stands in no function, no generate region and no labelled block.
THEOREM ScannerExact == RrSpec => []RrExact
<1>1. RrInit => FlagsHold
  BY DEF RrInit, FlagsHold
<1>2. RrSpec => []ScanState
  BY ScanStateInit, ScanStateStep, PTL DEF RrSpec
<1>3. RrSpec => []Agrees
  BY <1>2, ScanStateAgrees, PTL
<1>4. RrSpec => []FlagsHold
  BY <1>1, <1>2, <1>3, FlagsStep, PTL DEF RrSpec
<1> QED
  BY <1>2, <1>4, FlagsMeanExact, PTL
=============================================================================
