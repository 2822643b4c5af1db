----------------------------- MODULE CycleDiff ------------------------------
(***************************************************************************)
(* tools/cycle_diff.py: compare the cycle counts of a baseline and a       *)
(* candidate simulator.  In --baseline-commit mode the baseline is built   *)
(* in a git worktree under /tmp whose path is made of the commit, so every *)
(* invocation for that commit uses the same directory.                     *)
(*                                                                         *)
(* Jobs are invocations.  The directory and git's registration of the      *)
(* worktree are separate pieces of state: git worktree add needs both gone,*)
(* git worktree remove needs the registration.  A build or a simulation    *)
(* may fail, git may refuse to remove, jobs of one commit may overlap, and *)
(* a job may be killed (no finally block runs) at any point.               *)
(***************************************************************************)
EXTENDS Integers, FiniteSets

CONSTANTS Jobs,
          Commit,       \* job -> the commit its --baseline-commit names
          CycleCounts,  \* the cycle counts a simulation may report
          MaxDelta      \* --max-delta, in percent

ASSUME CycleDiffAssumption == CycleCounts \subseteq Nat /\ MaxDelta \in Nat

VARIABLES at,           \* job -> the step it is at
          args,         \* job -> its command line
          owned,        \* job -> who holds the worktree's path: "no" one,
                        \* "local" of build_baseline, or "main"
          alone,        \* job -> no other job of its commit ran since it started
          sim,          \* job -> what run_sim returned for each binary
          code,         \* job -> exit code
          dir,          \* commit -> "none", "empty" (added), "built"
          registered    \* commit -> git knows the worktree

cdVars == <<at, args, owned, alone, sim, code, dir, registered>>
disk == <<dir, registered>>

Commits == {Commit[j] : j \in Jobs}
Args == [commit : BOOLEAN, bin : BOOLEAN, cand : BOOLEAN, ignoreX10 : BOOLEAN]
NoArgs == [commit |-> FALSE, bin |-> FALSE, cand |-> FALSE, ignoreX10 |-> FALSE]
Runs == [cycles : CycleCounts, x10 : {0, 1}]
NotRun == [cycles |-> -1, x10 |-> 0]
Running == -1           \* no exit code yet
Killed == 137

Steps == {"start", "try", "stale", "staleRm", "stalePrune", "add", "buildBase", "buildCand",
          "runBase", "runCand", "finally", "finallyRm", "finallyPrune", "compare", "done"}

CdInit ==
    /\ at = [j \in Jobs |-> "start"]
    /\ args = [j \in Jobs |-> NoArgs]
    /\ owned = [j \in Jobs |-> "no"]
    /\ alone = [j \in Jobs |-> TRUE]
    /\ sim = [j \in Jobs |-> [base |-> NotRun, cand |-> NotRun]]
    /\ code = [j \in Jobs |-> Running]
    /\ dir = [c \in Commits |-> "none"]
    /\ registered = [c \in Commits |-> FALSE]

Active(j) == at[j] \notin {"start", "done"}
Peers(j) == {k \in Jobs : Commit[k] = Commit[j]} \ {j}

Goto(j, step) == at' = [at EXCEPT ![j] = step]

Exit(j, c) == Goto(j, "done") /\ code' = [code EXCEPT ![j] = c]

\* An exception: through the finally block if main holds the path.
Raise(j) ==
    /\ Goto(j, IF owned[j] = "main" THEN "finally" ELSE "done")
    /\ code' = [code EXCEPT ![j] = 1]

-----------------------------------------------------------------------------
(* cleanup_worktree: git worktree remove --force, and where that fails     *)
(* rmtree and git worktree prune.                                          *)

GitRemove(j, next, fallback) ==
    LET c == Commit[j] IN
    \/ dir[c] = "none" /\ Goto(j, next) /\ UNCHANGED disk
    \/ /\ dir[c] # "none" /\ registered[c]
       /\ dir' = [dir EXCEPT ![c] = "none"]
       /\ registered' = [registered EXCEPT ![c] = FALSE]
       /\ Goto(j, next)
    \/ dir[c] # "none" /\ Goto(j, fallback) /\ UNCHANGED disk

Rmtree(j, prune) ==
    /\ dir' = [dir EXCEPT ![Commit[j]] = "none"]
    /\ Goto(j, prune)
    /\ UNCHANGED registered

\* git worktree prune forgets the worktrees whose directory is gone.
Prune(j, next) ==
    /\ registered' = [c \in Commits |-> registered[c] /\ dir[c] # "none"]
    /\ Goto(j, next)
    /\ UNCHANGED dir

-----------------------------------------------------------------------------
(* main and build_baseline                                                 *)

\* argparse ends in exit code 2.
ParseArgs(j) ==
    /\ at[j] = "start"
    /\ \E a \in Args :
        /\ args' = [args EXCEPT ![j] = a]
        /\ IF a.commit = a.bin \/ (a.bin /\ ~a.cand)
           THEN Exit(j, 2) /\ UNCHANGED alone
           ELSE /\ Goto(j, IF a.commit THEN "try" ELSE "runBase")
                /\ alone' = [k \in Jobs |->
                      IF k = j THEN \A p \in Peers(j) : ~Active(p)
                      ELSE alone[k] /\ ~(k \in Peers(j) /\ Active(k))]
                /\ UNCHANGED code
    /\ UNCHANGED <<owned, sim, disk>>

VerifyCommit(j) ==
    /\ at[j] = "try"
    /\ \/ Goto(j, "stale") /\ UNCHANGED code
       \/ Raise(j)
    /\ UNCHANGED <<args, owned, alone, sim, disk>>

\* "Remove any stale worktree from a previous interrupted run."
MutStaleCleanup(j) ==
    /\ at[j] = "stale"
    /\ Goto(j, "add")
    /\ UNCHANGED <<args, owned, alone, sim, code, disk>>
StaleCleanup(j) ==
    /\ \/ at[j] = "stale" /\ GitRemove(j, "add", "staleRm")
       \/ at[j] = "staleRm" /\ Rmtree(j, "stalePrune")
       \/ at[j] = "stalePrune" /\ Prune(j, "add")
    /\ UNCHANGED <<args, owned, alone, sim, code>>

\* git worktree add refuses an existing directory and a registered path.
WorktreeAdd(j) ==
    LET c == Commit[j] IN
    /\ at[j] = "add"
    /\ \/ /\ dir[c] = "none" /\ ~registered[c]
          /\ dir' = [dir EXCEPT ![c] = "empty"]
          /\ registered' = [registered EXCEPT ![c] = TRUE]
          /\ owned' = [owned EXCEPT ![j] = "local"]
          /\ Goto(j, "buildBase")
          /\ UNCHANGED code
       \/ /\ dir[c] # "none" \/ registered[c]
          /\ Raise(j)
          /\ UNCHANGED <<owned, disk>>
    /\ UNCHANGED <<args, alone, sim>>

\* make build-s7a in the worktree.  build_baseline returns the path only if
\* that succeeds: an exception leaves main's variable unset.
MutBuildBaseline(j) ==
    /\ at[j] = "buildBase"
    /\ \/ /\ dir[Commit[j]] # "none"
          /\ dir' = [dir EXCEPT ![Commit[j]] = "built"]
          /\ owned' = [owned EXCEPT ![j] = "no"]
          /\ Goto(j, "buildCand") /\ UNCHANGED code
       \/ Raise(j) /\ UNCHANGED <<owned, dir>>
    /\ UNCHANGED <<args, alone, sim, registered>>
BuildBaseline(j) ==
    /\ at[j] = "buildBase"
    /\ \/ /\ dir[Commit[j]] # "none"
          /\ dir' = [dir EXCEPT ![Commit[j]] = "built"]
          /\ owned' = [owned EXCEPT ![j] = "main"]
          /\ Goto(j, "buildCand") /\ UNCHANGED code
       \/ Raise(j) /\ UNCHANGED <<owned, dir>>
    /\ UNCHANGED <<args, alone, sim, registered>>

BuildCandidate(j) ==
    /\ at[j] = "buildCand"
    /\ \/ Goto(j, "runBase") /\ UNCHANGED code
       \/ ~args[j].cand /\ Raise(j)
    /\ UNCHANGED <<args, owned, alone, sim, disk>>

\* run_sim raises on a timeout, a missing binary and output without halt line.
RunBaseline(j) ==
    /\ at[j] = "runBase"
    /\ \/ /\ args[j].bin \/ dir[Commit[j]] = "built"
          /\ \E r \in Runs : sim' = [sim EXCEPT ![j].base = r]
          /\ Goto(j, "runCand") /\ UNCHANGED code
       \/ Raise(j) /\ UNCHANGED sim
    /\ UNCHANGED <<args, owned, alone, disk>>

RunCandidate(j) ==
    /\ at[j] = "runCand"
    /\ \/ /\ \E r \in Runs : sim' = [sim EXCEPT ![j].cand = r]
          /\ Goto(j, "finally") /\ UNCHANGED code
       \/ Raise(j) /\ UNCHANGED sim
    /\ UNCHANGED <<args, owned, alone, disk>>

\* After the block an exception ends the program, a normal run compares.
AfterFinally(j) == IF code[j] = Running THEN "compare" ELSE "done"
Finally(j) ==
    /\ \/ at[j] = "finally" /\ owned[j] = "main"
          /\ GitRemove(j, AfterFinally(j), "finallyRm")
       \/ at[j] = "finally" /\ owned[j] # "main"
          /\ Goto(j, AfterFinally(j)) /\ UNCHANGED disk
       \/ at[j] = "finallyRm" /\ Rmtree(j, "finallyPrune")
       \/ at[j] = "finallyPrune" /\ Prune(j, AfterFinally(j))
    /\ UNCHANGED <<args, owned, alone, sim, code>>

\* A baseline of 0 cycles is a ZeroDivisionError, which is exit code 1 too.
MutVerdict(s, ignoreX10) ==
    IF \/ ~ignoreX10 /\ s.base.x10 # 0
       \/ (s.cand.cycles - s.base.cycles) * 100 > MaxDelta * s.base.cycles
    THEN 1 ELSE 0
Verdict(s, ignoreX10) ==
    IF \/ ~ignoreX10 /\ (s.base.x10 # 0 \/ s.cand.x10 # 0)
       \/ s.base.cycles = 0
       \/ (s.cand.cycles - s.base.cycles) * 100 > MaxDelta * s.base.cycles
    THEN 1 ELSE 0

Compare(j) ==
    /\ at[j] = "compare"
    /\ Exit(j, Verdict(sim[j], args[j].ignoreX10))
    /\ UNCHANGED <<args, owned, alone, sim, disk>>

Kill(j) ==
    /\ Active(j)
    /\ Exit(j, Killed)
    /\ UNCHANGED <<args, owned, alone, sim, disk>>

CdStep(j) ==
    \/ ParseArgs(j) \/ VerifyCommit(j) \/ StaleCleanup(j) \/ WorktreeAdd(j)
    \/ BuildBaseline(j) \/ BuildCandidate(j) \/ RunBaseline(j) \/ RunCandidate(j)
    \/ Finally(j) \/ Compare(j) \/ Kill(j)

CdDone == (\A j \in Jobs : at[j] = "done") /\ UNCHANGED cdVars

CdNext == (\E j \in Jobs : CdStep(j)) \/ CdDone
CdSpec == CdInit /\ [][CdNext]_cdVars

-----------------------------------------------------------------------------
(* Properties.                                                             *)

\* Every variable of cycle_diff keeps its type; in particular a comparison is
\* reached only with both halt lines read.
CdTypeOK ==
    /\ at \in [Jobs -> Steps]
    /\ args \in [Jobs -> Args]
    /\ owned \in [Jobs -> {"no", "local", "main"}]
    /\ alone \in [Jobs -> BOOLEAN]
    /\ sim \in [Jobs -> [base : Runs \cup {NotRun}, cand : Runs \cup {NotRun}]]
    /\ \A j \in Jobs : at[j] = "compare" => NotRun \notin {sim[j].base, sim[j].cand}
    /\ code \in [Jobs -> {Running, 0, 1, 2, Killed}]
    /\ dir \in [Commits -> {"none", "empty", "built"}]
    /\ registered \in [Commits -> BOOLEAN]

\* Jobs of one commit that build, run and clean up in one directory, in any
\* order: once they have all ended, a worktree is left behind, as a directory or
\* as a registration, only by a job that was killed or whose baseline build
\* failed (main's finally block does not know the path then).
LeftBy(j) == Active(j) \/ code[j] = Killed \/ owned[j] = "local"
CdCleansUp ==
    \A c \in Commits : (dir[c] # "none" \/ registered[c]) =>
        \E j \in Jobs : Commit[j] = c /\ LeftBy(j)

\* What earlier jobs left behind does not stop a job that has the commit's
\* directory to itself: git worktree add is refused only when a job was killed
\* between rmtree and prune, and the binary it built is there when it is run.
CdRecovers ==
    \A j \in Jobs : (alone[j] /\ args[j].commit) =>
        /\ (at[j] = "add" /\ \A k \in Peers(j) : code[k] # Killed)
              => dir[Commit[j]] = "none" /\ ~registered[Commit[j]]
        /\ (at[j] = "add" => dir[Commit[j]] = "none")
        /\ at[j] \in {"buildCand", "runBase"} => dir[Commit[j]] = "built"

\* Exit code 0 means that both simulators ran to their halt line, in a job that
\* raised nothing on the way, and that the candidate keeps its budget.
CdPassMeasured ==
    \A j \in Jobs : code[j] = 0 =>
        /\ sim[j].base \in Runs /\ sim[j].cand \in Runs
        /\ sim[j].cand.cycles * 100 <= (100 + MaxDelta) * sim[j].base.cycles
        /\ ~args[j].ignoreX10 => sim[j].base.x10 = 0 /\ sim[j].cand.x10 = 0

=============================================================================
