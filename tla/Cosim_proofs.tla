---------------------------- MODULE Cosim_proofs ----------------------------
(***************************************************************************)
(* The control of the co-simulation runners, for every program, every      *)
(* defect of the design, every leftover of earlier invocations and every   *)
(* failure of a tool.                                                      *)
(***************************************************************************)
EXTENDS Cosim, TLAPS

\* What each step has made sure of: the inductive invariant.  A step is reached
\* only if every build step before it succeeded, so its inputs are this
\* invocation's files.
Fresh ==
    /\ stage \in {"gcc", "objcopy", "vmem", "kronos", "sail", "diff"} => files["src"] = This
    /\ stage \in {"objcopy", "vmem", "kronos", "sail", "diff"} => files["elf"] = This
    /\ stage \in {"vmem", "kronos", "sail", "diff"} => files["hex"] = This
    /\ (stage \in {"kronos", "sail", "diff"} /\ runner = "crv") => files["vmem"] = This
    /\ stage \in {"sail", "diff"} => files["ktrace"] = This
    /\ stage = "diff" => files["strace"] = This

Stages == {"generate", "gcc", "objcopy", "vmem", "kronos", "sail", "diff", "done"}

CosimInv == TypeOK /\ Fresh /\ ArtefactsKept

\* The comparison knows two exit codes.
LEMMA DiffCode == \A k, s, e : TraceDiffExit(k, s, e) \in {0, 1}
BY DEF TraceDiffExit

\* An invocation starts in a directory with files of nobody or an earlier one.
LEMMA CosimInit == Init => CosimInv
<1> SUFFICES ASSUME Init PROVE CosimInv
  OBVIOUS
<1>1. PICK old \in Leftovers :
         files = [f \in File |-> IF runner = "cosim" /\ f \in {"vmem", "diff"} THEN Nobody ELSE old]
  BY DEF Init
<1>2. files \in [File -> {Nobody, Earlier, This}]
  BY <1>1, CosimAssumption
<1>3. TypeOK
  BY <1>2 DEF Init, TypeOK, Running
<1>4. Fresh
  BY DEF Init, Fresh
<1>5. ArtefactsKept
  BY DEF Init, ArtefactsKept, Running
<1> QED
  BY <1>3, <1>4, <1>5 DEF CosimInv

\* A failure, an exception or a missing tool before the comparison leaves no
\* verdict of the CRV runner that promises artefacts.
LEMMA CosimStep == CosimInv /\ [Next]_vars => CosimInv'
<1> SUFFICES ASSUME CosimInv, [Next]_vars PROVE CosimInv'
  OBVIOUS
<1>0. TypeOK /\ Fresh /\ ArtefactsKept
  BY DEF CosimInv
<1> USE DEF TypeOK, Fresh, ArtefactsKept, Running, File, Nobody, Earlier, This
<1>1. CASE Generate
  BY <1>0, <1>1 DEF CosimInv, Generate, Goto
<1>2. CASE Gcc
  <2>1. TypeOK'
    <3>1. files' \in [File -> {Nobody, Earlier, This}] /\ runner' \in {"crv", "cosim"}
      BY <1>0, <1>2 DEF Gcc, BuildStep, ToolFailed, Exit, Raise, Goto
    <3>2. raised' \in BOOLEAN
      BY <1>0, <1>2 DEF Gcc, BuildStep, ToolFailed, Exit, Raise, Goto
    <3>3. stage' \in Stages /\ exit' \in {Running, 0, 1, 2} /\ ((exit' = Running) <=> (stage' # "done"))
      BY <1>0, <1>2 DEF Gcc, BuildStep, ToolFailed, Exit, Raise, Goto, Stages
    <3> QED
      BY <3>1, <3>2, <3>3 DEF Stages
  <2>2. Fresh'
    BY <1>0, <1>2 DEF Gcc, BuildStep, ToolFailed, Exit, Raise, Goto
  <2>3. ArtefactsKept'
    BY <1>0, <1>2 DEF Gcc, BuildStep, ToolFailed, Exit, Raise, Goto
  <2> QED
    BY <2>1, <2>2, <2>3 DEF CosimInv
<1>3. CASE Objcopy
  <2>1. TypeOK'
    <3>1. files' \in [File -> {Nobody, Earlier, This}] /\ runner' \in {"crv", "cosim"}
      BY <1>0, <1>3 DEF Objcopy, BuildStep, ToolFailed, Exit, Raise, Goto
    <3>2. raised' \in BOOLEAN
      BY <1>0, <1>3 DEF Objcopy, BuildStep, ToolFailed, Exit, Raise, Goto
    <3>3. stage' \in Stages /\ exit' \in {Running, 0, 1, 2} /\ ((exit' = Running) <=> (stage' # "done"))
      BY <1>0, <1>3 DEF Objcopy, BuildStep, ToolFailed, Exit, Raise, Goto, Stages
    <3> QED
      BY <3>1, <3>2, <3>3 DEF Stages
  <2>2. Fresh'
    BY <1>0, <1>3 DEF Objcopy, BuildStep, ToolFailed, Exit, Raise, Goto
  <2>3. ArtefactsKept'
    BY <1>0, <1>3 DEF Objcopy, BuildStep, ToolFailed, Exit, Raise, Goto
  <2> QED
    BY <2>1, <2>2, <2>3 DEF CosimInv
<1>4. CASE ObjcopyVmem
  <2>1. TypeOK'
    <3>1. files' \in [File -> {Nobody, Earlier, This}] /\ runner' \in {"crv", "cosim"}
      BY <1>0, <1>4 DEF ObjcopyVmem, BuildStep, ToolFailed, Exit, Raise, Goto
    <3>2. raised' \in BOOLEAN
      BY <1>0, <1>4 DEF ObjcopyVmem, BuildStep, ToolFailed, Exit, Raise, Goto
    <3>3. stage' \in Stages /\ exit' \in {Running, 0, 1, 2} /\ ((exit' = Running) <=> (stage' # "done"))
      BY <1>0, <1>4 DEF ObjcopyVmem, BuildStep, ToolFailed, Exit, Raise, Goto, Stages
    <3> QED
      BY <3>1, <3>2, <3>3 DEF Stages
  <2>2. Fresh'
    BY <1>0, <1>4 DEF ObjcopyVmem, BuildStep, ToolFailed, Exit, Raise, Goto
  <2>3. ArtefactsKept'
    BY <1>0, <1>4 DEF ObjcopyVmem, BuildStep, ToolFailed, Exit, Raise, Goto
  <2> QED
    BY <2>1, <2>2, <2>3 DEF CosimInv
<1>5. CASE ToolMissing
  BY <1>0, <1>5 DEF CosimInv, ToolMissing, Raise
<1>6. CASE RunKronos
  <2>1. /\ stage = "kronos" /\ UNCHANGED runner
        /\ files' = [files EXCEPT !["ktrace"] = files["hex"]]
        /\ Goto("sail") \/ Exit(IF runner = "crv" THEN 2 ELSE 1)
    BY <1>6 DEF RunKronos
  <2>2. TypeOK'
    <3>1. files' \in [File -> {Nobody, Earlier, This}] /\ runner' \in {"crv", "cosim"}
      BY <1>0, <2>1 DEF Goto, Exit
    <3>2. raised' \in BOOLEAN
      BY <1>0, <2>1 DEF Goto, Exit
    <3>3. stage' \in Stages /\ exit' \in {Running, 0, 1, 2} /\ ((exit' = Running) <=> (stage' # "done"))
      BY <1>0, <2>1 DEF Goto, Exit, Stages
    <3> QED
      BY <3>1, <3>2, <3>3 DEF Stages
  <2>3. Fresh'
    BY <1>0, <2>1 DEF Goto, Exit
  <2>4. ArtefactsKept'
    BY <1>0, <2>1 DEF Goto, Exit
  <2> QED
    BY <2>2, <2>3, <2>4 DEF CosimInv
<1>7. CASE RunSail
  <2>1. /\ stage = "sail" /\ UNCHANGED runner
        /\ files' = [files EXCEPT !["strace"] = files["elf"]] /\ Goto("diff")
    BY <1>7 DEF RunSail
  <2> QED
    BY <1>0, <2>1 DEF CosimInv, Goto
<1>8. CASE SailFails
  <2>1. TypeOK'
    <3>1. files' \in [File -> {Nobody, Earlier, This}] /\ runner' \in {"crv", "cosim"}
      BY <1>0, <1>8 DEF SailFails, ToolFailed, Exit, Raise
    <3>2. raised' \in BOOLEAN
      BY <1>0, <1>8 DEF SailFails, ToolFailed, Exit, Raise
    <3>3. stage' \in Stages /\ exit' \in {Running, 0, 1, 2} /\ ((exit' = Running) <=> (stage' # "done"))
      BY <1>0, <1>8 DEF SailFails, ToolFailed, Exit, Raise, Stages
    <3> QED
      BY <3>1, <3>2, <3>3 DEF Stages
  <2>2. Fresh'
    BY <1>0, <1>8 DEF SailFails, ToolFailed, Exit, Raise
  <2>3. ArtefactsKept'
    BY <1>0, <1>8 DEF SailFails, ToolFailed, Exit, Raise
  <2> QED
    BY <2>1, <2>2, <2>3 DEF CosimInv
<1>9. CASE Diff
  <2> DEFINE c == TraceDiffExit(KTraceFile, STraceFile, runner = "cosim")
  <2>1. c \in {0, 1}
    BY DiffCode
  <2>2. /\ stage = "diff" /\ UNCHANGED runner /\ Exit(c)
        /\ files' = [f \in File |->
                CASE runner = "crv" /\ c = 0 /\ f \in {"ktrace", "strace", "diff"} -> Nobody
                  [] runner = "crv" /\ c # 0 /\ f = "diff" -> This
                  [] OTHER -> files[f]]
    BY <1>9 DEF Diff
  <2> HIDE DEF c
  <2>3. TypeOK'
    <3>1. files' \in [File -> {Nobody, Earlier, This}] /\ runner' \in {"crv", "cosim"}
      BY <1>0, <2>1, <2>2 DEF Exit
    <3>2. raised' \in BOOLEAN
      BY <1>0, <2>1, <2>2 DEF Exit
    <3>3. stage' \in Stages /\ exit' \in {Running, 0, 1, 2} /\ ((exit' = Running) <=> (stage' # "done"))
      BY <1>0, <2>1, <2>2 DEF Exit, Stages
    <3> QED
      BY <3>1, <3>2, <3>3 DEF Stages
  <2>4. Fresh'
    BY <1>0, <2>1, <2>2 DEF Exit
  <2>5. ArtefactsKept'
    BY <1>0, <2>1, <2>2 DEF Exit
  <2> QED
    BY <2>3, <2>4, <2>5 DEF CosimInv
<1>10. CASE Done \/ UNCHANGED vars
  BY <1>0, <1>10 DEF CosimInv, Done, vars
<1> QED
  BY <1>1, <1>2, <1>3, <1>4, <1>5, <1>6, <1>7, <1>8, <1>9, <1>10 DEF Next

\* Whatever fails, an invocation has an exit code exactly when it is over, and
\* every file is somebody's.
THEOREM TypeCorrect == Spec => []TypeOK
<1>1. CosimInv => TypeOK
  BY DEF CosimInv
<1> QED
  BY <1>1, CosimInit, CosimStep, PTL DEF Spec

\* For every program, defect and leftover: trace_diff never reads a trace of an
\* earlier invocation.
THEOREM OwnTraces == Spec => []ComparesOwnTraces
<1>1. CosimInv => ComparesOwnTraces
  BY DEF CosimInv, Fresh, ComparesOwnTraces
<1> QED
  BY <1>1, CosimInit, CosimStep, PTL DEF Spec

\* The same for what the CRV runner leaves in the directory after a divergence
\* and after a pass.
THEOREM Artefacts == Spec => []ArtefactsKept
<1>1. CosimInv => ArtefactsKept
  BY DEF CosimInv
<1> QED
  BY <1>1, CosimInit, CosimStep, PTL DEF Spec

=============================================================================
