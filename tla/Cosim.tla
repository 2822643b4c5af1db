------------------------------- MODULE Cosim -------------------------------
(***************************************************************************)
(* One invocation of a co-simulation runner, tools/crv/runner.py or        *)
(* tools/cosim_fuzz/runner.py: build a program, run it on the Kronos       *)
(* simulator and on Sail, compare the traces.  The work directory is named *)
(* after the program and survives, so it may hold the files of an earlier  *)
(* invocation; any external tool may fail or be missing.                   *)
(*                                                                         *)
(* A program is what it makes the machine do: the sequence of instructions *)
(* executed, each with its pc, kind and the value it computes.             *)
(***************************************************************************)
EXTENDS TraceDiff

CONSTANTS Kinds,        \* instruction kinds the programs are made of
          MaxLen,       \* bound on the instructions executed before the halt
          Leftovers     \* who may have left files in the directory: Nobody, Earlier

Nobody == 0
Earlier == 1            \* an earlier invocation with the same name
This == 2
Running == 9

ASSUME CosimAssumption == MaxLen \in Nat \ {0} /\ Leftovers \subseteq {Nobody, Earlier}

VARIABLES runner,       \* which script runs: "crv" or "cosim"
          prog,         \* the program this invocation builds
          stage,        \* the step the script is at
          files,        \* file -> the invocation that wrote it (Nobody: no such file)
          dut,          \* what Kronos did, one event per retired instruction
          log,          \* the log Sail wrote
          exit,         \* exit code, Running until the script ends
          raised        \* it ended by an uncaught exception

vars == <<runner, prog, stage, files, dut, log, exit, raised>>

File == {"src", "elf", "hex", "vmem", "ktrace", "strace", "diff"}

-----------------------------------------------------------------------------
(* What the instructions do.  A jump writes x0, csrw is csrrw x0, csrr is  *)
(* csrrs with rs1 = x0, csrrw has a destination; fp raises a flag.         *)

WritesReg(k) == k \in {"alu", "calu", "csrr", "csrrw", "fp"}
WritesCsr(k) == k \in {"csrw", "csrrw"}
ImplicitCsr(k) == k \in {"fp", "ecall"}

Region(k) == CASE k = "store" -> "ram" [] k = "sig" -> "sig" [] k = "halt" -> "halt"
               [] OTHER -> "none"

Word(k) ==
    [rvc    |-> k = "calu",
     opcode |-> IF k \in {"csrw", "csrr", "csrrw", "ecall"} THEN "SYSTEM" ELSE "OTHER",
     funct3 |-> CASE k \in {"csrw", "csrrw"} -> 1 [] k = "csrr" -> 2 [] OTHER -> 0,
     rs1    |-> IF k = "csrr" THEN 0 ELSE 1]

\* The architectural effects of an instruction.
Event(i) == [pc |-> i.pc, kind |-> i.kind,
             reg |-> IF WritesReg(i.kind) THEN i.val ELSE None,
             mem |-> IF Region(i.kind) = "none" THEN NoMem
                     ELSE [at |-> Region(i.kind), val |-> i.val],
             csr |-> IF WritesCsr(i.kind) THEN i.val ELSE None]

Events(p) == [i \in DOMAIN p |-> Event(p[i])]

\* A program runs MaxLen instructions at most; a pc holds one instruction, so a
\* pc met again is a loop and executes the same kind.
Programs ==
    LET Instrs == [pc : 1..MaxLen, kind : Kinds, val : 0..1]
    IN  {p \in UNION {[1..n -> Instrs] : n \in 1..MaxLen} :
           \A i \in DOMAIN p :
             /\ p[i].pc = 1 \/ \E j \in 1..(i-1) : p[j].pc = p[i].pc - 1
             /\ \A j \in 1..(i-1) : p[j].pc = p[i].pc => p[j].kind = p[i].kind
             /\ (p[i].val = 1) => \E j \in 1..(i-1) : p[j].pc = p[i].pc}

Halt == [pc |-> MaxLen + 1, kind |-> "halt", val |-> 0]
Spin == [pc |-> MaxLen + 2, kind |-> "jal", val |-> 0]

\* Sail logs a commit per instruction and then its effects, implicit CSR writes
\* and writes to x0 among them, and spins after the halt up to its limit.
SailEvents(i) ==
    LET e == Event(i) IN
    << [ev |-> "commit", pc |-> i.pc, instr |-> Word(i.kind)] >>
    \o (IF e.reg # None THEN << [ev |-> "reg", n |-> 1, val |-> e.reg] >> ELSE << >>)
    \o (IF i.kind = "jal" THEN << [ev |-> "reg", n |-> 0, val |-> i.val] >> ELSE << >>)
    \o (IF e.mem # NoMem THEN << [ev |-> "mem", at |-> e.mem.at, val |-> e.mem.val] >> ELSE << >>)
    \o (IF e.csr # None \/ ImplicitCsr(i.kind)
        THEN << [ev |-> "csr", val |-> i.val] >> ELSE << >>)

SailLog(p) == << [ev |-> "other"], [ev |-> "reg", n |-> 1, val |-> 0] >>
              \o FlattenSeq([i \in DOMAIN p |-> SailEvents(p[i])])
              \o SailEvents(Halt) \o SailEvents(Spin)

\* sim_main.cpp prints the decompressed word and, for every Zicsr instruction,
\* the csr effect.
KronosLine(e) ==
    [pc |-> e.pc, instr |-> [Word(e.kind) EXCEPT !.rvc = FALSE],
     reg |-> e.reg, mem |-> e.mem,
     csr |-> IF e.kind = "csrr" THEN e.reg ELSE e.csr]

KronosTrace(d) == [i \in DOMAIN d |-> KronosLine(d[i])]

\* A defect of the design: one instruction writes a wrong value, or is lost.
Flip(v) == IF v = None THEN v ELSE 1 - v
Wrong(d, i) == [d EXCEPT ![i].reg = Flip(@), ![i].csr = Flip(@),
                         ![i].mem = IF @ = NoMem THEN @ ELSE [@ EXCEPT !.val = Flip(@)]]
Defects(d) == {d} \union {Wrong(d, i) : i \in DOMAIN d}
                  \union {RemoveAt(d, i) : i \in DOMAIN d}

-----------------------------------------------------------------------------
(* The scripts.                                                            *)

Init ==
    /\ runner \in {"crv", "cosim"}
    /\ prog \in Programs
    /\ stage = "generate"
    /\ \E old \in Leftovers :
         files = [f \in File |-> IF runner = "cosim" /\ f \in {"vmem", "diff"} THEN Nobody ELSE old]
    /\ dut = << >> /\ log = << >>
    /\ exit = Running
    /\ raised = FALSE

Exit(code) == stage' = "done" /\ exit' = code /\ raised' = FALSE

\* An uncaught exception; Python then exits with 1.
Raise == stage' = "done" /\ exit' = 1 /\ raised' = TRUE

\* A tool ended with a failure: crv looks at the code and returns 2, cosim's
\* check=True raises.
ToolFailed == IF runner = "crv" THEN Exit(2) ELSE Raise

Goto(s) == stage' = s /\ UNCHANGED <<exit, raised>>

\* crv: generate_program writes prog.S; cosim: mutate_file and write_text.
Generate ==
    /\ stage = "generate"
    /\ files' = [files EXCEPT !["src"] = This]
    /\ Goto("gcc")
    /\ UNCHANGED <<runner, prog, dut, log>>

MutBuildStep(at, in, out, next) ==
    /\ stage = at
    /\ files' \in {files, [files EXCEPT ![out] = files[in]]}
    /\ Goto(next)
    /\ UNCHANGED <<runner, prog, dut, log>>

\* A build tool reads one file and writes another, or fails and writes nothing.
BuildStep(at, in, out, next) ==
    /\ stage = at
    /\ \/ files' = [files EXCEPT ![out] = files[in]] /\ Goto(next)
       \/ files' = files /\ ToolFailed
    /\ UNCHANGED <<runner, prog, dut, log>>

Gcc == BuildStep("gcc", "src", "elf", "objcopy")
Objcopy == BuildStep("objcopy", "elf", "hex", IF runner = "crv" THEN "vmem" ELSE "kronos")
ObjcopyVmem == BuildStep("vmem", "elf", "vmem", "kronos")

\* The program a step calls does not exist: subprocess.run itself raises.  By
\* then cosim's run_sail has opened, and so emptied, its output file.
ToolMissing ==
    /\ stage \in {"gcc", "objcopy", "vmem", "kronos", "sail", "diff"}
    /\ files' = IF stage = "sail" /\ runner = "cosim" THEN [files EXCEPT !["strace"] = This]
                ELSE files
    /\ Raise
    /\ UNCHANGED <<runner, prog, dut, log>>

\* Kronos truncates the trace file, then retires the program without a startup
\* prefix; it halts with x10 = 0 (its halt store may or may not be traced), or
\* it stops otherwise (bad x10, cycle limit, cosim's timeout) with a part of it.
RunKronos ==
    /\ stage = "kronos"
    /\ \E missed \in 0..1, d \in Defects(Events(prog)), drained \in BOOLEAN, ok \in BOOLEAN :
         /\ missed <= Len(d)
         /\ dut' = SubSeq(d, missed + 1, Len(d)) \o (IF drained THEN <<Event(Halt)>> ELSE << >>)
         /\ ok \/ ~drained
         /\ files' = [files EXCEPT !["ktrace"] = files["hex"]]
         /\ IF ok THEN Goto("sail") ELSE Exit(IF runner = "crv" THEN 2 ELSE 1)
    /\ UNCHANGED <<runner, prog, log>>

\* Where a log may end: nowhere, before an instruction, or at its end.
Cuts(l) == {0} \union {n \in 0..Len(l) : n = Len(l) \/ (n > 0 /\ l[n + 1].ev = "commit")}

\* sail_trace.sh hides a failure of Sail: the log is then cut, possibly empty.
\* crv writes the file when the script has ended, cosim opens it first.
RunSail ==
    /\ stage = "sail"
    /\ \E n \in Cuts(SailLog(prog)) : log' = SubSeq(SailLog(prog), 1, n)
    /\ files' = [files EXCEPT !["strace"] = files["elf"]]
    /\ Goto("diff")
    /\ UNCHANGED <<runner, prog, dut>>

SailFails ==
    /\ stage = "sail"
    /\ files' = IF runner = "crv" THEN files ELSE [files EXCEPT !["strace"] = This]
    /\ ToolFailed
    /\ UNCHANGED <<runner, prog, dut, log>>

\* The contents of a trace file: what this invocation wrote, or an old trace.
KTraceFile == IF files["ktrace"] = This THEN KronosTrace(dut) ELSE << >>
STraceFile == IF files["strace"] = This THEN Normalize(log) ELSE << >>

MutDiff ==
    /\ stage = "diff"
    /\ Exit(TraceDiffExit(KTraceFile, STraceFile, runner = "cosim"))
    /\ files' = [f \in File |-> IF runner = "crv" /\ f \in {"ktrace", "strace", "diff"}
                                THEN Nobody ELSE files[f]]
    /\ UNCHANGED <<runner, prog, dut, log>>

\* crv keeps the diff and, on a pass, removes the traces; cosim keeps all.
Diff ==
    /\ stage = "diff"
    /\ LET code == TraceDiffExit(KTraceFile, STraceFile, runner = "cosim")
       IN  /\ Exit(code)
           /\ files' = [f \in File |->
                CASE runner = "crv" /\ code = 0 /\ f \in {"ktrace", "strace", "diff"} -> Nobody
                  [] runner = "crv" /\ code # 0 /\ f = "diff" -> This
                  [] OTHER -> files[f]]
    /\ UNCHANGED <<runner, prog, dut, log>>

Done == stage = "done" /\ UNCHANGED vars

Next == \/ Generate \/ Gcc \/ Objcopy \/ ObjcopyVmem
        \/ ToolMissing \/ RunKronos \/ RunSail \/ SailFails \/ Diff \/ Done

Spec == Init /\ [][Next]_vars

-----------------------------------------------------------------------------
(* Properties.                                                             *)

\* The state of an invocation keeps its type, and it has an exit code exactly
\* when it is over, whichever tool failed, timed out or was not installed.
TypeOK ==
    /\ runner \in {"crv", "cosim"}
    /\ stage \in {"generate", "gcc", "objcopy", "vmem", "kronos", "sail", "diff", "done"}
    /\ files \in [File -> {Nobody, Earlier, This}]
    /\ exit \in {Running, 0, 1, 2} /\ raised \in BOOLEAN
    /\ (exit = Running) <=> (stage # "done")

\* What a passing diff vouches for in a sequence of events: register writes,
\* memory writes outside the halt and signature areas, and explicit CSR
\* writes; with --strip-noeffect only for instructions with one of the former.
Compared(e) == [pc |-> e.pc, reg |-> e.reg,
                mem |-> IF e.mem.at = "ram" THEN e.mem ELSE NoMem,
                csr |-> e.csr]
HasData(e) == e.reg # None \/ e.mem.at = "ram"
Observed(d) == LET seen == SelectSeq(d, LAMBDA e : HasData(e) \/ (runner = "crv" /\ e.csr # None))
               IN  [i \in DOMAIN seen |-> Compared(seen[i])]

\* Sail's account of the program, when it was not cut before the halt.
SailComplete == Len(log) > Len(SailLog(prog)) - Len(SailEvents(Spin)) - 1

\* No escape: exit 0 means that what Kronos did, from its first traced
\* instruction on, is what the reference does from some point of the program.
NoEscape ==
    (exit = 0 /\ SailComplete) =>
        \E s \in 1..Len(prog) : Observed(SubSeq(Events(prog), s, Len(prog))) = Observed(dut)

\* No false alarm: a Kronos that does what the reference does, and only misses
\* a startup prefix that is not executed again, passes, whatever encodings,
\* read-only CSR reports and implicit CSR writes the two traces differ in.
Healthy == \E m \in 0..Len(prog) :
    /\ dut \in {SubSeq(Events(prog), m + 1, Len(prog)),
                SubSeq(Events(prog), m + 1, Len(prog)) \o <<Event(Halt)>>}
    /\ \A i \in 1..m, j \in (m + 1)..Len(prog) : prog[i].pc # prog[j].pc

NoFalseAlarm ==
    (stage = "done" /\ ~raised /\ SailComplete /\ Healthy /\ Observed(dut) # << >>) => exit = 0

\* The traces compared were made by this invocation, from this program: no file
\* an earlier invocation left in the directory reaches the comparison.
ComparesOwnTraces ==
    stage = "diff" => files["ktrace"] = This /\ files["strace"] = This

\* What the CRV runner leaves: on a divergence every artefact of it; on a pass
\* no trace, and the program image the coverage testbench reads next.
ArtefactsKept ==
    runner = "crv" =>
        /\ (exit = 1 /\ ~raised) => \A f \in File : files[f] = This
        /\ exit = 0 => /\ \A f \in {"ktrace", "strace", "diff"} : files[f] = Nobody
                       /\ files["src"] = This /\ files["vmem"] = This

=============================================================================
