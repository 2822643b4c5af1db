----------------------------- MODULE TraceDiff -----------------------------
(***************************************************************************)
(* The comparison of two retire traces: tools/sail_trace_normalize.py      *)
(* turns the log of the Sail reference model into trace lines, and         *)
(* tools/trace_diff.py compares the lines of the Kronos simulator with     *)
(* them.                                                                   *)
(*                                                                         *)
(* A trace line is a record of what the text line says: the pc, the        *)
(* instruction word (the fields the scripts test), and the effects.  A     *)
(* register effect (x or f) and a csr effect are the value written, None   *)
(* if there is no such effect; a memory effect also says in which of the   *)
(* regions the scripts tell apart the address lies.                        *)
(***************************************************************************)
EXTENDS Integers, Sequences, SequencesExt

None == -1
NoMem == [at |-> "none", val |-> None]

(***************************************************************************)
(* sail_trace_normalize.py.  An event of the Sail log is a commit line or  *)
(* an effect line; "other" stands for every line no pattern matches.       *)
(***************************************************************************)

\* A commit line opens a new trace line; the one before it is complete.
Opened(ev) == [pc |-> ev.pc, instr |-> ev.instr,
               reg |-> None, mem |-> NoMem, csr |-> None]

\* One effect line added to the pending trace line; a write to x0 is dropped.
WithEffect(line, ev) ==
    CASE ev.ev = "reg" /\ ev.n # 0 -> [line EXCEPT !.reg = ev.val]
      [] ev.ev = "mem"             -> [line EXCEPT !.mem = [at |-> ev.at, val |-> ev.val]]
      [] ev.ev = "csr"             -> [line EXCEPT !.csr = ev.val]
      [] OTHER                     -> line

\* Effect lines before the first commit belong to no instruction.
NormalizeStep(lines, ev) ==
    IF ev.ev = "commit" THEN Append(lines, Opened(ev))
    ELSE IF lines = << >> THEN lines
    ELSE [lines EXCEPT ![Len(lines)] = WithEffect(@, ev)]

Normalize(log) == FoldLeft(NormalizeStep, << >>, log)

(***************************************************************************)
(* trace_diff.py                                                           *)
(***************************************************************************)

MutCsrWriteVisible(instr) == instr.opcode = "SYSTEM" /\ instr.funct3 \notin {0, 4}

\* _csr_write_visible: a Zicsr instruction that writes its CSR.
CsrWriteVisible(instr) ==
    /\ ~instr.rvc
    /\ instr.opcode = "SYSTEM"
    /\ instr.funct3 \notin {0, 4}
    /\ instr.funct3 % 4 = 1 \/ instr.rs1 # 0

\* The line strip_ignored builds ...
StripIgnored(line) ==
    [line EXCEPT !.mem = IF @.at \in {"halt", "sig"} THEN NoMem ELSE @,
                 !.csr = IF CsrWriteVisible(line.instr) THEN @ ELSE None]

\* ... EFFECT_RE, which knows no csr effect ...
HasEffect(line) == line.reg # None \/ line.mem # NoMem

\* ... and the cases in which it returns the empty string instead.
Dropped(line, stripNoeffect) ==
    /\ line.mem # NoMem \/ stripNoeffect
    /\ ~HasEffect(StripIgnored(line))

\* load: up to the halt sentinel, without the empty lines.
Load(file, stripNoeffect) ==
    LET halt == SelectInSeq(file, LAMBDA l : l.mem.at = "halt")
        kept == SelectSeq(IF halt = 0 THEN file ELSE SubSeq(file, 1, halt - 1),
                          LAMBDA l : ~Dropped(l, stripNoeffect))
    IN  [i \in DOMAIN kept |-> StripIgnored(kept[i])]

PcInstr(line) == <<line.pc, line.instr>>

MutForCompare(line) == <<line.pc, line.reg, line.csr>>

\* for_compare: the encoding is not compared.
ForCompare(line) == <<line.pc, line.reg, line.mem, line.csr>>

\* The first Sail line with the pc and the word of the first Kronos line, or
\* else the first with its pc; 0 if there is none.
SyncPoint(a, b) ==
    LET exact == SelectInSeq(b, LAMBDA l : PcInstr(l) = PcInstr(a[1]))
    IN  IF exact # 0 THEN exact ELSE SelectInSeq(b, LAMBDA l : l.pc = a[1].pc)

\* main: the exit code for the files of the two traces.
TraceDiffExit(kronos, sail, stripNoeffect) ==
    LET a == Load(kronos, stripNoeffect)
        b == Load(sail, stripNoeffect)
    IN  IF a = << >> \/ SyncPoint(a, b) = 0 THEN 1
        ELSE LET c == SubSeq(b, SyncPoint(a, b), Len(b))
             IN  IF /\ \A i \in DOMAIN a \cap DOMAIN c : ForCompare(a[i]) = ForCompare(c[i])
                    /\ Len(a) = Len(c)
                 THEN 0 ELSE 1
=============================================================================
