# A TLA+ verification of kronos-riscv

kronos-riscv is an in-order RV64IMAFDC core grown in stages; stage 7, the current one, has nine
pipeline stages, a branch-predicting front end, split caches, Sv39 translation, an FPU with a
write-back scoreboard and machine/supervisor/user privilege. Around it stand the Python tools that
decide whether a change of the core is good: a random program generator, the comparison with the
Sail reference model, the coverage gates, the cycle comparison, the rule checker and the reference
models of the FPU. This directory models both:

- of stage 7, the parts whose correctness depends on what coincides in a clock cycle: the pipeline
  control, the data side and the multi-cycle units. A step is one rising edge of the single clock
  (`clk_i`); the nondeterminism is which stalls, bus handshakes, instructions, predictions and
  operands a cycle brings;
- of the tools, what a green result means: that no tool failure, leftover file, overlapping
  invocation or unlucky random choice turns a failing design into a pass or a good one into a
  failure. A step is a subprocess, a file operation, a loop iteration or a drawn instruction.

## 1. Inventory

| Component (source) | State | Operations | Talks to | What is hard, and what makes it correct |
|---|---|---|---|---|
| Fetch buffer (`common/kronos_fetch_buffer.sv`) | ring storage, head, tail, count | push, pop, both, flush | I-cache pushes, predecode pops, every redirect flushes | count and pointers are updated by separate code; it must be a bounded FIFO |
| I-cache, fetch (`stage7/kronos_icache.sv`, `kronos_top.sv` 1840-2083) | S1/S2 registers, tags, refill FSM, squash latch | lookup, refill, critical-word bypass, FENCE.I flush | redirects kill S1/S2, iTLB, AXI | a redirect inside a refill: the word bypassed later must not reach the buffer |
| Predecode, RVC (`common/kronos_predecode.sv`, `kronos_decompress.sv`) | held half word | align 16/32-bit instructions | fetch buffer, branch predictor | an instruction across two words and a redirect between them |
| Branch predictor (`common/kronos_bpred.sv`) | BTB, 2-bit counters, RAS | predict, update | fetch, EX1 resolution | tags drop low PC bits; a prediction can hit a non-branch |
| Pipeline control (`stage7/kronos_top.sv`) | eight pipeline registers, `ex_redirect_q`, `mem_redirect_q`, `fence_i_redirect_q`, `pred_taken_q` | advance, hold, flush each register; redirect; retire | everything | registers are cleared, held and advanced under different conditions in one cycle |
| Hazard unit (`stage7/kronos_hazard.sv`) | none | load-use, JALR, CSR, FRM hazards; priority chain | all enables and flushes | two stalls of different strength at once |
| Forwarding (`stage7/kronos_forward.sv`, bypass mux in top) | registered select | select at ID, use at RR | all later stages | the select is one cycle old when used |
| Multiply/divide (`common/kronos_muldiv.sv`) | FSM, operand, product and divider registers | request, iterate, answer | EX1 stalls on it | registers kept between operations; a flushed operation goes on |
| FPU (`common/fpu/*`) | per-unit pipelines, scoreboard, iterative FSM | dispatch, reserve slot, write back | EX1, FP register file | one result port for units of different latency |
| Data cache (`stage7/kronos_dcache.sv`) | 15-state FSM, valid/dirty, block RAMs and read registers, RAW bypass registers, reservation | load, store, LR, SC, AMO, refill, write-back, uncached access, flush walk, walker port | LSU, walker, AXI | block RAMs answer a cycle late and are read a stage early; one-cycle completion pulses |
| LSU (`stage7/kronos_lsu.sv`) | `mem_done_q` (in top) | request once, hold, complete | MEM2, data cache | a response that coincides with a stall elsewhere |
| FENCE.I drain (`kronos_top.sv` 761-801) | `fence_i_active_q` | flush the D-cache, then reload the I-cache | EX2, both caches | older stores still on their way |
| TLBs, walker (`stage7/kronos_tlb.sv`, `kronos_ptw.sv`) | entries, PLRU; walk FSM | lookup, refill, sfence; walk, A/D update by LR/SC | MEM1/MEM1B, D-cache priority port | the walker interrupts the core's use of the cache |
| CSR file, traps (`stage7/kronos_csr.sv`) | CSRs, privilege | read at EX1, write at WB, trap, xRET, delegation | EX1, WB, fetch | read and write are five stages apart |
| PMP, triggers (`stage7/kronos_pmp.sv`, `common/kronos_trigger.sv`) | configuration | match | fetch, MEM2 | range boundaries |
| Decoders, ALU | none | combinational | ID, EX1 | tables and arithmetic |
| Trace comparison (`tools/trace_diff.py`, `sail_trace_normalize.py`) | none | normalise, strip, align, compare | the runners | two simulators that trace by different rules: neither an error may escape nor a good design fail |
| Co-simulation runners (`tools/crv/runner.py`, `tools/cosim_fuzz/runner.py`, `sail_trace.sh`) | work directory | generate, build, simulate, run Sail, compare, clean up | compiler, simulator, Sail, trace comparison | any tool fails or is missing; the directory is full of an earlier run's files |
| CRV generator (`tools/crv/`: generator, encoding, memory, regfile, eight scenarios) | live registers, loop counters, emitted list | one round per instruction or group; weaving of labels | runners assemble and run the result | the program must assemble, end, and stay in its memory, for every seed |
| Cycle comparison (`tools/cycle_diff.py`) | git worktree under `/tmp`, git's registration of it | verify, clean up, add, build, run twice, remove, compare | git, make, simulator; other invocations through the shared path | failures and kills between any two steps; two jobs in one directory |
| Coverage (`tools/crv_cov_merge.py`, `coverage_gate.py`, `sim-crv-coverage` in `sim/Makefile`) | coverage files of the scenarios | run, merge, gate | testbenches | missing, partial and old files |
| RTL rule checker (`scripts/check_rtl_rules.py`) | nesting counters and a stack | read a line | pre-commit hook | pushes before pops, stray ends |
| FPU references (`tb/stage5/ref/`) | remainder and digits | digit loops of division and root | FPU testbenches | a wrong reference hides a wrong unit |
| Earlier stages, text utilities, C++ driver | - | - | - | section 8 |

`PROJECT.json` lists each of them with its status, and the hazards at the lines where they bite.

## 2. Modules

| Module | Models | State and actions |
|---|---|---|
| `FetchQueue` | the promise of the fetch buffer | a sequence of at most `DEPTH` entries; push, pop, exchange, flush |
| `FetchBuffer` | `kronos_fetch_buffer` | pointers, count, storage; `Transfer` and `Flush`; refines `FetchQueue` |
| `Instr` | what a pipeline register carries | instruction classes, what fetch can deliver |
| `Forward`, `Hazard` | `kronos_forward`, `kronos_hazard` | operators; the priority chain becomes the *mode* of the cycle |
| `Pipeline` | control and bypass of `kronos_top` | one action, `Clock`, for the edge; inputs: the stalls from outside (`stall`; `mem_stall` is the data side's part of it), interrupt, the pulse of a FENCE.I, what predecode presents and whether it has more, whether the multiplier finishes |
| `Muldiv` | `kronos_muldiv` | one action per FSM state, at any even width |
| `DCache` | `kronos_dcache`, `kronos_ram` | one operator per FSM arm, composed by `DCacheEdge` |
| `DataSide` | LSU, FENCE.I drain and walker of `kronos_top` around `DCache` | `Clock`: the memory operations in EX2..MEM2, the cache, the walker |
| `TraceDiff` | `trace_diff.py`, `sail_trace_normalize.py` | operators on trace lines: `Normalize` (a fold over the Sail log), `Load`, `SyncPoint`, `TraceDiffExit` |
| `Cosim` | both runners around `TraceDiff` | `stage` of the script, `files` with their origin, what Kronos did (`dut`), Sail's `log`; one action per subprocess, with its failure, and `ToolMissing` |
| `CrvIsa` | `encoding.py`, `memory.py`, pointer set-up | instruction records, range checks, `Upper`/`Lower`, `Clamp` |
| `CrvProgram` | generator, register state and the eight scenarios | the loop's counters and live registers; one action per kind of append; for the program with branches `WeaveLabel`, `WeaveInstr` and `EndWeave`, then `RunStep` |
| `CycleDiff` | `cycle_diff.py` | per job the step, arguments, ownership of the path, results; per commit directory and registration; one action per step, and `Kill` |
| `CoverageGate` | merge, gate and their recipe | files per scenario, merged file, LCOV file and the position, flag and counters of its reader; `RunTestbench`, `Merge`, `RunFunctional`, `ReadInfoLine`, `RunLine` |
| `RtlRules` | `check_file` | nesting, stack, reported lines; `ReadLine` |
| `SrtRef` | `srt_divide.py`, `srt_sqrt.py` and their callers | remainder, digits; one action per call, digit and return |
| `CiTools` | the four tools above side by side | one behaviour runs one of them |
| `FetchBuffer_proofs`, `Pipeline_proofs`, `Muldiv_proofs`, `Cosim_proofs`, `CrvProgram_proofs`, `CiTools_proofs`, `SrtRef_proofs`, `DataSide_proofs` | theorems | section 4 |
| `MC*` | instances for TLC | |

**Abstraction of data.** In `Pipeline` a program counter is a position in the stream the program
architecturally executes (`Wrong` beyond an unresolved redirect) and a data value is the position
of the instruction that produced it; so order, loss, duplication and forwarding are all visible as
positions, and no instruction encoding is needed. What an instruction will turn out to do (a
direction mispredict, a redirect at MEM2) is decided when it is fetched, because nothing in the
pipeline reads it before EX1 and MEM2. A filler that reads and writes nothing stands for the rest
of the program. One operand stands for both: the code has two identical copies. Position is
assigned at fetch, hence the variables `writer`, `csr_writer`, `fetched` and `retired`, which no
code variable reads. The front end is reduced to the next fetch position and `align_instr_valid`.
The stalls of the data side, the FPU and a dTLB miss are one arbitrary input, `stall`, because the
enables and flushes see their disjunction; `mem_stall` is the data side's share, kept apart because
it alone gates the multiplier's request (`kronos_top.sv:996`). So whatever `DataSide` does is
covered. The multiplier's result carries the position of the instruction it was started for.

FENCE.I is an instruction of its own, because its third redirect source behaves as no other: the
decoder does not know the opcode, so it traps at MEM2, but in EX2 it raises `fence_i_pulse`, which
empties the front end at once, and a cycle later `fence_i_redirect_q`, which clears the front of the
pipeline and rebases fetch behind the FENCE.I. What is fetched there is `Wrong`, since the trap is
what comes next. The pulse may come in a stalled cycle too: at the end of the drain, which `DataSide`
models, or during a dTLB miss (`Pulses`).

In `DCache` a beat is one word (byte strobes and load extension left out), AMOSWAP stands for the
AMOs, tree-PLRU is an arbitrary victim, and the AXI slave acts at the handshake. The block RAMs
keep their one-cycle latency and their read-old behaviour, both RAW bypass tiers and the tag
bypass are there, and the read is pre-launched from MEM1B as in the code. The response of a
write-back is not awaited, as in the code. In `DataSide` the walks are the iTLB's, which run
beside memory operations, and have one level; `hold` is a fetch, FPU or multiply stall of the rest
of the core. A store writes any word of `Data`; `data_core` has two, besides the initial one of
memory, so that a load can return an older store's word and `ReadsLatest` see it. The bus's handshake
and the victim matter only outside and inside IDLE, where alone the code reads them (`Handshakes`,
`Victims`).

`Muldiv` takes any even width; the W forms have half of it. Only requests the decoder accepts are
made (`MULHW` and the like do not exist).

In `Cosim` a program is the sequence of instructions it executes, each with a pc, one of ten kinds
(register, compressed, store, signature store, jump, the three CSR forms, floating point, trap) and
a value; a pc met again is a loop. A file is the invocation that wrote it: the only thing that
matters of its contents is whose they are, except for the two traces. A defect of the design is a
wrong value of one instruction, or a lost one. Sail's log may end before any instruction, because
the wrapper script hides its failure.

In `CrvProgram` the random generator is nondeterminism: a register is any candidate, an integer
either end of its range (the properties are about ranges, so the ends decide). An instruction runs
as it is appended; values are addresses, `Undef`, `Unknown`, or the saved `ra` and `sp`. Branch
programs are kept, woven with their labels position by position and then run; `ipc` counts the
positions of the first list, then those of the woven one. A source `rs` stands for any one of an
instruction's sources.

In `CycleDiff` the directory and git's registration are two variables because the code treats them
as one: `git worktree add` refuses either, `cleanup_worktree` looks at the directory only.
`alone` is a history variable that says which jobs the recovery property is about.

`SrtRef` keeps the code's arithmetic with `2 * H` in place of 52 and the digit counts as constants.

## 3. Runs

| Run | Instance | What it shows |
|---|---|---|
| `fetch_buffer` | depth 4, three words | the ring is a FIFO that a redirect empties, over several laps |
| `pipeline_order` | 3 instructions of seven classes, FENCE.I among them, 2 registers, no predictions | order, squashing, forwarding, CSR waiting |
| `pipeline_speculation` | 4 of multiplication, branch, system; predictions right and wrong in direction and target | order under speculation, and squashing until a redirect is lost (`OrderUnlessLost`, section 6); the multiplier's result goes to its owner; who may lose a retirement strobe |
| `pipeline_live` | 2 instructions of six classes, fairness | every fetched instruction retires |
| `muldiv` | 4 bits, any operation followed by any on boundary operands | results are those of the M extension, the division loop's invariant, exact latency |
| `data_core` | 2 sets, 2 ways, 2 beats, 2 tags, 3 operations, stores of 2 words | one copy of a line, no lost or invented word, reads return the last store's word and no older one's, FENCE.I drains |
| `data_all` | one line, cached and uncached tag, all six operations, one walk, bus errors, fairness | uncached addresses never allocate; no operation stays in MEM2 |
| `cosim` | programs of up to 3 executed instructions of ten kinds, both runners, a directory full of old files | no defect escapes, no healthy design fails, own traces only, artefacts kept |
| `crv_programs` | eight scenarios, 7 registers, length 4 (6 for muldiv) | programs assemble, link, return, stay in their regions, keep their spacing, read written registers but for two named cases |
| `ci_tools` | 2 jobs of one commit, cycle counts 0, 2, 3 with a 50 % budget; 2 scenarios with 2 bins, LCOV files up to 4 lines; files up to 5 lines for the checker; `H` = 2 with 3 and 8 digits | worktree cleanup and recovery, honest verdicts, exact gates, exact reports, exact quotients and roots |
| `amo_load`, `lost_multiplication` | two or three operations | disagreements, section 6 |

**Why the bounds are enough.** An operation lives for eight stages and fillers are unlimited, so
three instructions can stand at every distance from one another, with any stall pattern between
them; the hazards of section 1 involve a producer, a consumer and one instruction that redirects.
`pipeline_speculation` takes four, because with multiplications a redirect, a mispredicted branch
behind it, a wrong-path multiplication behind that one and what then reaches MEM2 have to meet: with
three, `NoWrongPathAtMem2` holds by the bound. The theorem `OrderKept` removes it.
Two registers are the x0 that is never forwarded and one that is. A queue of four entries wraps
with any of its states. Three memory operations are an evicted line, its evictor and a reader;
two sets and two ways make the flush walk cross both. With two words to store, two stores to one
address and a load tell the two RAW bypass tiers apart: with the tiers swapped the load returns the
first store's word. Without walks and SC the two words are interchangeable, so `data_core` takes
them as a symmetry set. The uncached run needs an operation and a
follower that finds the cache busy or the pulse still high. Four bits hold both signs, both
`INT_MIN`s and both -1s; the second operation takes boundary operands, because what the first one
leaves behind does not depend on them. Each bound is a constant (`MaxInstr`, `MaxOps`,
`MaxWalks`, `Later`).

Three executed instructions are a missed startup line, a loop of two turns and the line after it,
which is what the alignment of traces can get wrong; a defect needs one line. Six instructions hold
a muldiv, the four of its gap and the next muldiv; four registers beyond x0, ra and sp are the ones
some scenario reserves (t0, t1, a0, a1). Two jobs are a victim and a culprit; the theorems remove
this bound. Cycle counts 2 and 3 stand exactly on the budget, 0 is the division by zero. Five lines
are an always block, two nested blocks, an else and a declaration. With `H` = 2 the operands are
all 5-bit significands and 3 digits relate to `H` as single's 27 to 26 (the cut-off digits begin
right after the last kept one), 8 as double's 56.

The type invariants of `FetchBuffer`, `Pipeline`, `Muldiv`, `DataSide`, `Cosim` and `CycleDiff` are
theorems, and `GenInv` types the registers of `CrvProgram`.
The runs are spent on the properties that can fail.

Predictions and loads are not in the same passing run, nor multiplications and loads, predictions
and jumps, faulting loads and their readers, multiplications and FENCE.I: there the code
disagrees with the property (section 6), and a run that mixes them can only show that again. What
still holds of all of them together is `OrderUnlessLost`, which is proved. In the same way
`ReadsLatest` and `Coherent` are checked without AMO and SC.

**Fairness.** `Pipeline`: weak fairness of an edge at which nobody stalls (`Unstalled`: memory
answers, the front end delivers, the multiplier finishes), and strong fairness of such an edge while
an instruction is presented. The strong part is needed since a FENCE.I that waits in EX2 may pulse
and empty the front end in every second cycle: weak fairness would let the data side stall in just
the other ones. The code justifies it, because no stall of the data side, the FPU or the TLB waits
for the front end to be empty: each ends by itself, whatever is presented. `DataSide`: weak fairness
of an edge at which the bus handshakes, answers OKAY and nothing else stalls (`Served`). The clock
is synchronous, so an edge always comes; that the slave answers is the AXI protocol's obligation;
the multiplier finishes by `AnswersInTime`. Bus errors may happen any finite number of times in a
row.

The passing runs check for deadlock, which here means a cycle without a defined successor.

## 4. Proofs

`FetchBuffer_proofs` (for every depth and word set): `TypeCorrect`; `PointersAlwaysAgree`, the
tail is always `count` places behind the head around the ring. The second is inductive given the
first; the cases are push, pop, both and flush, and the wrap of either pointer.
`BufferImplementsQueue`: the buffer implements `FetchQueue`. The mapped queue, `Contents`, is the
sequence of `count` entries around the ring; a push writes the slot that the pointers' agreement
says is free, so no queued entry changes, and a pop moves every index by one (`TransferContents`,
then `EdgeImplements` for the cases of the abstract step).

`Pipeline_proofs` (for every register set, instruction mix, bound, with or without predictions and,
where not said otherwise, interrupts):

- `TypeCorrect`: `TypeOK` is inductive; the register lemmas (`IfIdType`, `Ex2Type`, `StagesType`)
  each show one edge. It implies that no undecoded forward select is ever registered.
- `CsrUsersQuiet`: whenever a CSR user stands in RR, no valid CSR instruction stands in EX1..MEM2.
  This `RrQuiet` is the strengthening: an instruction enters RR only in a cycle in which the
  ID-stage stall saw no CSR instruction in RR..MEM2, and one that stays in RR only sees the older
  ones move on, none enter (`CsrComesFromAhead`).
- `RrStallNeverDecides`: hence the RR-stage CSR stall (priority 3b of the chain) never decides a
  cycle, whatever the program: that arm is redundant.
- `StrobesUnlessLost` (without interrupts): `StrobeLostOnce`. The code loses a strobe when a redirect
  moves WB under a multiply stall (section 6). This pins down when: by `Flow`, below, the
  multiplication is a wrong-path one behind a registered redirect, so no multiplication of the
  program ever costs an older instruction its CSR write, and the redirect that causes the loss clears
  EX1 at the same edge, so no second instruction behind it is lost while the redirect is held.
- `OrderKept` (without interrupts): `OrderUnlessLost`, program order and squashing for every mix of
  instructions, predictions, mispredictions, traps and stalls, as long as none of the three
  coincidences of section 6 happens (`MulLost`, `TrapLost`, `BranchLost`). The inductive invariant is
  `Flow`: the position *due* at each stage is threaded from WB towards fetch, from the last retired
  one, stepping on behind every valid instruction, and `Wrong` behind one whose redirect is still to
  come. `BackFlow` and `FrontFlow` say that every stage holds what is due and that fetch goes on
  with it. A redirect has two forms, live and registered: in the cycle between them EX1 and the
  stages before it hold the wrong path although nothing ahead of them says so, so there `FrontFlow`
  asks for `Wrong`, and `RedirectFlow` for empty stages up to the redirecting one and a registered
  target that is the position due. `HoldFlow`, `RedirectFlowStep` and `MoveFlow` are the cases of
  the priority chain (`Modes`); the three coincidences are exactly what `Modes` has to exclude.
  `FlowOrdered` and `FlowSquashes` read the two properties off it. Interrupts are excluded because
  they break the valid bit that carries their redirect (section 6).
- `OrderWithoutMul`, `SquashWithoutMul`: programs without multiplications and taken predictions meet
  none of the coincidences, so they have `InProgramOrder` and `NoWrongPathAtMem2` unconditionally.
- `OwnUnlessMulLost`: as long as no ID-class stall empties EX1 under the multiply stall, and no
  multiplication starts under the refetch of a FENCE.I (`FenceLost`, section 6), `OwnResult`.
  The strengthening `UnitOwned` says that the unit works only for the multiplication in EX1, and
  never while a redirect is registered: the multiply stall keeps redirects from being registered,
  so a redirect cannot leave the unit working for a flushed instruction.
- `CsrFreshUnlessLost`, `CsrFreshWithoutMul` (without interrupts): `FreshCsr`, on top of `Flow`.
  `WantFlow` threads the last CSR instruction of the program from the CSR file through WB to fetch,
  where it is `csr_writer`; what a flush removes is wrong path by `Flow` and so no part of the
  thread (`FlushedTags`). `UsersLast` extends `RrQuiet` to WB and to a user in EX1, so the thread in
  front of a user in EX1 is the CSR file itself. `RetiresOnLeaving` is a hypothesis of the first,
  since a CSR write that leaves WB without its strobe is not committed (section 6), and a
  consequence of having no multiplications in the second (the lemma `RetiresWithoutMul`).
- `OperandsUnlessLost`, `OperandsWithoutMul` (without interrupts and faulting loads):
  `FreshOperand`, as long as none of the three coincidences nor `FenceLost` happens, and for
  programs without multiplications; on top of `Flow`, `UnitOwned` and `RrStallNeverDecides`; the
  strengthening is `OperandInv`. `WriterFlow` threads the last writer of each register from the
  register file to fetch, as `WantFlow` does for the CSRs. `SelectMoved` bridges the cycle between
  ID and RR: the registered select is what the forwarding unit would say of the slots one stage on,
  and no load it would have to wait for is among them. It needs that RR is never held with the
  stages ahead moving on, which is why `RrStallNeverDecides` comes first. `FrontDecoded` and
  `BackComputed` say which slots have their result, with `UnitOwned` for multiplications.
  `JumpsAlone`: a jump redirects at EX2, so nobody of the program is close enough behind it to look
  for its link address on a bypass bus; with predicted jumps somebody is, and with a faulting load
  the register file is wrong (section 6), hence the hypotheses. Erratum 110 stays as the exception
  it is in `FreshOperand`.

`CiTools_proofs`. The cycle comparison, for every set of jobs, assignment of commits, cycle counts
and budget:

- `TypeCorrect`: `CdTypeOK`, whose last part (a comparison has both measurements) needs `Measured`:
  which measurements each step already has, and that a job with an exit code is past its main path.
- `CleansUp`: a worktree nobody works on was left by a killed job or by a failed baseline build.
  The inductive invariant `Accounted` gives every directory a holder and every registration without
  a directory a job that will prune it or was killed before it could; a step changes the worktree of
  one commit only (`ChangesOne`), prune excepted, which only forgets.
- `Recovers`: a job that has its commit to itself finds the path free at `git worktree add`, unless
  another one was killed, and finds its binary when it runs it. `Solo` says that nobody else is
  active on the commit, `AsLeft` what each step of the job knows of the disk.
- `PassIsMeasured`: exit code 0 comes from the comparison only, for measurements in the budget.

The coverage gates, for every set of bins and scenarios and every LCOV file:

- `FunctionalGateExact`: `CovGateExact`. `MergeHolds` says that the merged file is the merge of the
  files as they are when the recipe ends; `MergedBins` and `GateMeansExact` say what its bins and the
  gate's two counts mean, a percentage of 100 included.
- `LineGateExact`: `CovLineGateExact`. `ScanHolds` gives the meaning of the flag and the two counters
  after each line: the flag says that the nearest header above is a testbench's, the counters are the
  cardinalities of the lines so far that count.

The rule scanner, for files of any length and nesting:

- `ScannerExact`: `RrExact`. The stack is described by the blocks that are open: `Ranked` orders them
  by their depth (the blocks opened and not closed behind each), which numbers them without gaps from
  the top of the stack, and `StackHolds` adds their labels. Opening, closing and replacing a block are
  the cases of `RankedStep`. `RegionsHold` says of a counter that goes back to zero at a stray end how
  many regions are open. `Agrees` is what these two mean at a declaration, and `FlagsHold` that a line
  is judged right when it is read and no later line changes the verdict.

`Cosim_proofs` (for every set of instruction kinds, program length and leftover): `TypeCorrect`,
`OwnTraces` and `Artefacts`. The inductive invariant adds `Fresh`: at each step, which files are
already this invocation's, which rests on every build step ending the script when its tool fails.

`SrtRef_proofs` (for every mantissa width, digit count and operand): `DividesAlways` and
`RootsAlways`, the invariants of the two loops. `RootStep` is the algebra behind the trial
subtrahend: from `s*s + m = v` with `0 <= m <= 2s`, one digit gives the root of `4v + p`. What is
needed besides is the range of the operands (`HiddenBit`, `IntegerDigit`) and of a pair of bits
(`PairRange`).

`AnswersAlways` is what the loops are for: the returned pair is the exact quotient or root, cut off,
with an exact sticky. The strengthening `Used` says which part of the operand the digits so far have
consumed (`NextPair`: one more pair of bits of the radicand; `Padded`: zeros once it is exhausted);
`CutRoot` and `RootSize` carry the invariant of the last digit over to the kept ones.

`Muldiv_proofs` (for every even width, all operands, any sequence of operations):

- `MuldivInvariant`: `MuldivInv` relates the registers of each FSM state to the request and not to
  what an earlier operation left. `Multiplies`: the operands are registered as signed numbers of one
  bit more, then the two partial products, then their sum. `DividesOn`: while iterating, the
  dividend register holds the bits still to come, quotient and remainder divide those that have
  gone (`Midway`), the sign flags are the request's, and `cycles` and `count` add up. `ResultCorrect`
  and `AnswersInTime` alone are not inductive: they speak of the last state only.
- `AlwaysCorrect`: every one of the 13 operations gives the M extension's number. Along the way:
  operands are the numbers the M extension reads (`EffectiveValue`, `Magnitudes`); one cycle shifts
  out one bit and the trial subtraction decides it (`NextBit`, `ShiftOut`, `Subtracter`,
  `ComputeStep`); signs are put back (`SignedDivision`, `FinalResult`); partial products never
  overflow their width, nor does their sum (`PartialProducts`); the selected half, wrapped, is the
  result (`MulResult`); the cases without iteration (`EarlyResult`).
- `AlwaysRestoring`, `AlwaysInTime`: the loop invariant, and the exact latency, from the same
  invariant. `TypeCorrect`: no register leaves its width.

`DataSide_proofs` (for every number of sets, ways and beats, every set of tags, cached or not, and
every program length). For all operations, walks and bus errors:

- `DataTypes`: every register keeps its type. The parts that are not obvious: a beat counter stays
  inside the line while it indexes it, and the flush pointer inside the cache.
- `UncachedStaysOut`: `UncachedNeverAllocates`, by `CachedMisses`: the miss register of a miss in
  progress never names an uncached region, and only the last beat of a refill (`Fill`) validates.

For loads, stores and FENCE.I, without walks and bus errors (`Fragment`; it is what `data_core`
instantiates, with uncached addresses besides, and with any geometry):

- `DataInvariant`: the inductive invariant `DataInv`. None of the four properties is inductive: each
  speaks of an idle cache or of an answer, so the invariant has to say what holds in between.
  `Owned`: whom the FSM works for, so that the request it latched is still the one in MEM2.
  `FreshTags`, `FreshWords`, `Bypassed`: what a request compares in IDLE is its own set although the
  RAMs answer a cycle late, either in the read register or in one of the two bypass tiers, which hold
  what the RAM holds. `Absent`, `Present`: a miss is for a line no way holds, a finished one is held.
  `HeldRight`, `RestInMemory`, `CleanRight`: cached words are the program's, memory holds the rest,
  and clean lines agree with it; the way being refilled counts as empty, and a store that has been
  written but whose completion MEM2 has not seen yet counts as done (`Expected`). `WritingBack`,
  `Refilling`: the beats that have gone out, the beats that have come in, with the missing store
  merged, and the word kept for the bypass. `Swept`: what the flush walk has passed holds no valid
  line. `Answered`: the data latched for MEM2. One lemma per part shows that a clock edge keeps it,
  split over the arms of the FSM (`IdleArms`, `BusyArms`) and of the core (`CoreMoves`).
- `LineHasOneCopy`, `LoadsReadLatest`, `NoWriteLost`, `FenceDrains`: `OneCopy`, `ReadsLatest`,
  `Coherent` and `FlushDrains`, read off it, for every set `Data` of words that stores may write: a
  load has the last store's word and not one that an older store to the address wrote.

The hypotheses are those under which the code has the properties or the invariant can be stated
about one requester: with AMO and SC the completion pulses answer the next operation (section 6),
the walker compares stale tags, and an uncached store that ended in a bus error has already reached
memory.

`CrvProgram_proofs` (for every program length and register pool):

- `PointerExact`, lui and addi rebuild every base below 2^32 - 2^11 and both halves fit;
  `ClampSound`, every offset `raw_stress` uses is aligned and fits a load's immediate.
- `GenInvariant`: `GenInv` says what the registers a scenario reserves hold (the base pointers,
  `PointersOk`, and `ra` and `sp`), that a live register has been written (`LiveWritten`), and that
  what a round puts off for later is still sound when its turn comes (`TodoOk`).
- `AlwaysAssembles`: no encoder raises, and every body returns with its `ra` and `sp`; for
  `branch_pred` because the machine only ever executes items of the woven list (`ReturnStep`).
  `AccessesStayInRegion`: every access is aligned and inside its region.
- `ReadsOnlyWritten`: `ReadsWritten`. In the straight-line scenarios no instruction reads a register
  at its reset value, by `LiveWritten`. In `traps` only t1 is ever live and unwritten, and only as
  long as no trap was taken (`TrapsInv`). In `branch_pred` what is live has a writer further up in the
  list, and the weaving keeps that order (`FlowInv`, `Above`), so what is read unwritten was skipped by
  a taken branch.
- `AlwaysSpaced`: the spacing of multiplications and divisions and the bound of load chains. The
  strengthening `SpaceInv` ties the generator's own counters to the last five instructions emitted.
- `LabelsAlwaysForward`: `LabelsForward`. `RawInv`: every branch has a label scheduled behind it.
  `WeaveInv`: while the lists are woven no label stands twice or before its branch, and the labels of
  the positions passed are planted, so at the end all are (`LabelPlanted`, `InstrPassed`,
  `WovenRight`). From it, `RunsForward`: a taken branch jumps ahead (`JumpLands`), so the program ends
  in at most as many steps as it has items.

Assumptions are those of the constants (0 is a register, kinds are known, depth is positive, the
width is even, the coverage bins are finitely many); TLC evaluates them in every run.
`PowerAssumption` of `Muldiv` and `SrtPowerAssumption` of `SrtRef` are two laws of arithmetic, `2^m
> 0` and `2^(m+n) = 2^m * 2^n`, for the exponents in use: they hold for every width, but follow from
the definition of `^` by an induction that the provers cannot do.

**Only model-checked**: what a comparison of traces means (`NoEscape`, `NoFalseAlarm`), because both
scripts are folds and filters over traces of any length (`FoldLeft`, `SelectSeq`), and what such a
fold computes needs induction over data, which is out of the prover's reach; the data side's
consistency with AMO, LR/SC, walks and bus errors, where the code does not have it in full
(section 6); and the liveness properties. They stay with TLC.

## 5. Mutants

Each property has a mutant: a variant of one mapped definition, written just above it, that a
plausible slip in that code would give (a stage missing from a stall's list, a flush term dropped,
a bypass tier missing, a pointer compared one too late). Replacing the definition by it makes TLC
report the property.

## 6. Disagreements between the code and its comments and documents

Kept as runs (with the quoted line in `PROJECT.json`):

- `amo_load`: an AMO that hits is answered in its first cycle; its completion pulse then answers
  the next operation (`kronos_dcache.sv:1488`).
- `lost_multiplication`: a load-use stall outranks the multiply stall (`kronos_hazard.sv:225`), and
  its arm lets EX1 and MEM1 move while EX2 is held by `~combined_stall` (`kronos_top.sv:2689`). In
  `mul; ld; use of the ld` the multiplication is lost and EX2's instruction duplicated;
  `architecture.md:314` and 379 say that the stall freezes the whole pipeline. `InProgramOrder` fails
  on the same instance, and so does `OwnResult`: the next multiplication finds the unit at work and
  takes the lost one's result. It is `MulLost` in `OrderUnlessLost`.

Properties stated in the modules that the code does not have; the constants named reproduce each
one on two instructions, where no other number is given:

- `Pipeline.PredictedBranchKept` (`Kinds = {"LOAD", "BRANCH"}`, `Predict = TRUE`): a
  predicted-taken branch held in ID by a load-use stall is cleared from IF/ID before anything
  latched it (`kronos_top.sv:2109`); the comment at 2100 says it was latched. `BranchLost`.
- `Pipeline.CauserWaits` (`Kinds = {"MUL", "BRANCH", "SYS"}`, `MaxInstr = 4`, `Predict = TRUE`): when a
  MEM2 redirect coincides with the registered redirect of a younger branch and the stall of a
  wrong-path multiplication, MEM2 moves on but `mem_redirect_q` holds (`kronos_top.sv:3117`): the
  trap or xRET is not taken and the wrong path retires. The comment at 3057 says that `mem_wb_en` is
  0 under `combined_stall`. `TrapLost`; `NoWrongPathAtMem2` fails on the same instance.
- `Pipeline.RetiresOnLeaving` (`Kinds = {"MUL", "SYS"}`): an instruction leaves WB without retiring
  when a redirect coincides with a multiply stall (`kronos_top.sv:3268`), and a CSR write is not
  committed; the comment at 3256 says the strobe fires whenever `mem_wb_q` advances. What holds of it
  is `StrobeLostOnce`.
- `Pipeline.OwnResult` (`Kinds = {"MUL", "FENCEI"}`, `MaxInstr = 3`): `req_i` of the multiplier is kept
  low under `ex_redirect_q` and `mem_redirect_q` but not under `fence_i_redirect_q`
  (`kronos_top.sv:996`), which clears EX1 as they do. A multiplication two behind a FENCE.I starts in
  the cycle it is flushed; a later one, in the trap handler, that reaches EX1 while the unit works
  takes its answer. `FenceLost`. `TrapLost` can come of this redirect as of an EX2 redirect
  (`Kinds = {"MUL", "SYS", "FENCEI"}`, `MaxInstr = 4`). For both, FENCE.I and multiplications are not in
  one passing run.
- `Pipeline.FaultRedirects` (`Kinds = {"ALU"}`, `Interrupts = TRUE`): a pending interrupt clears the
  valid bit of the instruction that carries its fault bit (`kronos_top.sv:2668`), and the MEM2
  redirect requires that bit (3093); `architecture.md:339` says it is an OR over the fault bits.
- `DataSide.FenceAfterStores` (`Kinds = {"STORE", "FENCE"}`): FENCE.I lets the I-cache reload from
  EX2 while older stores stand in MEM1..MEM2 (`kronos_top.sv:800`); the comment at 782 says they
  have been committed.

Met while modelling, reproduced with these modules, not kept as runs:

- A faulting load writes its destination (`kronos_top.sv:666` looks at no fault bit). `FLOAD` in
  `pipeline_order` violates `FreshOperand`.
- The bypass buses carry `alu_result`, never the link address (`kronos_top.sv:2262`). `JUMP` with
  predictions violates `FreshOperand`.
- An SC right after a successful SC reads the first one's success pulse (`kronos_dcache.sv:1503`).
  `LR` and `SC` in `data_core` violate `Coherent`.
- The walker's hit in IDLE compares the tags of the previous RAM read (`kronos_dcache.sv:1022`).
- The walker samples the SC outcome a cycle late, so the walk is repeated (`kronos_ptw.sv:245`).
- An uncached access that ended in a bus error is issued again in the cycle that reports the error
  (`kronos_dcache.sv:1005`).
- The CSR value is missing from the EX1-now bypass: the known erratum 110 (`architecture.md:257`),
  which `FreshOperand` names as `Erratum110`.
- `architecture.md:314` and 750-751 give DIV and REM 29 and 62 cycles from dispatch to WB, correcting
  34 and 66; the unit alone takes 33 and 65 (`AnswersInTime` at `XLEN` = 64), whatever the operands.
  `kronos_muldiv.sv:7` gives a multiplication a latency of 5 and lists four states: the answer is
  there four edges after the request.
- `kronos_hazard.sv:7-9` gives another priority order than the code; `kronos_top.sv:1703` gives
  the dTLB priority in the walker, `kronos_ptw.sv:176` the iTLB.

Of the tools, found while modelling or by reading:

- `cycle_diff.py:32` "Removes the worktree at the end (pass or fail)": not when the baseline's build
  fails, since `main` then never learns the path. `CdCleansUp` names the exception.
- `cycle_diff.py:119` "Remove any stale worktree from a previous interrupted run": only if its
  directory exists. After a kill between rmtree and prune, or after `/tmp` was emptied, the
  registration alone is left and `git worktree add` is refused. `CdRecovers` names the exception.
- `trace_diff.py:74` lists CSR writes among the effects that keep a line, `EFFECT_RE` does not:
  with `--strip-noeffect` a CSR-only instruction is not compared (`Observed` in `Cosim`).
- `sail_trace.sh:42` hides a failure of Sail, so a log cut short passes with a Kronos trace cut at
  the same place.
- `crv/runner.py`: an uncaught exception exits with 1, the code documented for a divergence. The
  `CRV_DIR` of the Makefile is shared by the targets of two stages.
- `coverage_gate.py <file> <threshold>`, as its usage line and `make coverage` write it, is a usage
  error (`coverage_gate.py:129`); `CovUsage` states what the usage line promises.
- `crv_cov_merge.py` documents exit code "0 always" and returns 1 when there is nothing to merge.
- `check_rtl_rules.py`: `end else begin` keeps the label of the branch it closes (`LabelsKept` in
  `RtlRules` is the case in which that does not matter); `seen_first_always` is never reset for the
  second module of a file; `--staged` filters by the index's lines and reads the working tree.
- `int_hazards.py`: "last 4 instructions" are the last four writes; a comment gives another
  `DATA_BASE` than `memory.py`. `memory.py`: ATOMIC is not immediately after DATA.
- `muldiv_interleave.py`: the gap of "4 ALU instructions" counts loads too, and a muldiv is followed
  by 1 to 3 consumers, where the header says 0 to 4; the divide-by-zero workaround excludes x0 only.
- `traps.py:88` "Mark t0/t1 as written (they are set in the handler)": t0 is set by the prologue, t1
  by the handler, and so not before the first trap; until then the body may read t1 at its reset
  value. `branch_pred.py` marks a destination live though a taken branch may skip the write.
  `regfile.py:3` avoids uninitialised sources "in critical positions" only; `ReadsWritten` names both
  cases.
- `gen_fdiv_vectors.py:133`: two operands with the hidden bit never meet the clamp. In
  `srt_sqrt.py:52` the cut-off digits are redundant for both formats: a root that ends within the
  kept digits has none of them.

## 7. Plan

1. `FetchBuffer`, `FetchQueue` - done, refinement proved.
2. `Pipeline`, `Forward`, `Hazard` - done, all safety properties proved, as far as the code has them.
3. `DCache`, `DataSide` - done, all safety properties proved.
4. `Muldiv` - done, all of its properties proved.
5. Translation: `kronos_tlb` and the three levels of `kronos_ptw`, with the dTLB in MEM1/MEM1B and
   the two requesters of the walker. Properties: a lookup never returns an entry sfence removed; a
   miss is answered or faults; both requesters are served; the faulting access is the one blamed.
6. Front end: `kronos_icache`, `kronos_predecode`, `kronos_bpred` around `FetchBuffer`, refining
   the front end `Pipeline` assumes: consecutive instructions from the last redirect on, nothing
   from before it. Its run will take the place of `fetch_buffer`.
7. FPU dispatch: scoreboard, unit pipelines and iterative unit. Property: at most one unit
   answers in a cycle, as the module asserts, for the dispatcher that waits (`kronos_top`) and for
   one that does not; the FRM and FP load-use hazards in `Hazard`.
8. Tooling: `TraceDiff`, `Cosim`, `CrvProgram`, `CycleDiff`, `CoverageGate`, `RtlRules`, `SrtRef` -
   done, with the theorems of section 4.
9. CSR file with privilege modes, traps and delegation; PMP and trigger matches and the ALU as
   operators against reference definitions at small widths.

## 8. Not modelled

The decoders and the RVC decompressor are tables that a model would repeat. FPU rounding over wide
significands is out of TLC's reach. Performance events, the trace port and the reset sequence
beyond its values carry no control. The earlier stages (0 to 6) are superseded by stage 7.

Of the tools: the mutator of the fuzzer, the trace utilities, the document and synthesis lints and
the TestFloat wrapper are one-pass text processing, with no state a property could relate. Of the
rule checker, the comment rule, the bare-if rule (text patterns over the following lines) and the
`--staged` filter are left out. Of the C++ driver only the trace line and the ways a run ends are
there. `PROJECT.json` gives the reason for each part.
