---------------------------- MODULE MCCrvProgram ----------------------------
(***************************************************************************)
(* CrvProgram with the registers some scenario treats specially; six       *)
(* instructions are enough for a second muldiv after the gap.              *)
(***************************************************************************)
EXTENDS CrvProgram

MCRegs == {0, 1, 2, 5, 6, 10, 11}
MCScenarios == {"int_hazards", "muldiv_interleave", "mem_ordering", "raw_stress",
                "fp_arith", "fdiv_fsqrt", "traps", "branch_pred"}
MCLength == [s \in MCScenarios |-> IF s = "muldiv_interleave" THEN 6 ELSE 4]
=============================================================================
