---------------------------- MODULE MCSystemModel ---------------------------
(* Blocks of two lines: every instruction, over the zero register, a link  *)
(* register that is written and an argument that is only read.             *)
EXTENDS RiscvIsa

MCRegisters == {"zero", "ra", "a0"}
MCRegValues == {5, 2^(XLen - 1) - 1, 2^(XLen - 1) + 3}
Written == {"zero", "ra"}
Immediates == {0, 3, 2^XLen - 2}
Targets == {Entry, Entry + 3 * InstLength}

Inst(a, ops, rds, rs1s, rs2s, imms) ==
  [addr : {a}, op : ops, rd : rds, rs1 : rs1s, rs2 : rs2s, imm : imms]

MCLines(a) ==
  UNION {Inst(a, RegRegOps \cup WordRegOps, Written, {"zero", "ra"}, {"a0", "ra"}, {0}),
         Inst(a, (ImmOps \cup WordImmOps) \ {"slli", "srli", "srai", "slliw", "srliw", "sraiw"},
              Written, {"zero", "ra"}, {"zero"}, Immediates),
         Inst(a, {"slli", "srli", "srai"}, Written, {"ra"}, {"zero"}, {0, 3, XLen - 1}),
         Inst(a, {"slliw", "srliw", "sraiw"}, Written, {"ra"}, {"zero"}, {0, Word - 1}),
         Inst(a, UpperOps, Written, {"zero"}, {"zero"}, BitVector(Word - LuiShift)),
         Inst(a, LoadOps, Written, {"ra", "zero"}, {"zero"}, {0, 2^XLen - 2}),
         Inst(a, StoreOps, {"zero"}, {"ra"}, {"a0", "zero"}, {0, 2^XLen - 2}),
         Inst(a, BranchOps, {"zero"}, {"zero", "ra"}, {"a0", "ra"}, Targets),
         Inst(a, {"jal"}, Written, {"zero"}, {"zero"}, Targets),
         Inst(a, {"jalr"}, Written, {"ra", "a0"}, {"zero"}, {0, 3}),
         Inst(a, {"mulh", "mret"}, {"ra"}, {"ra"}, {"a0"}, {0})}

(* A memory that holds at each address a value of its own.                 *)
MCInitMem(m, a) == (3 * a + 1) % 2^Width(m)
=============================================================================
