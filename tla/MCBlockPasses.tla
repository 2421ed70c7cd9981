---------------------------- MODULE MCBlockPasses ---------------------------
(* Blocks of three instructions over two registers and the zero register:  *)
(* constants that are made, combined, overwritten and used as addresses.   *)
EXTENDS BlockPasses

MCInitRegs ==
  {[zero |-> 0, a0 |-> x, a1 |-> y] : x \in {8, 2^(XLen - 1) + 5}, y \in {8}}

Inst(ops, rds, rs1s, rs2s, imms) ==
  [op : ops, rd : rds, rs1 : rs1s, rs2 : rs2s, imm : imms]

MCLines ==
  UNION {Inst({"addi"}, {"a0", "a1"}, {"zero", "a0"}, {"zero"}, {8, 2^XLen - 4}),
         Inst({"add", "sll"}, {"a0", "zero"}, {"a0"}, {"a1"}, {0}),
         Inst({"srl", "sra", "slt"}, {"a0"}, {"a0"}, {"a1"}, {0}),
         Inst({"addiw"}, {"a0"}, {"a0", "zero"}, {"zero"}, {2^XLen - 4}),
         Inst({"lui"}, {"a0"}, {"zero"}, {"zero"}, {1, 3}),
         Inst({"lw", "ld"}, {"a1"}, {"a0", "zero"}, {"zero"}, {0, 8}),
         Inst({"sw", "sd"}, {"zero"}, {"a0", "zero"}, {"a1"}, {0, 8}),
         Inst({"jalr"}, {"zero"}, {"a0"}, {"zero"}, {4})}

(* A memory that holds at each address a value of its own.                 *)
MCInitMem(m, a) == (3 * a + 1) % 2^Width(m)
=============================================================================
