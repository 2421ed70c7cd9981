------------------------------ MODULE RiscvIsa ------------------------------
(***************************************************************************)
(* The reference for the semantics of SystemModel: what the RISC-V manual  *)
(* says of the base instructions, in the arithmetic of the integers rather *)
(* than in operators on bits.  The bitwise operations are left out, having *)
(* no such form, and so is auipc.                                          *)
(***************************************************************************)
EXTENDS SystemModel

Signed(w, x) == IF 2 * x < 2^w THEN x ELSE x - 2^w
Unsigned(n) == n % 2^XLen
SignedWord(n) == Unsigned(Signed(Word, n % 2^Word))

(* x[0] is hard-wired to zero.                                             *)
X(reg) == CASE reg = "zero" -> 0 [] OTHER -> regs[reg]

(* The last operand of an instruction: rs2, or the immediate.              *)
Operand(line) == IF line.op \in RegRegOps \cup WordRegOps THEN X(line.rs2) ELSE line.imm

IsaOps == (UNION {RegRegOps, WordRegOps, ImmOps, WordImmOps, LoadOps, {"lui", "jal", "jalr"}})
            \ {"and", "andi", "or", "ori", "xor", "xori"}

IsaResult(line) ==
  LET op == line.op
      x == X(line.rs1)
      y == Operand(line)
      datum == Read(Memory(op), Unsigned(X(line.rs1) + line.imm))
  IN CASE op \in {"add", "addi"}    -> Unsigned(x + y)
       [] op = "sub"                -> Unsigned(x - y)
       [] op = "mul"                -> Unsigned(Signed(XLen, x) * Signed(XLen, y))
       [] op \in {"slt", "slti"}    -> IF Signed(XLen, x) < Signed(XLen, y) THEN 1 ELSE 0
       [] op \in {"sltu", "sltiu"}  -> IF x < y THEN 1 ELSE 0
       [] op \in {"sll", "slli"}    -> Unsigned(x * 2^(y % XLen))
       [] op \in {"srl", "srli"}    -> x \div 2^(y % XLen)
       [] op \in {"sra", "srai"}    -> Unsigned(Signed(XLen, x) \div 2^(y % XLen))
       [] op \in {"addw", "addiw"}  -> SignedWord(x + y)
       [] op = "subw"               -> SignedWord(x - y)
       [] op \in {"sllw", "slliw"}  -> SignedWord(x * 2^(y % Word))
       [] op \in {"srlw", "srliw"}  -> SignedWord((x % 2^Word) \div 2^(y % Word))
       [] op \in {"sraw", "sraiw"}  -> Unsigned(Signed(Word, x % 2^Word) \div 2^(y % Word))
       [] op = "lui"                -> SignedWord(line.imm * 2^LuiShift)
       [] op \in {"jal", "jalr"}    -> addr + InstLength
       [] op \in {"lb", "lh", "lw"} -> Unsigned(Signed(Width(Memory(op)), datum))
       [] OTHER                     -> datum

IsaTaken(line) ==
  LET x == X(line.rs1)
      y == X(line.rs2)
  IN \/ line.op = "beq"  /\ x = y
     \/ line.op = "bne"  /\ x # y
     \/ line.op = "blt"  /\ Signed(XLen, x) < Signed(XLen, y)
     \/ line.op = "bge"  /\ Signed(XLen, x) >= Signed(XLen, y)
     \/ line.op = "bltu" /\ x < y
     \/ line.op = "bgeu" /\ x >= y

(***************************************************************************)
(* What a line of the block writes to its destination register is what the *)
(* manual says, computed from the registers, the memory and the address of *)
(* the line; and a conditional branch is taken exactly when it should be.  *)
(* The stored value of "zero" plays no part in either.                     *)
(***************************************************************************)
ResultsAreIsa ==
  [][/\ last'.op \in IsaOps /\ last'.rd # "zero" => regs'[last'.rd] = IsaResult(last')
     /\ last'.op \in BranchOps =>
          pc' = IF IsaTaken(last') THEN last'.imm ELSE addr + InstLength]_vars

(***************************************************************************)
(* Memory works through the four separate memories as long as a program    *)
(* reads with the width it wrote with: a load right after a store of its   *)
(* width at its address reads the value stored, cut to that width.         *)
(***************************************************************************)
Access(op) ==
  CASE op \in {"lb", "lbu", "sb"} -> XLen \div 8
    [] op \in {"lh", "lhu", "sh"} -> XLen \div 4
    [] op \in {"lw", "lwu", "sw"} -> XLen \div 2
    [] OTHER                      -> XLen

LoadsSeeStores ==
  [][last # NoLine /\ last.op \in StoreOps /\ last'.op \in LoadOps =>
       LET w == Access(last.op)
           stored == X(last.rs2) % 2^w
       IN Access(last'.op) = w /\ X(last.rs1) + last.imm = X(last'.rs1) + last'.imm
            /\ last'.rd # "zero" =>
            regs'[last'.rd] =
              IF last'.op \in {"lb", "lh", "lw"} THEN Unsigned(Signed(w, stored)) ELSE stored]_vars

(***************************************************************************)
(* The comment of jalr_inst, "pc := (rs1 + imm)[63:1] ++ 0bv1": jalr jumps *)
(* to the even address at rs1 + imm.                                       *)
(***************************************************************************)
JalrJumpsToSource ==
  [][last'.op = "jalr" =>
       pc' = 2 * (Unsigned(X(last'.rs1) + last'.imm) \div 2)]_vars
=============================================================================
