---------------------------- MODULE SystemModel -----------------------------
(***************************************************************************)
(* The machine code semantics that the translator writes into the blocks   *)
(* of the model (rv_model/system_model.rs), executed over the lines of one *)
(* basic block.                                                            *)
(*                                                                         *)
(* The state is the state of the emitted module: the registers, the pc,    *)
(* the returned flag and one memory for each access width, which share     *)
(* nothing: `mem` is the part of each that the block has written.  A block *)
(* does not test the pc between two of its lines: `addr` is the address of *)
(* the next line of the block and `last` the line just executed.           *)
(*                                                                         *)
(* The widths are in the proportion of those of RV64: a byte, a half and a *)
(* word are an eighth, a quarter and a half of XLen; LuiShift stands for   *)
(* the 12 bits below the immediate of lui and auipc.                       *)
(*                                                                         *)
(* A definition that repeats the name of the next one with a suffix is a   *)
(* mutated form of it; no action uses it.                                  *)
(***************************************************************************)
EXTENDS Integers, Sequences, BitVectors

CONSTANTS
  XLen,         \* the width of a register
  LuiShift,     \* the bits below an upper immediate
  Registers,    \* the names of the registers, "zero" and "ra" among them
  RegValues,    \* the values that a register may have when the block starts
  Entry,        \* the address of the block
  MaxLines,     \* bound: the lines of the block that are executed
  LinesAt(_),   \* the lines there may be at an address
  InitMem(_, _) \* the content of a memory at an address when the block starts

InstLength == 4

ASSUME WidthsAssumption ==
  /\ XLen \in Nat /\ XLen % 8 = 0 /\ \E k \in 0 .. XLen : XLen = 2^k
  /\ LuiShift \in 0 .. (XLen \div 2) - 1
  /\ {"zero", "ra"} \subseteq Registers
  /\ RegValues \subseteq BitVector(XLen)
  /\ MaxLines \in Nat /\ Entry \in Nat
  /\ Entry + InstLength * MaxLines \in BitVector(XLen)

(* A line is at its address, and instructions are aligned: the translator  *)
(* takes all of them to be INST_LENGTH_IN_BYTES long, and the target of a  *)
(* direct jump is the address of one of them.  The assembler encodes the   *)
(* amount of a word shift in the bits that a word has for it.              *)
ASSUME LinesAssumption ==
  /\ Entry % InstLength = 0
  /\ \A k \in 0 .. MaxLines - 1 : \A line \in LinesAt(Entry + InstLength * k) :
       /\ line.addr = Entry + InstLength * k
       /\ {line.rd, line.rs1, line.rs2} \subseteq Registers
       /\ line.imm \in BitVector(XLen)
       /\ line.op \in {"slliw", "srliw", "sraiw"} => line.imm < XLen \div 2
       /\ line.op \in {"jal", "beq", "bne", "blt", "bge", "bltu", "bgeu"} =>
            line.imm % InstLength = 0

Byte == XLen \div 8
Half == XLen \div 4
Word == XLen \div 2

VARIABLES regs, pc, returned, mem, addr, last

vars == <<regs, pc, returned, mem, addr, last>>

-----------------------------------------------------------------------------
(* The instructions, by the form of their statement.                       *)
RegRegOps  == {"add", "sub", "mul", "sll", "slt", "sltu", "xor", "srl", "sra", "or", "and"}
WordRegOps == {"addw", "subw", "sllw", "srlw", "sraw"}
ImmOps     == {"addi", "slti", "sltiu", "xori", "ori", "andi", "slli", "srli", "srai"}
WordImmOps == {"addiw", "slliw", "srliw", "sraiw"}
UpperOps   == {"lui", "auipc"}
LoadOps    == {"lb", "lbu", "lh", "lhu", "lw", "lwu", "ld"}
StoreOps   == {"sb", "sh", "sw", "sd"}
BranchOps  == {"beq", "bne", "blt", "bge", "bltu", "bgeu"}

(* The trait Inst, of a line with its own op code.                         *)
Line(line) ==
  [addr |-> line.addr \div InstLength, target |-> line.imm \div InstLength,
   link |-> line.rd = "ra", isExit |-> FALSE,
   op |-> IF line.op \in BranchOps THEN "branch"
          ELSE IF line.op \in {"jal", "jalr", "mret"} THEN line.op ELSE "other"]

Asm == INSTANCE Assembly

-----------------------------------------------------------------------------
(* Operands: "zero" is read as the literal 0, and is written as any other  *)
(* register.                                                               *)
SrcOfAny(rs, reg) == rs[reg]
Src(rs, reg) == IF reg = "zero" THEN 0 ELSE rs[reg]

ShiftAmount(y) == And(XLen, y, XLen - 1)
WordShiftAmount(y) == And(XLen, y, Word - 1)
LowWord(x) == Slice(XLen, Word - 1, 0, x)
FromWord(x) == SignExt(Word, Word, x)
OneIf(cond) == IF cond THEN 1 ELSE 0

RegReg(op, x, y) ==
  CASE op = "add"  -> Add(XLen, x, y)
    [] op = "sub"  -> Sub(XLen, x, y)
    [] op = "mul"  -> Mul(XLen, x, y)
    [] op = "sll"  -> LeftShift(XLen, x, ShiftAmount(y))
    [] op = "slt"  -> OneIf(Lt(XLen, x, y))
    [] op = "sltu" -> OneIf(Ltu(x, y))
    [] op = "xor"  -> Xor(XLen, x, y)
    [] op = "srl"  -> RightShift(XLen, x, ShiftAmount(y))
    [] op = "sra"  -> ARightShift(XLen, x, ShiftAmount(y))
    [] op = "or"   -> Or(XLen, x, y)
    [] op = "and"  -> And(XLen, x, y)

(* The shift amount of srlw and sraw is not sliced to a word as that of    *)
(* sllw is; its value is the same.                                         *)
WordReg(op, x, y) ==
  FromWord(
    CASE op = "addw" -> LowWord(Add(XLen, x, y))
      [] op = "subw" -> LowWord(Sub(XLen, x, y))
      [] op = "sllw" -> LeftShift(Word, LowWord(x), LowWord(WordShiftAmount(y)))
      [] op = "srlw" -> RightShift(Word, LowWord(x), WordShiftAmount(y))
      [] op = "sraw" -> ARightShift(Word, LowWord(x), WordShiftAmount(y)))

(* The shifts assume an amount below the width; the others assume nothing. *)
Assumed(op, imm) == op \in {"slli", "srli", "srai"} => Ltu(imm, XLen)

Imm(op, x, imm) ==
  CASE op = "addi"  -> Add(XLen, x, imm)
    [] op = "slti"  -> OneIf(Lt(XLen, x, imm))
    [] op = "sltiu" -> OneIf(Ltu(x, imm))
    [] op = "xori"  -> Xor(XLen, x, imm)
    [] op = "ori"   -> Or(XLen, x, imm)
    [] op = "andi"  -> And(XLen, x, imm)
    [] op = "slli"  -> LeftShift(XLen, x, imm)
    [] op = "srli"  -> RightShift(XLen, x, imm)
    [] op = "srai"  -> ARightShift(XLen, x, imm)

WordImm(op, x, imm) ==
  FromWord(
    CASE op = "addiw" -> LowWord(Add(Word, LowWord(x), LowWord(imm)))
      [] op = "slliw" -> LeftShift(Word, LowWord(x), LowWord(imm))
      [] op = "srliw" -> RightShift(Word, LowWord(x), LowWord(imm))
      [] op = "sraiw" -> ARightShift(Word, LowWord(x), LowWord(imm)))

Upper(op, imm) ==
  IF op = "lui"
    THEN FromWord(LeftShift(Word,
           ZeroExt(Word - LuiShift, LuiShift, Slice(XLen, Word - LuiShift - 1, 0, imm)),
           LuiShift))
    ELSE Add(XLen, pc, LeftShift(XLen, imm, LuiShift))

Taken(op, x, y) ==
  CASE op = "beq"  -> x = y
    [] op = "bne"  -> x # y
    [] op = "blt"  -> Lt(XLen, x, y)
    [] op = "bge"  -> Ge(XLen, x, y)
    [] op = "bltu" -> Ltu(x, y)
    [] op = "bgeu" -> Geu(x, y)

Memories == {"mem_b", "mem_h", "mem_w", "mem_d"}

(* Each width of access has a memory of its own.                           *)
MemoryLhuOfBytes(op) ==
  CASE op \in {"lb", "lbu", "lhu", "sb"} -> "mem_b"
    [] op \in {"lh", "sh"}               -> "mem_h"
    [] op \in {"lw", "lwu", "sw"}        -> "mem_w"
    [] op \in {"ld", "sd"}               -> "mem_d"

Memory(op) ==
  CASE op \in {"lb", "lbu", "sb"} -> "mem_b"
    [] op \in {"lh", "lhu", "sh"} -> "mem_h"
    [] op \in {"lw", "lwu", "sw"} -> "mem_w"
    [] op \in {"ld", "sd"}        -> "mem_d"

Width(memory) ==
  CASE memory = "mem_b" -> Byte
    [] memory = "mem_h" -> Half
    [] memory = "mem_w" -> Word
    [] memory = "mem_d" -> XLen

Extended(op, value) ==
  LET w == Width(Memory(op))
  IN IF op \in {"lb", "lh", "lw"} THEN SignExt(w, XLen - w, value)
                                  ELSE ZeroExt(w, XLen - w, value)

(* A memory is an array from addresses to vectors of its width.            *)
ASSUME MemoryAssumption ==
  \A m \in Memories : \A a \in BitVector(XLen) : InitMem(m, a) \in BitVector(Width(m))

Read(memory, a) == IF a \in DOMAIN mem[memory] THEN mem[memory][a] ELSE InitMem(memory, a)

WriteAt(m, a, value) == [b \in DOMAIN m \cup {a} |-> IF b = a THEN value ELSE m[b]]

Address(line) == Add(XLen, Src(regs, line.rs1), line.imm)

Stored(op, value) == Slice(XLen, Width(Memory(op)) - 1, 0, value)

-----------------------------------------------------------------------------
UpdatePc == pc' = Add(XLen, pc, InstLength)

Assign(line, value) == regs' = [regs EXCEPT ![line.rd] = value]

ExecRegReg(line) ==
  /\ line.op \in RegRegOps
  /\ Assign(line, RegReg(line.op, Src(regs, line.rs1), Src(regs, line.rs2)))
  /\ UpdatePc
  /\ UNCHANGED <<returned, mem>>

ExecWordReg(line) ==
  /\ line.op \in WordRegOps
  /\ Assign(line, WordReg(line.op, Src(regs, line.rs1), Src(regs, line.rs2)))
  /\ UpdatePc
  /\ UNCHANGED <<returned, mem>>

ExecImm(line) ==
  /\ line.op \in ImmOps
  /\ Assumed(line.op, line.imm)
  /\ Assign(line, Imm(line.op, Src(regs, line.rs1), line.imm))
  /\ UpdatePc
  /\ UNCHANGED <<returned, mem>>

ExecWordImm(line) ==
  /\ line.op \in WordImmOps
  /\ Assign(line, WordImm(line.op, Src(regs, line.rs1), line.imm))
  /\ UpdatePc
  /\ UNCHANGED <<returned, mem>>

ExecUpper(line) ==
  /\ line.op \in UpperOps
  /\ Assign(line, Upper(line.op, line.imm))
  /\ UpdatePc
  /\ UNCHANGED <<returned, mem>>

ExecLoad(line) ==
  /\ line.op \in LoadOps
  /\ Assign(line, Extended(line.op, Read(Memory(line.op), Address(line))))
  /\ UpdatePc
  /\ UNCHANGED <<returned, mem>>

ExecStore(line) ==
  /\ line.op \in StoreOps
  /\ mem' = [mem EXCEPT ![Memory(line.op)] =
                WriteAt(@, Address(line), Stored(line.op, Src(regs, line.rs2)))]
  /\ UpdatePc
  /\ UNCHANGED <<regs, returned>>

ExecBranch(line) ==
  /\ line.op \in BranchOps
  /\ IF Taken(line.op, Src(regs, line.rs1), Src(regs, line.rs2))
       THEN pc' = line.imm
       ELSE UpdatePc
  /\ UNCHANGED <<regs, returned, mem>>

ExecJal(line) ==
  /\ line.op = "jal"
  /\ Assign(line, Add(XLen, pc, InstLength))
  /\ pc' = line.imm
  /\ UNCHANGED <<returned, mem>>

ExecJalrReturnsUnlinked(line) ==
  /\ line.op = "jalr"
  /\ Assign(line, Add(XLen, pc, InstLength))
  /\ pc' = Concat(Slice(XLen, XLen - 1, 1, Add(XLen, Src(regs', line.rs1), line.imm)), 1, 0)
  /\ returned' = OneIf(line.rd = "zero")
  /\ UNCHANGED mem

(* The target is computed after the destination register is assigned.      *)
ExecJalr(line) ==
  /\ line.op = "jalr"
  /\ Assign(line, Add(XLen, pc, InstLength))
  /\ pc' = Concat(Slice(XLen, XLen - 1, 1, Add(XLen, Src(regs', line.rs1), line.imm)), 1, 0)
  /\ returned' = 1
  /\ UNCHANGED mem

Implemented == UNION {RegRegOps, WordRegOps, ImmOps, WordImmOps, UpperOps, LoadOps,
                      StoreOps, BranchOps, {"jal", "jalr"}}

ExecUnimplementedNoPc(line) ==
  /\ line.op \notin Implemented
  /\ UNCHANGED <<regs, pc, returned, mem>>

ExecUnimplemented(line) ==
  /\ line.op \notin Implemented
  /\ UpdatePc
  /\ UNCHANGED <<regs, returned, mem>>

-----------------------------------------------------------------------------
NoLine == [op |-> "none"]

Init ==
  /\ regs \in [Registers -> RegValues]
  /\ pc = Entry
  /\ returned = 0
  /\ mem = [m \in Memories |-> <<>>]
  /\ addr = Entry
  /\ last = NoLine

(* A jump is the last line of its block.                                   *)
BlockEnded == last # NoLine /\ Asm!IsJump(Line(last))

Execute(line) ==
  \/ ExecRegReg(line) \/ ExecWordReg(line) \/ ExecImm(line) \/ ExecWordImm(line)
  \/ ExecUpper(line)  \/ ExecLoad(line)    \/ ExecStore(line)
  \/ ExecBranch(line) \/ ExecJal(line)     \/ ExecJalr(line) \/ ExecUnimplemented(line)

ExecLine ==
  /\ ~ BlockEnded
  /\ addr < Entry + InstLength * MaxLines
  /\ \E line \in LinesAt(addr) : Execute(line) /\ last' = line
  /\ addr' = addr + InstLength

Stopped ==
  /\ BlockEnded \/ addr = Entry + InstLength * MaxLines
  /\ UNCHANGED vars

Next == ExecLine \/ Stopped

Spec == Init /\ [][Next]_vars

-----------------------------------------------------------------------------
(* What infer_mod_set finds on the left of the assignments of a line.      *)
ModSetRegisters(line) ==
  {"pc", "returned"}
    \cup IF line.op \in Implemented \ (StoreOps \cup BranchOps) THEN {line.rd} ELSE {}

ModSet(line) ==
  {"pc", "returned"}
    \cup (IF line.op \in Implemented \ (StoreOps \cup BranchOps) THEN {line.rd} ELSE {})
    \cup (IF line.op \in StoreOps THEN {Memory(line.op)} ELSE {})

Changed ==
  {r \in Registers : regs'[r] # regs[r]}
    \cup {m \in Memories : mem'[m] # mem[m]}
    \cup (IF pc' # pc THEN {"pc"} ELSE {})
    \cup (IF returned' # returned THEN {"returned"} ELSE {})

-----------------------------------------------------------------------------
(***************************************************************************)
(* The pc that a line computes is one of the addresses that the control    *)
(* flow graph has for its successors (disassembler.rs successors): within  *)
(* a block it is the address of the next line, although nothing tests it,  *)
(* and at the end of the block that of the entry of one of the blocks that *)
(* come next.  jalr has no successor in the graph.                         *)
(***************************************************************************)
PcFollowsCfg ==
  last # NoLine /\ ~ Asm!IsIndJump(Line(last)) =>
    /\ pc % InstLength = 0
    /\ pc \div InstLength \in Asm!Successors(Line(last))

(***************************************************************************)
(* The returned flag is set exactly by the lines that have no successor in *)
(* the graph, so that a body stops where its graph does.  mret is the      *)
(* exception: it ends its path of the graph and is not implemented.        *)
(***************************************************************************)
ReturnedWhereGraphEnds ==
  last # NoLine /\ last.op # "mret" =>
    (returned = 1 <=> Asm!Successors(Line(last)) = {})

(***************************************************************************)
(* A procedure may change only what its modifies clause lists: a line      *)
(* changes no variable that infer_mod_set does not find in it.             *)
(***************************************************************************)
ModSetCovers == [][Changed \subseteq ModSet(last')]_vars
=============================================================================
