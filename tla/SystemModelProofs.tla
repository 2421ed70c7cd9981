------------------------- MODULE SystemModelProofs -------------------------
(***************************************************************************)
(* The machine semantics, for every width, every block of well-formed      *)
(* lines and every state that the block starts in.                         *)
(*                                                                         *)
(* First, it agrees with the control flow graph: until the block has       *)
(* jumped, its pc is the address of the line to be executed and the flag   *)
(* is not set, so that it makes no difference that the lines do not test   *)
(* the pc.  Then, it agrees with the RISC-V manual: every operator on bits *)
(* computes what BitVectorProofs says, and every value is a vector of its  *)
(* width, so that what a line writes is the number of RiscvIsa.            *)
(***************************************************************************)
EXTENDS RiscvIsa, BitVectorProofs

(* The address of the next line is aligned and no address wraps around.    *)
AddrInv == \E k \in 0 .. MaxLines : addr = Entry + InstLength * k

RunInv == ~ BlockEnded => pc = addr /\ returned = 0

DomainsInv == DOMAIN regs = Registers /\ DOMAIN mem = Memories

IInv == AddrInv /\ RunInv /\ DomainsInv /\ PcFollowsCfg /\ ReturnedWhereGraphEnds

-----------------------------------------------------------------------------
LEMMA NextPc ==
  ASSUME NEW k \in 0 .. MaxLines - 1
  PROVE  LET a == Entry + InstLength * k
         IN  /\ Add(XLen, a, InstLength) = a + InstLength
             /\ a \in Nat /\ a % InstLength = 0 /\ (a + InstLength) % InstLength = 0
             /\ (a + InstLength) \div InstLength = a \div InstLength + 1
             /\ a + InstLength = Entry + InstLength * (k + 1) /\ k + 1 \in 0 .. MaxLines
<1> DEFINE a == Entry + InstLength * k
           M == 2^XLen
<1>1. /\ M \in Nat /\ MaxLines \in Nat /\ Entry \in Nat /\ InstLength = 4
      /\ Entry + InstLength * MaxLines \in 0 .. M - 1
      /\ Entry % 4 = 0
  <2>1. XLen \in Nat /\ M \in Nat
    BY WidthsAssumption, PowerNat
  <2> QED
    BY <2>1, WidthsAssumption, LinesAssumption DEF BitVector, InstLength
<1> HIDE DEF M
<1>2. a \in Nat /\ a + 4 \in Nat /\ a + 4 < M
  BY <1>1
<1>3. (a + 4) % M = a + 4
  BY <1>1, <1>2
<1>4. a % 4 = 0 /\ (a + 4) % 4 = 0 /\ (a + 4) \div 4 = a \div 4 + 1
  BY <1>1
<1>5. a + InstLength = Entry + InstLength * (k + 1) /\ k + 1 \in 0 .. MaxLines
  BY <1>1
<1> QED
  BY <1>1, <1>2, <1>3, <1>4, <1>5 DEF Add, M

(* What the graph has for the successors of a line.                        *)
LEMMA SuccessorsOf ==
  ASSUME NEW line
  PROVE  LET next == line.addr \div InstLength + 1
             succ == Asm!Successors(Line(line))
         IN  /\ line.op \in BranchOps => succ = {next, line.imm \div InstLength}
             /\ line.op = "jal" => line.imm \div InstLength \in succ
             /\ line.op = "jalr" => succ = {}
             /\ line.op \notin BranchOps \cup {"jal", "jalr", "mret"} => succ = {next}
             /\ Asm!IsIndJump(Line(line)) <=> line.op \in {"jalr", "mret"}
             /\ Asm!IsJump(Line(line)) <=> line.op \in BranchOps \cup {"jal", "jalr", "mret"}
<1> DEFINE l == Line(line)
<1>1. /\ l.addr = line.addr \div InstLength /\ l.target = line.imm \div InstLength
      /\ l.isExit = FALSE
      /\ l.op = IF line.op \in BranchOps THEN "branch"
                ELSE IF line.op \in {"jal", "jalr", "mret"} THEN line.op ELSE "other"
  BY DEF Line
<1> HIDE DEF l
<1>2. CASE line.op \in BranchOps
  <2>1. l.op = "branch" /\ line.op \notin {"jal", "jalr", "mret"}
    BY <1>1, <1>2 DEF BranchOps
  <2> QED
    BY <1>1, <1>2, <2>1
       DEF l, Asm!Successors, Asm!FallsThrough, Asm!NextAddr, Asm!IsDirJump, Asm!IsJump,
           Asm!IsIndJump, Asm!DirJumpOps, Asm!JumpOps
<1>3. CASE line.op \in {"jal", "jalr", "mret"}
  <2>1. l.op = line.op /\ line.op \notin BranchOps
    BY <1>1, <1>3 DEF BranchOps
  <2> QED
    BY <1>1, <1>3, <2>1
       DEF l, Asm!Successors, Asm!FallsThrough, Asm!NextAddr, Asm!IsDirJump, Asm!IsJump,
           Asm!IsIndJump, Asm!DirJumpOps, Asm!JumpOps
<1>4. CASE line.op \notin BranchOps \cup {"jal", "jalr", "mret"}
  <2>1. l.op = "other"
    BY <1>1, <1>4
  <2> QED
    BY <1>1, <1>4, <2>1
       DEF l, Asm!Successors, Asm!FallsThrough, Asm!NextAddr, Asm!IsDirJump, Asm!IsJump,
           Asm!IsIndJump, Asm!DirJumpOps, Asm!JumpOps
<1> QED
  BY <1>2, <1>3, <1>4

-----------------------------------------------------------------------------
Assigning == UNION {RegRegOps, WordRegOps, ImmOps, WordImmOps, UpperOps, LoadOps}

LEMMA OpClasses ==
  /\ \A op \in Assigning :
       op \in Implemented /\ op \notin StoreOps \cup BranchOps \cup {"jal", "jalr"}
  /\ \A op \in StoreOps : op \notin BranchOps \cup {"jal", "jalr"}
  /\ \A op \in {"jal", "jalr"} : op \in Implemented /\ op \notin StoreOps \cup BranchOps
  /\ BranchOps \subseteq Implemented
<1>1. \A op \in Assigning : op \notin StoreOps \cup BranchOps \cup {"jal", "jalr"}
  BY DEF Assigning, RegRegOps, WordRegOps, ImmOps, WordImmOps, UpperOps, LoadOps, StoreOps,
         BranchOps
<1>2. /\ \A op \in StoreOps : op \notin BranchOps \cup {"jal", "jalr"}
      /\ \A op \in {"jal", "jalr"} : op \notin StoreOps \cup BranchOps
  BY DEF StoreOps, BranchOps
<1>3. /\ \A op \in Assigning : op \in Implemented
      /\ \A op \in {"jal", "jalr"} : op \in Implemented
      /\ BranchOps \subseteq Implemented
  BY DEF Implemented, Assigning
<1> QED
  BY <1>1, <1>2, <1>3

(* What a line does to the pc and to the flag, by its class.               *)
Flows(line) ==
  \/ /\ line.op \in BranchOps
     /\ pc' = line.imm \/ pc' = Add(XLen, pc, InstLength)
     /\ UNCHANGED returned
  \/ line.op = "jal" /\ pc' = line.imm /\ UNCHANGED returned
  \/ line.op = "jalr" /\ returned' = 1
  \/ /\ line.op \notin BranchOps \cup {"jal", "jalr"}
     /\ pc' = Add(XLen, pc, InstLength)
     /\ UNCHANGED returned

(* And what it does to the registers and to the memories.                  *)
Writes(line) ==
  /\ DOMAIN regs' = DOMAIN regs /\ DOMAIN mem' = DOMAIN mem
  /\ \A r \in DOMAIN regs : regs'[r] # regs[r] =>
       r = line.rd /\ line.op \in Implemented \ (StoreOps \cup BranchOps)
  /\ \A m \in DOMAIN mem : mem'[m] # mem[m] => m = Memory(line.op) /\ line.op \in StoreOps

LEMMA AssignWrites ==
  ASSUME NEW line, NEW value, Assign(line, value), UNCHANGED mem,
         line.op \in Implemented \ (StoreOps \cup BranchOps)
  PROVE  Writes(line)
  BY DEF Assign, Writes

LEMMA ExecuteClasses ==
  ASSUME NEW line, Execute(line)
  PROVE  Flows(line) /\ Writes(line)
<1>1. ASSUME NEW value, line.op \in Assigning, Assign(line, value), UpdatePc,
             UNCHANGED <<returned, mem>>
      PROVE  Flows(line) /\ Writes(line)
  <2>1. Writes(line)
    BY <1>1, OpClasses, AssignWrites
  <2>2. Flows(line)
    BY <1>1, OpClasses DEF Flows, UpdatePc
  <2> QED
    BY <2>1, <2>2
<1>2. CASE ExecRegReg(line)
  BY <1>1, <1>2 DEF ExecRegReg, Assigning
<1>3. CASE ExecWordReg(line)
  BY <1>1, <1>3 DEF ExecWordReg, Assigning
<1>4. CASE ExecImm(line)
  BY <1>1, <1>4 DEF ExecImm, Assigning
<1>5. CASE ExecWordImm(line)
  BY <1>1, <1>5 DEF ExecWordImm, Assigning
<1>6. CASE ExecUpper(line)
  BY <1>1, <1>6 DEF ExecUpper, Assigning
<1>7. CASE ExecLoad(line)
  BY <1>1, <1>7 DEF ExecLoad, Assigning
<1>8. CASE ExecStore(line)
  <2>1. /\ line.op \in StoreOps /\ UpdatePc /\ UNCHANGED <<regs, returned>>
        /\ \E value : mem' = [mem EXCEPT ![Memory(line.op)] = value]
    BY <1>8 DEF ExecStore
  <2>2. Writes(line)
    BY <2>1 DEF Writes
  <2>3. Flows(line)
    BY <2>1, OpClasses DEF Flows, UpdatePc
  <2> QED
    BY <2>2, <2>3
<1>9. CASE ExecBranch(line)
  BY <1>9 DEF ExecBranch, Flows, Writes, UpdatePc
<1>10. CASE ExecJal(line)
  <2>1. Writes(line)
    BY <1>10, OpClasses, AssignWrites DEF ExecJal
  <2> QED
    BY <1>10, <2>1 DEF ExecJal, Flows
<1>11. CASE ExecJalr(line)
  <2>1. Writes(line)
    BY <1>11, OpClasses, AssignWrites DEF ExecJalr
  <2> QED
    BY <1>11, <2>1 DEF ExecJalr, Flows
<1>12. CASE ExecUnimplemented(line)
  <2>1. line.op \notin BranchOps \cup {"jal", "jalr"}
    BY <1>12, OpClasses DEF ExecUnimplemented
  <2> QED
    BY <1>12, <2>1 DEF ExecUnimplemented, Flows, Writes, UpdatePc
<1> QED
  BY <1>2, <1>3, <1>4, <1>5, <1>6, <1>7, <1>8, <1>9, <1>10, <1>11, <1>12 DEF Execute

-----------------------------------------------------------------------------
LEMMA InitInv == Init => IInv
<1> SUFFICES ASSUME Init PROVE IInv
  OBVIOUS
<1>1. AddrInv
  <2>1. 0 \in 0 .. MaxLines /\ addr = Entry + InstLength * 0
    BY WidthsAssumption DEF Init, InstLength
  <2> QED
    BY <2>1 DEF AddrInv
<1>2. RunInv /\ PcFollowsCfg /\ ReturnedWhereGraphEnds
  BY DEF Init, RunInv, PcFollowsCfg, ReturnedWhereGraphEnds
<1>3. DomainsInv
  BY DEF Init, DomainsInv
<1> QED
  BY <1>1, <1>2, <1>3 DEF IInv

LEMMA ExecLineInv == IInv /\ ExecLine => IInv'
<1> SUFFICES ASSUME IInv, ExecLine PROVE IInv'
  OBVIOUS
<1>1. /\ ~ BlockEnded /\ addr < Entry + InstLength * MaxLines
      /\ addr' = addr + InstLength
  BY DEF ExecLine
<1>2. PICK line \in LinesAt(addr) : Execute(line) /\ last' = line
  BY DEF ExecLine
<1>3. PICK k \in 0 .. MaxLines : addr = Entry + InstLength * k
  BY DEF IInv, AddrInv
<1>4. k \in 0 .. MaxLines - 1
  BY <1>1, <1>3, WidthsAssumption DEF InstLength
<1>5. /\ Add(XLen, addr, InstLength) = addr + InstLength
      /\ (addr + InstLength) % InstLength = 0
      /\ (addr + InstLength) \div InstLength = addr \div InstLength + 1
      /\ addr + InstLength = Entry + InstLength * (k + 1) /\ k + 1 \in 0 .. MaxLines
  BY <1>3, <1>4, NextPc
<1>6. /\ line.addr = addr
      /\ line.op \in BranchOps \cup {"jal"} => line.imm % InstLength = 0
  BY <1>2, <1>3, <1>4, LinesAssumption DEF BranchOps
<1>7. pc = addr /\ returned = 0
  BY <1>1 DEF IInv, RunInv
<1>8. Flows(line) /\ Writes(line)
  BY <1>2, ExecuteClasses
<1> DEFINE succ == Asm!Successors(Line(line))
           next == addr \div InstLength + 1
<1>9. /\ line.op \in BranchOps => succ = {next, line.imm \div InstLength}
      /\ line.op = "jal" => line.imm \div InstLength \in succ
      /\ line.op = "jalr" => succ = {}
      /\ line.op \notin BranchOps \cup {"jal", "jalr", "mret"} => succ = {next}
      /\ Asm!IsIndJump(Line(line)) <=> line.op \in {"jalr", "mret"}
      /\ Asm!IsJump(Line(line)) <=> line.op \in BranchOps \cup {"jal", "jalr", "mret"}
  BY <1>6, SuccessorsOf
<1>10. "jal" \notin BranchOps /\ "jalr" \notin BranchOps /\ "mret" \notin BranchOps
  BY DEF BranchOps
<1> HIDE DEF succ, next
<1>11. AddrInv'
  BY <1>1, <1>5 DEF AddrInv
<1>12. RunInv'
  <2>1. BlockEnded' <=> (line # NoLine /\ Asm!IsJump(Line(line)))
    BY <1>2 DEF BlockEnded, Line
  <2>2. ASSUME ~ BlockEnded' PROVE pc' = addr' /\ returned' = 0
    <3>1. line.op \notin BranchOps \cup {"jal", "jalr", "mret"}
      <4>1. CASE line = NoLine
        BY <4>1 DEF NoLine, BranchOps
      <4>2. CASE line # NoLine
        BY <1>9, <2>1, <2>2, <4>2
      <4> QED
        BY <4>1, <4>2
    <3> QED
      BY <1>1, <1>5, <1>7, <1>8, <3>1 DEF Flows
  <2> QED
    BY <2>2 DEF RunInv
<1>13. DomainsInv'
  BY <1>8 DEF IInv, DomainsInv, Writes
<1>14. PcFollowsCfg'
  <2>1. ASSUME ~ Asm!IsIndJump(Line(line))
        PROVE  pc' % InstLength = 0 /\ pc' \div InstLength \in succ
    <3>1. line.op \notin {"jalr", "mret"}
      BY <1>9, <2>1
    <3>2. CASE line.op \in BranchOps
      BY <1>5, <1>6, <1>7, <1>8, <1>9, <1>10, <3>1, <3>2 DEF Flows, next
    <3>3. CASE line.op = "jal"
      BY <1>6, <1>8, <1>9, <1>10, <3>3 DEF Flows
    <3>4. CASE line.op \notin BranchOps \cup {"jal"}
      BY <1>5, <1>7, <1>8, <1>9, <3>1, <3>4 DEF Flows, next
    <3> QED
      BY <3>2, <3>3, <3>4
  <2> QED
    BY <1>2, <2>1 DEF PcFollowsCfg, succ, Line
<1>15. ReturnedWhereGraphEnds'
  <2>1. ASSUME line.op # "mret" PROVE returned' = 1 <=> succ = {}
    <3>1. CASE line.op = "jalr"
      BY <1>8, <1>9, <1>10, <3>1 DEF Flows
    <3>2. CASE line.op # "jalr"
      <4>1. returned' = 0
        BY <1>7, <1>8, <3>2 DEF Flows
      <4>2. succ # {}
        BY <1>9, <2>1, <3>2
      <4> QED
        BY <4>1, <4>2
    <3> QED
      BY <3>1, <3>2
  <2> QED
    BY <1>2, <2>1 DEF ReturnedWhereGraphEnds, succ, Line
<1> QED
  BY <1>11, <1>12, <1>13, <1>14, <1>15 DEF IInv

LEMMA StutterInv == IInv /\ UNCHANGED vars => IInv'
<1> SUFFICES ASSUME IInv, UNCHANGED vars PROVE IInv'
  OBVIOUS
<1>1. UNCHANGED <<regs, pc, returned, mem, addr, last>>
  BY DEF vars
<1>2. AddrInv' /\ RunInv' /\ DomainsInv'
  BY <1>1 DEF IInv, AddrInv, RunInv, DomainsInv, BlockEnded, Line
<1>3. PcFollowsCfg' /\ ReturnedWhereGraphEnds'
  BY <1>1 DEF IInv, PcFollowsCfg, ReturnedWhereGraphEnds, Line
<1> QED
  BY <1>2, <1>3 DEF IInv

(* The invariant holds in every state of every block: the addresses do not *)
(* wrap, and the pc is where the next line is.                             *)
THEOREM Invariance == Spec => []IInv
<1>1. IInv /\ [Next]_vars => IInv'
  BY ExecLineInv, StutterInv DEF Next, Stopped
<1> QED
  BY InitInv, <1>1, PTL DEF Spec

(***************************************************************************)
(* For every block: the pc is always the address of a line that the graph  *)
(* has for a successor of the line just executed (jalr and mret excepted). *)
(***************************************************************************)
THEOREM PcIsInGraph == Spec => []PcFollowsCfg
<1>1. IInv => PcFollowsCfg
  BY DEF IInv
<1> QED
  BY Invariance, <1>1, PTL

(***************************************************************************)
(* For every block: the flag is set exactly by a line that the graph ends  *)
(* at (mret excepted).                                                     *)
(***************************************************************************)
THEOREM ReturnedAtEnds == Spec => []ReturnedWhereGraphEnds
<1>1. IInv => ReturnedWhereGraphEnds
  BY DEF IInv
<1> QED
  BY Invariance, <1>1, PTL

(***************************************************************************)
(* For every block: a line changes no variable that is not in the modifies *)
(* set inferred for it.                                                    *)
(***************************************************************************)
THEOREM ModSetIsComplete == Spec => ModSetCovers
<1>1. IInv /\ [Next]_vars => [Changed \subseteq ModSet(last')]_vars
  <2> SUFFICES ASSUME IInv, ExecLine PROVE Changed \subseteq ModSet(last')
    BY DEF Next, Stopped
  <2>1. PICK line : Execute(line) /\ last' = line
    BY DEF ExecLine
  <2>2. Writes(line)
    BY <2>1, ExecuteClasses
  <2>3. /\ \A r \in Registers : regs'[r] # regs[r] => r \in ModSet(line)
        /\ \A m \in Memories : mem'[m] # mem[m] => m \in ModSet(line)
    BY <2>2 DEF IInv, DomainsInv, Writes, ModSet
  <2>4. "pc" \in ModSet(line) /\ "returned" \in ModSet(line)
    BY DEF ModSet
  <2>5. ASSUME NEW v \in Changed PROVE v \in ModSet(line)
    BY <2>3, <2>4, <2>5 DEF Changed
  <2> QED
    BY <2>1, <2>5
<1> QED
  BY Invariance, <1>1, PTL DEF Spec, ModSetCovers
-----------------------------------------------------------------------------
(* The widths, and the operators on words, in the arithmetic of RiscvIsa.  *)
LEMMA Widths ==
  /\ XLen \in Nat \ {0} /\ Byte \in Nat \ {0} /\ Half \in Nat \ {0} /\ Word \in Nat \ {0}
  /\ Byte < Half /\ Half < Word /\ Word < XLen /\ Word + Word = XLen
  /\ \E k \in Nat : k <= XLen /\ XLen = 2^k
  /\ \E k \in Nat : k <= XLen /\ Word = 2^k
<1>1. PICK k \in 0 .. XLen : XLen = 2^k
  BY WidthsAssumption
<1>2. XLen \in Nat \ {0} /\ XLen % 8 = 0 /\ k \in Nat /\ k <= XLen
  <2>1. XLen \in Nat /\ XLen % 8 = 0
    BY WidthsAssumption
  <2>2. k \in Nat /\ k <= XLen
    BY <2>1
  <2>3. 2^k # 0
    BY <2>2, PowerPos
  <2> QED
    BY <1>1, <2>1, <2>2, <2>3
<1>3. /\ Byte \in Nat \ {0} /\ Half \in Nat \ {0} /\ Word \in Nat \ {0}
      /\ Byte < Half /\ Half < Word /\ Word < XLen /\ Word + Word = XLen
  BY <1>2 DEF Byte, Half, Word
<1>4. k # 0
  <2> SUFFICES ASSUME k = 0 PROVE FALSE
    OBVIOUS
  <2>1. XLen = 2^0
    BY <1>1, Zenon
  <2> QED
    BY <1>2, <2>1, PowerZero
<1>5. k - 1 \in Nat /\ (k - 1) + 1 = k /\ k - 1 <= XLen
  BY <1>2, <1>4
<1>6. 2^k = 2 * 2^(k - 1) /\ 2^(k - 1) \in Nat
  BY <1>5, PowerDouble, PowerNat
<1>7. Word = 2^(k - 1)
  <2> DEFINE p == 2^(k - 1)
  <2>1. XLen = 2 * p /\ p \in Nat
    BY <1>1, <1>6
  <2> HIDE DEF p
  <2>2. Word = p
    BY <1>3, <2>1
  <2> QED
    BY <2>2 DEF p
<1> QED
  BY <1>1, <1>2, <1>3, <1>5, <1>7

LEMMA Moduli ==
  /\ 2^XLen \in Nat \ {0} /\ 2^Word \in Nat \ {0} /\ 2^XLen = 2^Word * 2^Word
<1>1. Word \in Nat /\ XLen \in Nat /\ Word + Word = XLen
  BY Widths
<1>2. 2^(Word + Word) = 2^Word * 2^Word
  BY <1>1, PowerSum
<1> QED
  BY <1>1, <1>2, PowerPos

LEMMA SignedIs ==
  ASSUME NEW w, NEW x
  PROVE  Signed(w, x) = TwosComplement(w, x)
  BY DEF Signed, TwosComplement

LEMMA UnsignedVector ==
  ASSUME NEW n \in Int
  PROVE  Unsigned(n) \in BitVector(XLen)
<1> DEFINE M == 2^XLen
<1>1. M \in Nat \ {0}
  BY Moduli
<1> HIDE DEF M
<1>2. n % M \in 0 .. M - 1
  BY <1>1
<1> QED
  BY <1>2 DEF Unsigned, BitVector, M

LEMMA WordOf ==
  ASSUME NEW n \in Int
  PROVE  n % 2^Word \in BitVector(Word)
<1> DEFINE M == 2^Word
<1>1. M \in Nat \ {0}
  BY Moduli
<1> HIDE DEF M
<1>2. n % M \in 0 .. M - 1
  BY <1>1
<1> QED
  BY <1>2 DEF BitVector, M

LEMMA SmallVectors ==
  /\ 0 \in BitVector(XLen) /\ 1 \in BitVector(XLen)
  /\ \A n \in Nat : n <= XLen => n \in BitVector(XLen)
<1> DEFINE M == 2^XLen
<1>1. M \in Nat /\ XLen < M /\ 1 <= XLen /\ XLen \in Nat
  BY Widths, NumberBelowPower, PowerNat
<1> HIDE DEF M
<1>2. 0 \in 0 .. M - 1 /\ 1 \in 0 .. M - 1 /\ \A n \in Nat : n <= XLen => n \in 0 .. M - 1
  BY <1>1
<1> QED
  BY <1>2 DEF BitVector, M

LEMMA ShiftAmounts ==
  ASSUME NEW y \in BitVector(XLen)
  PROVE  /\ ShiftAmount(y) = y % XLen /\ y % XLen \in Nat /\ y % XLen < XLen
         /\ WordShiftAmount(y) = y % Word /\ y % Word \in Nat /\ y % Word < Word
<1>1. y \in Nat /\ XLen \in Nat \ {0} /\ Word \in Nat \ {0}
  BY Widths, VectorInPower
<1>2. PICK k \in Nat : k <= XLen /\ XLen = 2^k
  BY Widths
<1>3. PICK j \in Nat : j <= XLen /\ Word = 2^j
  BY Widths
<1>4. And(XLen, y, 2^k - 1) = y % 2^k /\ And(XLen, y, 2^j - 1) = y % 2^j
  BY <1>1, <1>2, <1>3, AndMask
<1>5. /\ y % XLen \in Nat /\ y % XLen < XLen
      /\ y % Word \in Nat /\ y % Word < Word
  BY <1>1, DivMod
<1>6. ShiftAmount(y) = y % XLen
  BY <1>2, <1>4 DEF ShiftAmount
<1>7. WordShiftAmount(y) = y % Word
  BY <1>3, <1>4 DEF WordShiftAmount
<1> QED
  BY <1>5, <1>6, <1>7

LEMMA LowWordIs ==
  ASSUME NEW x \in Int
  PROVE  LowWord(x) = x % 2^Word /\ LowWord(x) \in BitVector(Word)
<1>1. XLen \in Nat /\ Word - 1 \in Nat /\ Word - 1 < XLen /\ (Word - 1) + 1 = Word
  BY Widths
<1>2. LowWord(x) = x % 2^Word
  <2>1. Slice(XLen, Word - 1, 0, x) = x % 2^((Word - 1) + 1)
    BY <1>1, SliceLow
  <2> QED
    BY <1>1, <2>1 DEF LowWord
<1> QED
  BY <1>2, WordOf

(* An amount below the width of a word is not changed by cutting it.       *)
LEMMA LowWordSmall ==
  ASSUME NEW n \in Nat, n < Word
  PROVE  LowWord(n) = n
<1> DEFINE M == 2^Word
<1>1. Word \in Nat /\ Word < M /\ M \in Nat \ {0}
  BY Widths, NumberBelowPower, Moduli
<1>2. LowWord(n) = n % M
  BY LowWordIs
<1> HIDE DEF M
<1>3. n % M = n
  BY <1>1
<1> QED
  BY <1>2, <1>3

LEMMA LowWordOfVector ==
  ASSUME NEW n \in Int
  PROVE  LowWord(n % 2^XLen) = n % 2^Word
<1> DEFINE M == 2^Word
           L == 2^XLen
<1>1. M \in Nat \ {0} /\ L = M * M /\ L \in Nat \ {0}
  BY Moduli
<1>2. n % L \in Int
  <2> HIDE DEF L, M
  <2> QED
    BY <1>1, DivMod
<1>3. LowWord(n % L) = (n % L) % M
  BY <1>2, LowWordIs
<1>4. (n % (M * M)) % M = n % M
  <2> HIDE DEF L, M
  <2> QED
    BY <1>1, ModOfMod
<1> QED
  BY <1>1, <1>3, <1>4

LEMMA FromWordIs ==
  ASSUME NEW x \in BitVector(Word)
  PROVE  /\ FromWord(x) = Unsigned(Signed(Word, x)) /\ FromWord(x) = SignedWord(x)
         /\ FromWord(x) \in BitVector(XLen)
<1>1. Word \in Nat \ {0} /\ Word + Word = XLen
  BY Widths
<1>2. SignExt(Word, Word, x) = TwosComplement(Word, x) % 2^(Word + Word)
  BY <1>1, SignExtIs
<1>3. FromWord(x) = Unsigned(Signed(Word, x))
  BY <1>1, <1>2, SignedIs DEF FromWord, Unsigned
<1>4. x % 2^Word = x
  BY <1>1, VectorInPower
<1>5. FromWord(x) = SignedWord(x)
  BY <1>3, <1>4 DEF SignedWord
<1>6. Signed(Word, x) \in Int
  BY <1>1, SignedIs, TwosComplementInt
<1> QED
  BY <1>3, <1>5, <1>6, UnsignedVector

LEMMA SignedWordMod ==
  ASSUME NEW n \in Int
  PROVE  FromWord(n % 2^Word) = SignedWord(n)
<1>1. n % 2^Word \in BitVector(Word)
  BY WordOf
<1>2. FromWord(n % 2^Word) = Unsigned(Signed(Word, n % 2^Word))
  BY <1>1, FromWordIs
<1> QED
  BY <1>2 DEF SignedWord

-----------------------------------------------------------------------------
(* What the instructions on two registers compute.                         *)
LEMMA RegRegIs ==
  ASSUME NEW x \in BitVector(XLen), NEW y \in BitVector(XLen)
  PROVE  LET sx == Signed(XLen, x)
             sy == Signed(XLen, y)
             s == y % XLen
         IN /\ RegReg("add", x, y) = Unsigned(x + y)
            /\ RegReg("sub", x, y) = Unsigned(x - y)
            /\ RegReg("mul", x, y) = Unsigned(sx * sy)
            /\ RegReg("sll", x, y) = Unsigned(x * 2^s)
            /\ RegReg("slt", x, y) = (IF sx < sy THEN 1 ELSE 0)
            /\ RegReg("sltu", x, y) = (IF x < y THEN 1 ELSE 0)
            /\ RegReg("srl", x, y) = x \div 2^s
            /\ RegReg("sra", x, y) = Unsigned(sx \div 2^s)
<1> DEFINE s == y % XLen
<1>1. /\ XLen \in Nat \ {0} /\ x \in Nat /\ y \in Nat
      /\ s \in Nat /\ s <= XLen /\ ShiftAmount(y) = s
  BY Widths, VectorInPower, ShiftAmounts
<1> HIDE DEF s
<1>2. RegReg("add", x, y) = Unsigned(x + y) /\ RegReg("sub", x, y) = Unsigned(x - y)
  BY DEF RegReg, Add, Sub, Unsigned
<1>3. RegReg("mul", x, y) = Unsigned(Signed(XLen, x) * Signed(XLen, y))
  <2>1. RegReg("mul", x, y) = (x * y) % 2^XLen
    BY DEF RegReg, Mul
  <2>2. (TwosComplement(XLen, x) * TwosComplement(XLen, y)) % 2^XLen = (x * y) % 2^XLen
    BY <1>1, ModMul
  <2> QED
    BY <2>1, <2>2, SignedIs DEF Unsigned
<1>4. RegReg("sll", x, y) = Unsigned(x * 2^s)
  <2>1. RegReg("sll", x, y) = LeftShift(XLen, x, s)
    BY <1>1 DEF RegReg
  <2> QED
    BY <1>1, <2>1, LeftShiftIs DEF Unsigned
<1>5. RegReg("slt", x, y) = (IF Signed(XLen, x) < Signed(XLen, y) THEN 1 ELSE 0)
  <2>1. RegReg("slt", x, y) = (IF Lt(XLen, x, y) THEN 1 ELSE 0)
    BY DEF RegReg, OneIf
  <2> QED
    BY <1>1, <2>1, LtIsSigned, SignedIs
<1>6. RegReg("sltu", x, y) = (IF x < y THEN 1 ELSE 0)
  BY DEF RegReg, OneIf, Ltu
<1>7. RegReg("srl", x, y) = x \div 2^s
  <2>1. RegReg("srl", x, y) = RightShift(XLen, x, s)
    BY <1>1 DEF RegReg
  <2> QED
    BY <1>1, <2>1, RightShiftIs
<1>8. RegReg("sra", x, y) = Unsigned(Signed(XLen, x) \div 2^s)
  <2>1. RegReg("sra", x, y) = ARightShift(XLen, x, s)
    BY <1>1 DEF RegReg
  <2> QED
    BY <1>1, <2>1, ARightShiftIs, SignedIs DEF Unsigned
<1> QED
  BY <1>2, <1>3, <1>4, <1>5, <1>6, <1>7, <1>8 DEF s

(* The operators of two vectors give vectors.                              *)
LEMMA BitwiseVector ==
  ASSUME NEW w \in Nat, NEW x, NEW y
  PROVE  /\ And(w, x, y) \in BitVector(w) /\ Or(w, x, y) \in BitVector(w)
         /\ Xor(w, x, y) \in BitVector(w)
<1>1. Bits(w, x) \subseteq 0 .. w - 1 /\ Bits(w, y) \subseteq 0 .. w - 1
  BY BitsBelow
<1>2. /\ Bits(w, x) \cap Bits(w, y) \subseteq 0 .. w - 1
      /\ Bits(w, x) \cup Bits(w, y) \subseteq 0 .. w - 1
      /\ (Bits(w, x) \cup Bits(w, y)) \ (Bits(w, x) \cap Bits(w, y)) \subseteq 0 .. w - 1
  BY <1>1
<1> QED
  BY <1>2, NumberBelow DEF And, Or, Xor

LEMMA ShiftVector ==
  ASSUME NEW w \in Nat, NEW x, NEW n
  PROVE  /\ LeftShift(w, x, n) \in BitVector(w) /\ RightShift(w, x, n) \in BitVector(w)
         /\ ARightShift(w, x, n) \in BitVector(w)
<1>1. LeftShift(w, x, n) \in BitVector(w) /\ RightShift(w, x, n) \in BitVector(w)
  <2>1. /\ {i + n : i \in Bits(w, x)} \cap (0 .. w - 1) \subseteq 0 .. w - 1
        /\ {i - n : i \in Bits(w, x)} \cap (0 .. w - 1) \subseteq 0 .. w - 1
    OBVIOUS
  <2> QED
    BY <2>1, NumberBelow DEF LeftShift, RightShift
<1>2. ARightShift(w, x, n) \in BitVector(w)
  <2> DEFINE low == {i - n : i \in Bits(w, x)} \cap (0 .. w - 1)
             high == IF IsNegative(w, x) THEN {i \in 0 .. w - 1 : i + n >= w} ELSE {}
  <2>1. low \subseteq 0 .. w - 1 /\ high \subseteq 0 .. w - 1
    OBVIOUS
  <2>2. ARightShift(w, x, n) = Number(low \cup high)
    BY DEF ARightShift
  <2> HIDE DEF low, high
  <2>3. low \cup high \subseteq 0 .. w - 1
    BY <2>1
  <2> QED
    BY <2>2, <2>3, NumberBelow
<1> QED
  BY <1>1, <1>2

LEMMA RegRegVector ==
  ASSUME NEW op \in RegRegOps, NEW x \in BitVector(XLen), NEW y \in BitVector(XLen)
  PROVE  RegReg(op, x, y) \in BitVector(XLen)
<1>1. XLen \in Nat /\ x + y \in Int /\ x - y \in Int /\ x * y \in Int
  <2>1. XLen \in Nat /\ x \in Nat /\ y \in Nat
    BY Widths, VectorInPower
  <2> QED
    BY <2>1
<1>2. CASE op \in {"add", "sub", "mul"}
  <2>1. RegReg(op, x, y) \in {Unsigned(x + y), Unsigned(x - y), Unsigned(x * y)}
    BY <1>2 DEF RegReg, Add, Sub, Mul, Unsigned
  <2> QED
    BY <1>1, <2>1, UnsignedVector
<1>3. CASE op \in {"slt", "sltu"}
  <2>1. RegReg(op, x, y) \in {0, 1}
    BY <1>3 DEF RegReg, OneIf
  <2> QED
    BY <2>1, SmallVectors
<1>4. CASE op \in {"and", "or", "xor"}
  <2>1. RegReg(op, x, y) \in {And(XLen, x, y), Or(XLen, x, y), Xor(XLen, x, y)}
    BY <1>4 DEF RegReg
  <2> QED
    BY <1>1, <2>1, BitwiseVector
<1>5. CASE op \in {"sll", "srl", "sra"}
  <2> DEFINE s == ShiftAmount(y)
  <2>1. RegReg(op, x, y) \in {LeftShift(XLen, x, s), RightShift(XLen, x, s), ARightShift(XLen, x, s)}
    BY <1>5 DEF RegReg
  <2> HIDE DEF s
  <2> QED
    BY <1>1, <2>1, ShiftVector
<1> QED
  BY <1>2, <1>3, <1>4, <1>5 DEF RegRegOps

-----------------------------------------------------------------------------
(* What the instructions on words compute.                                 *)
LEMMA ShiftLeftWord ==
  ASSUME NEW x \in Int, NEW s \in Nat, s < Word
  PROVE  FromWord(LeftShift(Word, LowWord(x), s)) = SignedWord(x * 2^s)
<1> DEFINE M == 2^Word
           c == 2^s
<1>1. Word \in Nat /\ s <= Word /\ LowWord(x) = x % M /\ x % M \in Int /\ c \in Int
  BY Widths, LowWordIs, WordOf, VectorInPower, PowerNat
<1>2. LeftShift(Word, x % M, s) = ((x % M) * c) % M
  BY <1>1, LeftShiftIs
<1>3. M \in Nat \ {0}
  BY Moduli
<1>4. ((x % M) * c) % M = (x * c) % M /\ x * c \in Int
  <2> HIDE DEF M, c
  <2>1. x * c \in Int
    BY <1>1
  <2>2. ((x % M) * c) % M = (x * c) % M
    BY <1>1, <1>3, ModScale
  <2> QED
    BY <2>1, <2>2
<1>5. FromWord((x * c) % M) = SignedWord(x * c)
  <2> HIDE DEF c
  <2> QED
    BY <1>4, SignedWordMod
<1> QED
  BY <1>1, <1>2, <1>4, <1>5

LEMMA ShiftRightWord ==
  ASSUME NEW x \in Int, NEW s \in Nat, s < Word
  PROVE  /\ FromWord(RightShift(Word, LowWord(x), s)) = SignedWord((x % 2^Word) \div 2^s)
         /\ FromWord(ARightShift(Word, LowWord(x), s))
              = Unsigned(Signed(Word, x % 2^Word) \div 2^s)
<1> DEFINE u == x % 2^Word
           t == TwosComplement(Word, u)
           z == t \div 2^s
<1>1. Word \in Nat \ {0} /\ s <= Word /\ LowWord(x) = u /\ u \in BitVector(Word)
  BY Widths, LowWordIs, WordOf
<1>2. FromWord(RightShift(Word, u, s)) = SignedWord(u \div 2^s)
  <2>1. RightShift(Word, u, s) = u \div 2^s /\ RightShift(Word, u, s) \in BitVector(Word)
    BY <1>1, RightShiftIs, ShiftVector
  <2> QED
    BY <2>1, FromWordIs
<1>3. ARightShift(Word, u, s) = z % 2^Word
  BY <1>1, ARightShiftIs
<1> HIDE DEF u
<1>4. z \in Int /\ 2 * z < 2^Word /\ -(2^Word) <= 2 * z
  <2>1. t \in Int /\ 2 * t < 2^Word /\ -(2^Word) <= 2 * t
    BY <1>1, SignedRange
  <2>2. 2^s \in Nat \ {0} /\ 2^Word \in Nat
    BY <1>1, PowerPos, PowerNat
  <2> HIDE DEF t
  <2> QED
    BY <2>1, <2>2, QuotientRange
<1> HIDE DEF z
<1>5. z % 2^Word \in BitVector(Word) /\ TwosComplement(Word, z % 2^Word) = z
  BY <1>1, <1>4, RoundTrip
<1>6. FromWord(z % 2^Word) = Unsigned(z)
  BY <1>5, FromWordIs, SignedIs
<1> QED
  BY <1>1, <1>2, <1>3, <1>6, SignedIs DEF u, t, z

LEMMA WordRegIs ==
  ASSUME NEW x \in BitVector(XLen), NEW y \in BitVector(XLen)
  PROVE  LET s == y % Word
         IN /\ WordReg("addw", x, y) = SignedWord(x + y)
            /\ WordReg("subw", x, y) = SignedWord(x - y)
            /\ WordReg("sllw", x, y) = SignedWord(x * 2^s)
            /\ WordReg("srlw", x, y) = SignedWord((x % 2^Word) \div 2^s)
            /\ WordReg("sraw", x, y) = Unsigned(Signed(Word, x % 2^Word) \div 2^s)
<1> DEFINE s == y % Word
<1>1. x \in Int /\ x + y \in Int /\ x - y \in Int
  <2>1. XLen \in Nat /\ x \in Nat /\ y \in Nat
    BY Widths, VectorInPower
  <2> QED
    BY <2>1
<1>2. s \in Nat /\ s < Word /\ WordShiftAmount(y) = s /\ LowWord(s) = s
  BY ShiftAmounts, LowWordSmall
<1> HIDE DEF s
<1>3. WordReg("addw", x, y) = SignedWord(x + y) /\ WordReg("subw", x, y) = SignedWord(x - y)
  <2>1. /\ WordReg("addw", x, y) = FromWord(LowWord((x + y) % 2^XLen))
        /\ WordReg("subw", x, y) = FromWord(LowWord((x - y) % 2^XLen))
    BY DEF WordReg, Add, Sub
  <2> QED
    BY <1>1, <2>1, LowWordOfVector, SignedWordMod
<1>4. WordReg("sllw", x, y) = SignedWord(x * 2^s)
  <2>1. WordReg("sllw", x, y) = FromWord(LeftShift(Word, LowWord(x), s))
    BY <1>2 DEF WordReg
  <2> QED
    BY <1>1, <1>2, <2>1, ShiftLeftWord
<1>5. /\ WordReg("srlw", x, y) = SignedWord((x % 2^Word) \div 2^s)
      /\ WordReg("sraw", x, y) = Unsigned(Signed(Word, x % 2^Word) \div 2^s)
  <2>1. /\ WordReg("srlw", x, y) = FromWord(RightShift(Word, LowWord(x), s))
        /\ WordReg("sraw", x, y) = FromWord(ARightShift(Word, LowWord(x), s))
    BY <1>2 DEF WordReg
  <2> QED
    BY <1>1, <1>2, <2>1, ShiftRightWord
<1> QED
  BY <1>3, <1>4, <1>5 DEF s

LEMMA WordRegVector ==
  ASSUME NEW op \in WordRegOps, NEW x \in BitVector(XLen), NEW y \in BitVector(XLen)
  PROVE  WordReg(op, x, y) \in BitVector(XLen)
<1>1. Word \in Nat /\ x + y \in Int /\ x - y \in Int
  <2>1. XLen \in Nat /\ Word \in Nat /\ x \in Nat /\ y \in Nat
    BY Widths, VectorInPower
  <2> QED
    BY <2>1
<1>2. CASE op \in {"addw", "subw"}
  <2>1. WordReg(op, x, y) \in {FromWord(LowWord((x + y) % 2^XLen)), FromWord(LowWord((x - y) % 2^XLen))}
    BY <1>2 DEF WordReg, Add, Sub
  <2>2. /\ LowWord((x + y) % 2^XLen) \in BitVector(Word)
        /\ LowWord((x - y) % 2^XLen) \in BitVector(Word)
    BY <1>1, LowWordOfVector, WordOf
  <2> QED
    BY <2>1, <2>2, FromWordIs
<1>3. CASE op \in {"sllw", "srlw", "sraw"}
  <2> DEFINE s == WordShiftAmount(y)
             v == LowWord(x)
  <2>1. WordReg(op, x, y) \in {FromWord(LeftShift(Word, v, LowWord(s))),
                               FromWord(RightShift(Word, v, s)), FromWord(ARightShift(Word, v, s))}
    BY <1>3 DEF WordReg
  <2> HIDE DEF s, v
  <2> QED
    BY <1>1, <2>1, ShiftVector, FromWordIs
<1> QED
  BY <1>2, <1>3 DEF WordRegOps

-----------------------------------------------------------------------------
(* An instruction with an immediate computes what the one on registers     *)
(* does with the immediate in its second register.                         *)
RegRegOf ==
  [op \in ImmOps |->
     CASE op = "addi"  -> "add"  [] op = "slti" -> "slt" [] op = "sltiu" -> "sltu"
       [] op = "xori"  -> "xor"  [] op = "ori"  -> "or"  [] op = "andi"  -> "and"
       [] op = "slli"  -> "sll"  [] op = "srli" -> "srl" [] op = "srai"  -> "sra"]

LEMMA ImmIsRegReg ==
  ASSUME NEW op \in ImmOps, NEW x \in BitVector(XLen), NEW imm \in BitVector(XLen),
         Assumed(op, imm)
  PROVE  Imm(op, x, imm) = RegReg(RegRegOf[op], x, imm) /\ RegRegOf[op] \in RegRegOps
<1>1. CASE op \in {"slli", "srli", "srai"}
  <2>1. imm \in Nat /\ imm < XLen /\ XLen \in Nat
    BY <1>1, Widths, VectorInPower DEF Assumed, Ltu
  <2>2. ShiftAmount(imm) = imm
    <3>1. imm % XLen = imm
      BY <2>1
    <3> QED
      BY <3>1, ShiftAmounts
  <2>3. CASE op = "slli"
    <3>1. RegRegOf[op] = "sll"
      BY <2>3 DEF RegRegOf
    <3>2. RegReg("sll", x, imm) = LeftShift(XLen, x, imm) /\ Imm("slli", x, imm) = LeftShift(XLen, x, imm)
      BY <2>2 DEF RegReg, Imm
    <3> QED
      BY <2>3, <3>1, <3>2 DEF RegRegOps
  <2>4. CASE op = "srli"
    <3>1. RegRegOf[op] = "srl"
      BY <2>4 DEF RegRegOf
    <3>2. RegReg("srl", x, imm) = RightShift(XLen, x, imm) /\ Imm("srli", x, imm) = RightShift(XLen, x, imm)
      BY <2>2 DEF RegReg, Imm
    <3> QED
      BY <2>4, <3>1, <3>2 DEF RegRegOps
  <2>5. CASE op = "srai"
    <3>1. RegRegOf[op] = "sra"
      BY <2>5 DEF RegRegOf
    <3>2. RegReg("sra", x, imm) = ARightShift(XLen, x, imm) /\ Imm("srai", x, imm) = ARightShift(XLen, x, imm)
      BY <2>2 DEF RegReg, Imm
    <3> QED
      BY <2>5, <3>1, <3>2 DEF RegRegOps
  <2> QED
    BY <1>1, <2>3, <2>4, <2>5
<1>2. CASE op \in {"addi", "slti", "sltiu"}
  <2>1. CASE op = "addi"
    BY <2>1 DEF RegRegOf, RegRegOps, RegReg, Imm, ImmOps
  <2>2. CASE op = "slti"
    BY <2>2 DEF RegRegOf, RegRegOps, RegReg, Imm, ImmOps
  <2>3. CASE op = "sltiu"
    BY <2>3 DEF RegRegOf, RegRegOps, RegReg, Imm, ImmOps
  <2> QED
    BY <1>2, <2>1, <2>2, <2>3
<1>3. CASE op \in {"xori", "ori", "andi"}
  <2>1. CASE op = "xori"
    BY <2>1 DEF RegRegOf, RegRegOps, RegReg, Imm, ImmOps
  <2>2. CASE op = "ori"
    BY <2>2 DEF RegRegOf, RegRegOps, RegReg, Imm, ImmOps
  <2>3. CASE op = "andi"
    BY <2>3 DEF RegRegOf, RegRegOps, RegReg, Imm, ImmOps
  <2> QED
    BY <1>3, <2>1, <2>2, <2>3
<1> QED
  BY <1>1, <1>2, <1>3 DEF ImmOps

LEMMA WordImmIs ==
  ASSUME NEW x \in BitVector(XLen), NEW imm \in BitVector(XLen)
  PROVE  /\ WordImm("addiw", x, imm) = SignedWord(x + imm)
         /\ imm < Word =>
              /\ WordImm("slliw", x, imm) = SignedWord(x * 2^(imm % Word))
              /\ WordImm("srliw", x, imm) = SignedWord((x % 2^Word) \div 2^(imm % Word))
              /\ WordImm("sraiw", x, imm)
                   = Unsigned(Signed(Word, x % 2^Word) \div 2^(imm % Word))
<1>1. x \in Int /\ imm \in Nat /\ x + imm \in Int /\ Word \in Nat
  <2>1. XLen \in Nat /\ Word \in Nat /\ x \in Nat /\ imm \in Nat
    BY Widths, VectorInPower
  <2> QED
    BY <2>1
<1>2. WordImm("addiw", x, imm) = SignedWord(x + imm)
  <2> DEFINE M == 2^Word
             n == x + imm
  <2>1. M \in Nat \ {0} /\ n \in Int
    BY <1>1, Moduli
  <2>2. LowWord(x) = x % M /\ LowWord(imm) = imm % M
    BY <1>1, LowWordIs
  <2>3. WordImm("addiw", x, imm) = FromWord(LowWord((LowWord(x) + LowWord(imm)) % M))
    BY DEF WordImm, Add
  <2>4. ((x % M) + (imm % M)) % M = n % M
    <3>1. x \in Int /\ imm \in Int
      BY <1>1
    <3> HIDE DEF M
    <3>2. ((x % M) + (imm % M)) % M = (x + imm) % M
      BY <2>1, <3>1, ModAdd
    <3> QED
      BY <3>2
  <2>5. LowWord(n % M) = n % M
    <3>1. n % M \in BitVector(Word)
      BY <2>1, WordOf
    <3> HIDE DEF n
    <3>2. n % M \in Int /\ (n % M) % M = n % M
      <4> DEFINE r == n % M
      <4>1. r \in BitVector(Word) /\ Word \in Nat
        BY <1>1, <3>1
      <4> HIDE DEF r
      <4>2. r \in Nat /\ r % M = r
        BY <4>1, VectorInPower
      <4> QED
        BY <4>2 DEF r
    <3> QED
      BY <3>2, LowWordIs
  <2>6. FromWord(n % M) = SignedWord(n)
    BY <2>1, SignedWordMod
  <2> QED
    BY <2>2, <2>3, <2>4, <2>5, <2>6
<1>3. ASSUME imm < Word
      PROVE  /\ WordImm("slliw", x, imm) = SignedWord(x * 2^(imm % Word))
             /\ WordImm("srliw", x, imm) = SignedWord((x % 2^Word) \div 2^(imm % Word))
             /\ WordImm("sraiw", x, imm)
                  = Unsigned(Signed(Word, x % 2^Word) \div 2^(imm % Word))
  <2>1. LowWord(imm) = imm /\ imm % Word = imm
    BY <1>1, <1>3, LowWordSmall
  <2>2. /\ WordImm("slliw", x, imm) = FromWord(LeftShift(Word, LowWord(x), imm))
        /\ WordImm("srliw", x, imm) = FromWord(RightShift(Word, LowWord(x), imm))
        /\ WordImm("sraiw", x, imm) = FromWord(ARightShift(Word, LowWord(x), imm))
    BY <2>1 DEF WordImm
  <2> QED
    BY <1>1, <1>3, <2>1, <2>2, ShiftLeftWord, ShiftRightWord
<1> QED
  BY <1>2, <1>3

LEMMA WordImmVector ==
  ASSUME NEW op \in WordImmOps, NEW x \in BitVector(XLen), NEW imm \in BitVector(XLen)
  PROVE  WordImm(op, x, imm) \in BitVector(XLen)
<1>1. Word \in Nat /\ x + imm \in Int
  <2>1. XLen \in Nat /\ Word \in Nat /\ x \in Nat /\ imm \in Nat
    BY Widths, VectorInPower
  <2> QED
    BY <2>1
<1>2. CASE op = "addiw"
  <2>1. WordImm(op, x, imm) = SignedWord(x + imm)
    BY <1>2, WordImmIs
  <2>2. FromWord((x + imm) % 2^Word) = SignedWord(x + imm)
    BY <1>1, SignedWordMod
  <2>3. (x + imm) % 2^Word \in BitVector(Word)
    BY <1>1, WordOf
  <2> QED
    BY <2>1, <2>2, <2>3, FromWordIs
<1>3. CASE op \in {"slliw", "srliw", "sraiw"}
  <2> DEFINE s == LowWord(imm)
             v == LowWord(x)
  <2>1. WordImm(op, x, imm) \in {FromWord(LeftShift(Word, v, s)),
                                 FromWord(RightShift(Word, v, s)), FromWord(ARightShift(Word, v, s))}
    BY <1>3 DEF WordImm
  <2> HIDE DEF s, v
  <2> QED
    BY <1>1, <2>1, ShiftVector, FromWordIs
<1> QED
  BY <1>2, <1>3 DEF WordImmOps

(* The upper immediate: its bits above a word are cut by the shift.        *)
LEMMA LuiIs ==
  ASSUME NEW imm \in BitVector(XLen)
  PROVE  Upper("lui", imm) = SignedWord(imm * 2^LuiShift) /\ Upper("lui", imm) \in BitVector(XLen)
<1> DEFINE L == LuiShift
           K == Word - L
           A == 2^L
           B == 2^K
           v == imm % B
<1>1. L \in Nat /\ L < Word /\ K \in Nat /\ K - 1 \in Nat /\ K - 1 < XLen /\ (K - 1) + 1 = K
  <2>1. L \in 0 .. Word - 1 /\ Word \in Nat /\ XLen \in Nat /\ Word < XLen
    BY Widths, WidthsAssumption DEF Word
  <2> HIDE DEF L
  <2> QED
    BY <2>1
<1>2. /\ A \in Nat \ {0} /\ B \in Nat \ {0} /\ 2^Word = A * B
      /\ imm \in Nat /\ Word \in Nat /\ XLen \in Nat /\ L + K = Word
  <2>1. XLen \in Nat /\ Word \in Nat /\ L + K = Word
    BY <1>1, Widths
  <2>2. 2^(L + K) = A * B
    BY <1>1, PowerSum
  <2> QED
    BY <1>1, <2>1, <2>2, PowerPos, VectorInPower
<1>3. Slice(XLen, K - 1, 0, imm) = v
  <2>1. Slice(XLen, K - 1, 0, imm) = imm % 2^((K - 1) + 1)
    <3> HIDE DEF K
    <3> QED
      BY <1>1, <1>2, SliceLow
  <2> QED
    BY <1>1, <2>1
<1>4. Upper("lui", imm) = FromWord(LeftShift(Word, v, L))
  BY <1>3 DEF Upper, ZeroExt
<1>5. v \in Nat
  <2> HIDE DEF B
  <2> QED
    BY <1>2, DivMod
<1>6. LeftShift(Word, v, L) = (v * A) % (A * B)
  <2>1. v \in Int /\ L <= Word
    BY <1>1, <1>2, <1>5
  <2> HIDE DEF v
  <2>2. LeftShift(Word, v, L) = (v * 2^L) % 2^Word
    BY <1>1, <1>2, <2>1, LeftShiftIs
  <2> QED
    BY <1>2, <2>2
<1>7. (v * A) % (A * B) = (imm * A) % (A * B)
  <2> DEFINE q == imm \div B
             M == A * B
             y == v * A
  <2>1. imm = B * q + v /\ q \in Int
    <3> HIDE DEF B
    <3> QED
      BY <1>2, DivMod
  <2> HIDE DEF q, v, A, B
  <2>2. imm * A = v * A + (A * B) * q /\ v * A \in Int /\ A * B \in Nat \ {0}
    <3>1. imm * A = v * A + (B * q) * A
      BY <1>2, <1>5, <2>1
    <3>2. (B * q) * A = (A * B) * q
      BY <1>2, <2>1
    <3>3. v * A \in Int /\ A * B \in Nat \ {0}
      BY <1>2, <1>5
    <3> QED
      BY <3>1, <3>2, <3>3
  <2>3. (y + M * q) % M = y % M
    <3>1. M \in Nat \ {0} /\ y \in Int
      BY <2>2
    <3> HIDE DEF M, y
    <3> QED
      BY <2>1, <3>1, ModShift
  <2> QED
    BY <2>2, <2>3
<1>8. imm * A \in Int
  <2> HIDE DEF A
  <2> QED
    BY <1>2
<1>9. Upper("lui", imm) = FromWord((imm * A) % 2^Word)
  BY <1>2, <1>4, <1>6, <1>7
<1>10. FromWord((imm * A) % 2^Word) = SignedWord(imm * A)
       /\ FromWord((imm * A) % 2^Word) \in BitVector(XLen)
  <2> HIDE DEF A
  <2> QED
    BY <1>8, WordOf, SignedWordMod, FromWordIs
<1> QED
  BY <1>9, <1>10

LEMMA UpperVector ==
  ASSUME NEW op \in UpperOps, NEW imm \in BitVector(XLen), pc \in Nat
  PROVE  Upper(op, imm) \in BitVector(XLen)
<1>1. CASE op = "lui"
  BY <1>1, LuiIs
<1>2. CASE op = "auipc"
  <2> DEFINE v == LeftShift(XLen, imm, LuiShift)
  <2>1. v \in Nat
    <3>1. XLen \in Nat /\ v \in BitVector(XLen)
      BY Widths, ShiftVector
    <3> HIDE DEF v
    <3> QED
      BY <3>1, VectorInPower
  <2>2. Upper(op, imm) = Unsigned(pc + v)
    BY <1>2 DEF Upper, Add, Unsigned
  <2> HIDE DEF v
  <2>3. pc + v \in Int
    BY <2>1
  <2> QED
    BY <2>2, <2>3, UnsignedVector
<1> QED
  BY <1>1, <1>2 DEF UpperOps

-----------------------------------------------------------------------------
(* The operands of a line and the values it reads and writes.              *)
Typed(line) ==
  /\ line.rd \in Registers /\ line.rs1 \in Registers /\ line.rs2 \in Registers
  /\ line.imm \in BitVector(XLen)
  /\ line.op \in {"slliw", "srliw", "sraiw"} => line.imm < Word

RegistersInv == regs \in [Registers -> BitVector(XLen)]

MemInv ==
  \A m \in Memories : \A a \in DOMAIN mem[m] : mem[m][a] \in BitVector(Width(m))

LEMMA Operands ==
  ASSUME RegistersInv, NEW r \in Registers
  PROVE  Src(regs, r) = X(r) /\ X(r) \in BitVector(XLen)
<1>1. 0 \in BitVector(XLen)
  BY SmallVectors
<1>2. Src(regs, r) = X(r)
  BY DEF Src, X
<1>3. CASE r = "zero"
  BY <1>1, <1>2, <1>3 DEF X
<1>4. CASE r # "zero"
  BY <1>2, <1>4 DEF X, RegistersInv
<1> QED
  BY <1>2, <1>3, <1>4

LEMMA Addresses ==
  ASSUME RegistersInv, NEW line, Typed(line)
  PROVE  /\ Address(line) = Unsigned(X(line.rs1) + line.imm)
         /\ Address(line) \in BitVector(XLen)
<1>1. Src(regs, line.rs1) = X(line.rs1) /\ X(line.rs1) \in BitVector(XLen)
  BY Operands DEF Typed
<1>2. X(line.rs1) \in Nat /\ line.imm \in Nat
  <2>1. XLen \in Nat /\ line.imm \in BitVector(XLen)
    BY Widths DEF Typed
  <2> QED
    BY <1>1, <2>1, VectorInPower
<1>3. X(line.rs1) + line.imm \in Int
  BY <1>2
<1>4. Address(line) = Unsigned(X(line.rs1) + line.imm)
  BY <1>1 DEF Address, Add, Unsigned
<1> QED
  BY <1>3, <1>4, UnsignedVector

LEMMA MemoryWidths ==
  ASSUME NEW op \in LoadOps \cup StoreOps
  PROVE  /\ Memory(op) \in Memories /\ Access(op) = Width(Memory(op))
         /\ Width(Memory(op)) \in Nat \ {0} /\ Width(Memory(op)) <= XLen
<1>1. /\ Byte \in Nat \ {0} /\ Half \in Nat \ {0} /\ Word \in Nat \ {0} /\ XLen \in Nat \ {0}
      /\ Byte <= XLen /\ Half <= XLen /\ Word <= XLen
  BY Widths
<1>2. CASE op \in {"lb", "lbu", "sb"}
  BY <1>1, <1>2 DEF Memory, Memories, Access, Width, Byte
<1>3. CASE op \in {"lh", "lhu", "sh"}
  BY <1>1, <1>3 DEF Memory, Memories, Access, Width, Half
<1>4. CASE op \in {"lw", "lwu", "sw"}
  BY <1>1, <1>4 DEF Memory, Memories, Access, Width, Word
<1>5. CASE op \in {"ld", "sd"}
  BY <1>1, <1>5 DEF Memory, Memories, Access, Width
<1> QED
  BY <1>2, <1>3, <1>4, <1>5 DEF LoadOps, StoreOps

(* Accesses of one width go through one memory.                            *)
LEMMA SameMemory ==
  ASSUME NEW o \in LoadOps \cup StoreOps, NEW p \in LoadOps \cup StoreOps, Access(o) = Access(p)
  PROVE  Memory(o) = Memory(p)
<1>1. Byte < Half /\ Half < Word /\ Word < XLen /\ {Byte, Half, Word, XLen} \subseteq Nat
  BY Widths
<1>2. \A q \in LoadOps \cup StoreOps :
        \/ Memory(q) = "mem_b" /\ Access(q) = Byte
        \/ Memory(q) = "mem_h" /\ Access(q) = Half
        \/ Memory(q) = "mem_w" /\ Access(q) = Word
        \/ Memory(q) = "mem_d" /\ Access(q) = XLen
  <2> TAKE q \in LoadOps \cup StoreOps
  <2>1. CASE q \in {"lb", "lbu", "sb"}
    BY <2>1 DEF Memory, Access, Byte
  <2>2. CASE q \in {"lh", "lhu", "sh"}
    BY <2>2 DEF Memory, Access, Half
  <2>3. CASE q \in {"lw", "lwu", "sw"}
    BY <2>3 DEF Memory, Access, Word
  <2>4. CASE q \in {"ld", "sd"}
    BY <2>4 DEF Memory, Access
  <2> QED
    BY <2>1, <2>2, <2>3, <2>4 DEF LoadOps, StoreOps
<1> QED
  BY <1>1, <1>2

LEMMA Reads ==
  ASSUME MemInv, NEW m \in Memories, NEW a \in BitVector(XLen)
  PROVE  Read(m, a) \in BitVector(Width(m))
<1>1. CASE a \in DOMAIN mem[m]
  BY <1>1 DEF Read, MemInv
<1>2. CASE a \notin DOMAIN mem[m]
  BY <1>2, MemoryAssumption DEF Read
<1> QED
  BY <1>1, <1>2

LEMMA NarrowVector ==
  ASSUME NEW w \in Nat, w <= XLen, NEW v \in BitVector(w)
  PROVE  v \in BitVector(XLen)
<1> DEFINE M == 2^w
           L == 2^XLen
<1>1. M \in Nat /\ L \in Nat /\ M <= L /\ v \in Nat /\ v < M
  BY Widths, PowerNat, PowerMonotonic, VectorInPower
<1> HIDE DEF M, L
<1>2. v \in 0 .. L - 1
  BY <1>1
<1> QED
  BY <1>2 DEF BitVector, L

LEMMA ExtendedIs ==
  ASSUME NEW op \in LoadOps, NEW v \in BitVector(Width(Memory(op)))
  PROVE  /\ Extended(op, v) = IF op \in {"lb", "lh", "lw"}
                                THEN Unsigned(Signed(Width(Memory(op)), v)) ELSE v
         /\ Extended(op, v) \in BitVector(XLen)
<1> DEFINE w == Width(Memory(op))
<1>1. w \in Nat \ {0} /\ w <= XLen /\ XLen - w \in Nat /\ w + (XLen - w) = XLen /\ XLen \in Nat
  <2>1. w \in Nat \ {0} /\ w <= XLen /\ XLen \in Nat
    BY MemoryWidths, Widths
  <2> HIDE DEF w
  <2> QED
    BY <2>1
<1>2. v \in BitVector(w)
  OBVIOUS
<1>3. Extended(op, v) = IF op \in {"lb", "lh", "lw"} THEN SignExt(w, XLen - w, v) ELSE v
  BY DEF Extended, ZeroExt
<1> HIDE DEF w
<1>4. SignExt(w, XLen - w, v) = TwosComplement(w, v) % 2^(w + (XLen - w))
  BY <1>1, <1>2, SignExtIs
<1>5. SignExt(w, XLen - w, v) = Unsigned(Signed(w, v))
  BY <1>1, <1>4, SignedIs DEF Unsigned
<1>6. Unsigned(Signed(w, v)) \in BitVector(XLen)
  <2>1. Signed(w, v) \in Int
    BY <1>1, <1>2, SignedIs, TwosComplementInt
  <2> QED
    BY <2>1, UnsignedVector
<1>7. v \in BitVector(XLen)
  BY <1>1, <1>2, NarrowVector
<1> QED
  BY <1>3, <1>5, <1>6, <1>7 DEF w

LEMMA StoredIs ==
  ASSUME NEW op \in StoreOps, NEW v \in BitVector(XLen)
  PROVE  LET w == Width(Memory(op)) IN Stored(op, v) = v % 2^w /\ Stored(op, v) \in BitVector(w)
<1> DEFINE w == Width(Memory(op))
           M == 2^w
<1>1. w \in Nat \ {0} /\ w <= XLen /\ XLen \in Nat /\ v \in Nat
  BY MemoryWidths, Widths, VectorInPower
<1> HIDE DEF w
<1>2. w - 1 \in Nat /\ w - 1 < XLen /\ (w - 1) + 1 = w
  BY <1>1
<1>3. Slice(XLen, w - 1, 0, v) = v % 2^((w - 1) + 1)
  BY <1>1, <1>2, SliceLow
<1>4. Stored(op, v) = v % M
  BY <1>2, <1>3 DEF Stored, w
<1>5. M \in Nat \ {0}
  BY <1>1, PowerPos
<1>6. v % M \in 0 .. M - 1
  <2> HIDE DEF M
  <2> QED
    BY <1>1, <1>5
<1> QED
  BY <1>4, <1>6 DEF BitVector, w

-----------------------------------------------------------------------------
(* Every register and every memory holds a vector of its width, and after  *)
(* a store the memory holds at its address what the register had.          *)
StoreInv ==
  last.op \in StoreOps =>
    LET m == Memory(last.op)
    IN /\ Typed(last)
       /\ Address(last) \in DOMAIN mem[m]
       /\ mem[m][Address(last)] = X(last.rs2) % 2^Width(m)

ValuesInv == RegistersInv /\ MemInv /\ StoreInv

(* The next line of a block and where the pc is when it is executed.       *)
LEMMA NextLine ==
  ASSUME IInv, ExecLine
  PROVE  /\ \E line \in LinesAt(addr) : Execute(line) /\ last' = line /\ Typed(line)
         /\ pc = addr /\ pc \in Nat /\ Add(XLen, pc, InstLength) = addr + InstLength
         /\ addr + InstLength \in BitVector(XLen)
<1>1. ~ BlockEnded /\ addr < Entry + InstLength * MaxLines
  BY DEF ExecLine
<1>2. PICK line \in LinesAt(addr) : Execute(line) /\ last' = line
  BY DEF ExecLine
<1>3. PICK k \in 0 .. MaxLines : addr = Entry + InstLength * k
  BY DEF IInv, AddrInv
<1>4. k \in 0 .. MaxLines - 1
  BY <1>1, <1>3, WidthsAssumption DEF InstLength
<1>5. Typed(line)
  BY <1>2, <1>3, <1>4, LinesAssumption DEF Typed, Word
<1>6. Add(XLen, addr, InstLength) = addr + InstLength /\ addr \in Nat
  BY <1>3, <1>4, NextPc
<1>7. pc = addr
  BY <1>1 DEF IInv, RunInv
<1>8. addr + InstLength \in BitVector(XLen)
  <2>1. Unsigned(addr + InstLength) = addr + InstLength /\ addr + InstLength \in Int
    BY <1>6 DEF Add, Unsigned, InstLength
  <2> QED
    BY <2>1, UnsignedVector
<1> QED
  BY <1>2, <1>5, <1>6, <1>7, <1>8

(* What each class of lines assigns: a vector.                             *)
LEMMA AssignsVector ==
  ASSUME RegistersInv, MemInv, NEW line, Typed(line), Execute(line),
         pc \in Nat, Add(XLen, pc, InstLength) \in BitVector(XLen)
  PROVE  UNCHANGED regs \/ \E v \in BitVector(XLen) : Assign(line, v)
<1> DEFINE x == Src(regs, line.rs1)
           y == Src(regs, line.rs2)
<1>1. x \in BitVector(XLen) /\ y \in BitVector(XLen) /\ line.imm \in BitVector(XLen)
  BY Operands DEF Typed
<1> HIDE DEF x, y
<1>2. CASE ExecRegReg(line)
  <2>1. RegReg(line.op, x, y) \in BitVector(XLen) /\ Assign(line, RegReg(line.op, x, y))
    BY <1>1, <1>2, RegRegVector DEF ExecRegReg, x, y
  <2> QED
    BY <2>1
<1>3. CASE ExecWordReg(line)
  <2>1. WordReg(line.op, x, y) \in BitVector(XLen) /\ Assign(line, WordReg(line.op, x, y))
    BY <1>1, <1>3, WordRegVector DEF ExecWordReg, x, y
  <2> QED
    BY <2>1
<1>4. CASE ExecImm(line)
  <2>1. line.op \in ImmOps /\ Assumed(line.op, line.imm) /\ Assign(line, Imm(line.op, x, line.imm))
    BY <1>4 DEF ExecImm, x
  <2>2. Imm(line.op, x, line.imm) \in BitVector(XLen)
    BY <1>1, <2>1, ImmIsRegReg, RegRegVector
  <2> QED
    BY <2>1, <2>2
<1>5. CASE ExecWordImm(line)
  <2>1. /\ WordImm(line.op, x, line.imm) \in BitVector(XLen)
        /\ Assign(line, WordImm(line.op, x, line.imm))
    BY <1>1, <1>5, WordImmVector DEF ExecWordImm, x
  <2> QED
    BY <2>1
<1>6. CASE ExecUpper(line)
  <2>1. Upper(line.op, line.imm) \in BitVector(XLen) /\ Assign(line, Upper(line.op, line.imm))
    BY <1>1, <1>6, UpperVector DEF ExecUpper
  <2> QED
    BY <2>1
<1>7. CASE ExecLoad(line)
  <2> DEFINE v == Read(Memory(line.op), Address(line))
  <2>1. line.op \in LoadOps /\ Assign(line, Extended(line.op, v))
    BY <1>7 DEF ExecLoad
  <2>2. v \in BitVector(Width(Memory(line.op)))
    BY <2>1, Addresses, MemoryWidths, Reads
  <2>3. Extended(line.op, v) \in BitVector(XLen)
    <3> HIDE DEF v
    <3> QED
      BY <2>1, <2>2, ExtendedIs
  <2> QED
    BY <2>1, <2>3
<1>8. CASE ExecStore(line) \/ ExecBranch(line) \/ ExecUnimplemented(line)
  BY <1>8 DEF ExecStore, ExecBranch, ExecUnimplemented
<1>9. CASE ExecJal(line) \/ ExecJalr(line)
  BY <1>9 DEF ExecJal, ExecJalr
<1> QED
  BY <1>2, <1>3, <1>4, <1>5, <1>6, <1>7, <1>8, <1>9 DEF Execute

LEMMA StoreWrites ==
  ASSUME RegistersInv, MemInv, DomainsInv, NEW line, Typed(line), ExecStore(line)
  PROVE  LET m == Memory(line.op)
             a == Address(line)
         IN /\ UNCHANGED regs /\ DOMAIN mem' = Memories
            /\ \A n \in Memories \ {m} : mem'[n] = mem[n]
            /\ DOMAIN mem'[m] = DOMAIN mem[m] \cup {a}
            /\ mem'[m][a] = X(line.rs2) % 2^Width(m)
            /\ mem'[m][a] \in BitVector(Width(m))
            /\ \A b \in DOMAIN mem[m] : b # a => mem'[m][b] = mem[m][b]
<1> DEFINE m == Memory(line.op)
           a == Address(line)
           v == Stored(line.op, Src(regs, line.rs2))
<1>1. line.op \in StoreOps /\ UNCHANGED regs /\ mem' = [mem EXCEPT ![m] = WriteAt(@, a, v)]
  BY DEF ExecStore
<1>2. m \in DOMAIN mem /\ DOMAIN mem = Memories
  BY <1>1, MemoryWidths DEF DomainsInv
<1>3. v = X(line.rs2) % 2^Width(m) /\ v \in BitVector(Width(m))
  <2>1. Src(regs, line.rs2) = X(line.rs2) /\ X(line.rs2) \in BitVector(XLen)
    BY Operands DEF Typed
  <2> QED
    BY <1>1, <2>1, StoredIs
<1> HIDE DEF m, a, v
<1>4. mem'[m] = WriteAt(mem[m], a, v) /\ \A n \in Memories \ {m} : mem'[n] = mem[n]
  BY <1>1, <1>2
<1>5. /\ DOMAIN WriteAt(mem[m], a, v) = DOMAIN mem[m] \cup {a}
      /\ WriteAt(mem[m], a, v)[a] = v
      /\ \A b \in DOMAIN mem[m] : b # a => WriteAt(mem[m], a, v)[b] = mem[m][b]
  BY DEF WriteAt
<1>6. DOMAIN mem' = Memories
  BY <1>1, <1>2
<1> QED
  BY <1>1, <1>3, <1>4, <1>5, <1>6 DEF m, a

LEMMA ExecuteStores ==
  ASSUME NEW line, Execute(line)
  PROVE  ExecStore(line) \/ (UNCHANGED mem /\ line.op \notin StoreOps)
<1>1. ASSUME line.op \in Assigning, UNCHANGED mem
      PROVE  ExecStore(line) \/ (UNCHANGED mem /\ line.op \notin StoreOps)
  BY <1>1, OpClasses
<1>2. CASE ExecRegReg(line) \/ ExecWordReg(line) \/ ExecImm(line) \/ ExecWordImm(line)
  <2>1. line.op \in Assigning /\ UNCHANGED mem
    BY <1>2 DEF ExecRegReg, ExecWordReg, ExecImm, ExecWordImm, Assigning
  <2> QED
    BY <1>1, <2>1
<1>3. CASE ExecUpper(line) \/ ExecLoad(line)
  <2>1. line.op \in Assigning /\ UNCHANGED mem
    BY <1>3 DEF ExecUpper, ExecLoad, Assigning
  <2> QED
    BY <1>1, <2>1
<1>4. CASE ExecBranch(line) \/ ExecJal(line) \/ ExecJalr(line)
  <2>1. line.op \in BranchOps \cup {"jal", "jalr"} /\ UNCHANGED mem
    BY <1>4 DEF ExecBranch, ExecJal, ExecJalr
  <2> QED
    BY <2>1, OpClasses
<1>5. CASE ExecUnimplemented(line)
  <2>1. line.op \notin StoreOps /\ UNCHANGED mem
    BY <1>5 DEF ExecUnimplemented, Implemented
  <2> QED
    BY <2>1
<1> QED
  BY <1>2, <1>3, <1>4, <1>5 DEF Execute

LEMMA InitValues == Init => ValuesInv
<1> SUFFICES ASSUME Init PROVE ValuesInv
  OBVIOUS
<1>1. RegistersInv
  BY WidthsAssumption DEF Init, RegistersInv
<1>2. MemInv
  BY DEF Init, MemInv
<1>3. StoreInv
  BY DEF Init, StoreInv, NoLine, StoreOps
<1> QED
  BY <1>1, <1>2, <1>3 DEF ValuesInv

LEMMA ExecLineValues == IInv /\ ValuesInv /\ ExecLine => ValuesInv'
<1> SUFFICES ASSUME IInv, ValuesInv, ExecLine PROVE ValuesInv'
  OBVIOUS
<1>1. PICK line \in LinesAt(addr) : Execute(line) /\ last' = line /\ Typed(line)
  BY NextLine
<1>2. pc \in Nat /\ Add(XLen, pc, InstLength) \in BitVector(XLen)
  BY NextLine
<1>3. RegistersInv /\ MemInv /\ DomainsInv
  BY DEF ValuesInv, IInv
<1>4. RegistersInv'
  <2>1. UNCHANGED regs \/ \E v \in BitVector(XLen) : Assign(line, v)
    BY <1>1, <1>2, <1>3, AssignsVector
  <2> QED
    BY <1>1, <1>3, <2>1 DEF Assign, RegistersInv, Typed
<1>5. CASE ExecStore(line)
  <2> DEFINE m == Memory(line.op)
             a == Address(line)
  <2>1. /\ UNCHANGED regs
        /\ \A n \in Memories \ {m} : mem'[n] = mem[n]
        /\ DOMAIN mem'[m] = DOMAIN mem[m] \cup {a}
        /\ mem'[m][a] = X(line.rs2) % 2^Width(m)
        /\ mem'[m][a] \in BitVector(Width(m))
        /\ \A b \in DOMAIN mem[m] : b # a => mem'[m][b] = mem[m][b]
    BY <1>1, <1>3, <1>5, StoreWrites
  <2>2. MemInv'
    <3> SUFFICES ASSUME NEW n \in Memories, NEW b \in DOMAIN mem'[n]
                 PROVE  mem'[n][b] \in BitVector(Width(n))
      BY DEF MemInv
    <3> HIDE DEF m, a
    <3>1. CASE n # m
      BY <1>3, <2>1, <3>1 DEF MemInv
    <3>2. CASE n = m /\ b = a
      BY <2>1, <3>2
    <3>3. CASE n = m /\ b # a
      BY <1>3, <2>1, <3>3 DEF MemInv
    <3> QED
      BY <3>1, <3>2, <3>3
  <2>3. StoreInv'
    <3>1. Address(last)' = a /\ X(last.rs2)' = X(line.rs2)
      BY <1>1, <2>1 DEF Address, Src, X
    <3>2. last'.op = line.op /\ Typed(last)'
      BY <1>1 DEF Typed
    <3>3. a \in DOMAIN mem'[m] /\ mem'[m][a] = X(line.rs2) % 2^Width(m)
      BY <2>1
    <3> HIDE DEF a
    <3> QED
      BY <1>1, <3>1, <3>2, <3>3 DEF StoreInv
  <2> QED
    BY <1>4, <2>2, <2>3 DEF ValuesInv
<1>6. CASE ~ ExecStore(line)
  <2>1. UNCHANGED mem /\ line.op \notin StoreOps
    BY <1>1, <1>6, ExecuteStores
  <2>2. MemInv'
    BY <1>3, <2>1 DEF MemInv
  <2>3. StoreInv'
    BY <1>1, <2>1 DEF StoreInv
  <2> QED
    BY <1>4, <2>2, <2>3 DEF ValuesInv
<1> QED
  BY <1>5, <1>6

LEMMA StutterValues == ValuesInv /\ UNCHANGED vars => ValuesInv'
<1> SUFFICES ASSUME ValuesInv, UNCHANGED vars PROVE ValuesInv'
  OBVIOUS
<1>1. UNCHANGED <<regs, mem, last>>
  BY DEF vars
<1>2. RegistersInv' /\ MemInv'
  BY <1>1 DEF ValuesInv, RegistersInv, MemInv
<1>3. StoreInv'
  BY <1>1 DEF ValuesInv, StoreInv, Typed, Address, Src, X
<1> QED
  BY <1>2, <1>3 DEF ValuesInv

(***************************************************************************)
(* In every state of every block, a register holds a vector of the width   *)
(* of the machine and a memory vectors of its own width: no operator of a  *)
(* line makes one too wide.                                                *)
(***************************************************************************)
THEOREM ValuesFit == Spec => [](IInv /\ ValuesInv)
<1>1. Init => IInv /\ ValuesInv
  BY InitInv, InitValues
<1>2. IInv /\ ValuesInv /\ [Next]_vars => (IInv /\ ValuesInv)'
  BY ExecLineInv, StutterInv, ExecLineValues, StutterValues DEF Next, Stopped
<1> QED
  BY <1>1, <1>2, PTL DEF Spec

-----------------------------------------------------------------------------
(* The value that each class of lines assigns is the one of the manual.    *)
LEMMA RegRegResult ==
  ASSUME RegistersInv, NEW line, Typed(line), line.op \in RegRegOps, line.op \in IsaOps
  PROVE  RegReg(line.op, Src(regs, line.rs1), Src(regs, line.rs2)) = IsaResult(line)
<1> DEFINE x == X(line.rs1)
           y == X(line.rs2)
<1>1. /\ Src(regs, line.rs1) = x /\ Src(regs, line.rs2) = y
      /\ x \in BitVector(XLen) /\ y \in BitVector(XLen)
  BY Operands DEF Typed
<1>2. Operand(line) = y
  BY DEF Operand
<1> HIDE DEF x, y
<1>3. line.op \in {"add", "sub", "mul", "sll", "slt", "sltu", "srl", "sra"}
  <2>1. line.op \notin {"and", "andi", "or", "ori", "xor", "xori"}
    BY DEF IsaOps
  <2> QED
    BY <2>1 DEF RegRegOps
<1>4. /\ line.op = "add" => IsaResult(line) = Unsigned(x + y)
      /\ line.op = "sub" => IsaResult(line) = Unsigned(x - y)
      /\ line.op = "mul" => IsaResult(line) = Unsigned(Signed(XLen, x) * Signed(XLen, y))
      /\ line.op = "sll" => IsaResult(line) = Unsigned(x * 2^(y % XLen))
      /\ line.op = "slt" => IsaResult(line) = (IF Signed(XLen, x) < Signed(XLen, y) THEN 1 ELSE 0)
      /\ line.op = "sltu" => IsaResult(line) = (IF x < y THEN 1 ELSE 0)
      /\ line.op = "srl" => IsaResult(line) = x \div 2^(y % XLen)
      /\ line.op = "sra" => IsaResult(line) = Unsigned(Signed(XLen, x) \div 2^(y % XLen))
  BY <1>2 DEF IsaResult, x
<1>5. RegReg(line.op, x, y) = IsaResult(line)
  BY <1>1, <1>3, <1>4, RegRegIs
<1> QED
  BY <1>1, <1>5

LEMMA WordRegResult ==
  ASSUME RegistersInv, NEW line, Typed(line), line.op \in WordRegOps
  PROVE  WordReg(line.op, Src(regs, line.rs1), Src(regs, line.rs2)) = IsaResult(line)
<1> DEFINE x == X(line.rs1)
           y == X(line.rs2)
           s == y % Word
           u == x % 2^Word
<1>1. /\ Src(regs, line.rs1) = x /\ Src(regs, line.rs2) = y
      /\ x \in BitVector(XLen) /\ y \in BitVector(XLen)
  BY Operands DEF Typed
<1>2. Operand(line) = y
  BY DEF Operand
<1> HIDE DEF x, y
<1>3. line.op \in {"addw", "subw", "sllw", "srlw", "sraw"}
  BY DEF WordRegOps
<1>4. /\ line.op = "addw" => IsaResult(line) = SignedWord(x + y)
      /\ line.op = "subw" => IsaResult(line) = SignedWord(x - y)
      /\ line.op = "sllw" => IsaResult(line) = SignedWord(x * 2^s)
      /\ line.op = "srlw" => IsaResult(line) = SignedWord(u \div 2^s)
      /\ line.op = "sraw" => IsaResult(line) = Unsigned(Signed(Word, u) \div 2^s)
  BY <1>2 DEF IsaResult, x
<1>5. WordReg(line.op, x, y) = IsaResult(line)
  BY <1>1, <1>3, <1>4, WordRegIs
<1> QED
  BY <1>1, <1>5

LEMMA ImmResult ==
  ASSUME RegistersInv, NEW line, Typed(line), line.op \in ImmOps, line.op \in IsaOps,
         Assumed(line.op, line.imm)
  PROVE  Imm(line.op, Src(regs, line.rs1), line.imm) = IsaResult(line)
<1> DEFINE x == X(line.rs1)
           y == line.imm
<1>1. Src(regs, line.rs1) = x /\ x \in BitVector(XLen) /\ y \in BitVector(XLen)
  BY Operands DEF Typed
<1>2. Operand(line) = y
  BY DEF Operand, ImmOps, RegRegOps, WordRegOps
<1>3. Imm(line.op, x, y) = RegReg(RegRegOf[line.op], x, y)
  BY <1>1, ImmIsRegReg
<1> HIDE DEF x, y
<1>4. line.op \in {"addi", "slti", "sltiu", "slli", "srli", "srai"}
  <2>1. line.op \notin {"and", "andi", "or", "ori", "xor", "xori"}
    BY DEF IsaOps
  <2> QED
    BY <2>1 DEF ImmOps
<1>5. /\ line.op = "addi" => RegRegOf[line.op] = "add"
      /\ line.op = "slti" => RegRegOf[line.op] = "slt"
      /\ line.op = "sltiu" => RegRegOf[line.op] = "sltu"
      /\ line.op = "slli" => RegRegOf[line.op] = "sll"
      /\ line.op = "srli" => RegRegOf[line.op] = "srl"
      /\ line.op = "srai" => RegRegOf[line.op] = "sra"
  BY DEF RegRegOf, ImmOps
<1>6. /\ line.op = "addi" => IsaResult(line) = Unsigned(x + y)
      /\ line.op = "slti" => IsaResult(line) = (IF Signed(XLen, x) < Signed(XLen, y) THEN 1 ELSE 0)
      /\ line.op = "sltiu" => IsaResult(line) = (IF x < y THEN 1 ELSE 0)
      /\ line.op = "slli" => IsaResult(line) = Unsigned(x * 2^(y % XLen))
      /\ line.op = "srli" => IsaResult(line) = x \div 2^(y % XLen)
      /\ line.op = "srai" => IsaResult(line) = Unsigned(Signed(XLen, x) \div 2^(y % XLen))
  BY <1>2 DEF IsaResult, x
<1>7. RegReg(RegRegOf[line.op], x, y) = IsaResult(line)
  BY <1>1, <1>4, <1>5, <1>6, RegRegIs
<1> QED
  BY <1>1, <1>3, <1>7 DEF y

LEMMA WordImmResult ==
  ASSUME RegistersInv, NEW line, Typed(line), line.op \in WordImmOps
  PROVE  WordImm(line.op, Src(regs, line.rs1), line.imm) = IsaResult(line)
<1> DEFINE x == X(line.rs1)
           y == line.imm
           s == y % Word
           u == x % 2^Word
<1>1. Src(regs, line.rs1) = x /\ x \in BitVector(XLen) /\ y \in BitVector(XLen)
  BY Operands DEF Typed
<1>2. Operand(line) = y
  BY DEF Operand, WordImmOps, RegRegOps, WordRegOps
<1>3. line.op \in {"slliw", "srliw", "sraiw"} => y < Word
  BY DEF Typed
<1> HIDE DEF x, y
<1>4. line.op \in {"addiw", "slliw", "srliw", "sraiw"}
  BY DEF WordImmOps
<1>5. /\ line.op = "addiw" => IsaResult(line) = SignedWord(x + y)
      /\ line.op = "slliw" => IsaResult(line) = SignedWord(x * 2^s)
      /\ line.op = "srliw" => IsaResult(line) = SignedWord(u \div 2^s)
      /\ line.op = "sraiw" => IsaResult(line) = Unsigned(Signed(Word, u) \div 2^s)
  BY <1>2 DEF IsaResult, x
<1>6. WordImm(line.op, x, y) = IsaResult(line)
  BY <1>1, <1>3, <1>4, <1>5, WordImmIs
<1> QED
  BY <1>1, <1>6 DEF y

LEMMA LoadResult ==
  ASSUME RegistersInv, MemInv, NEW line, Typed(line), line.op \in LoadOps
  PROVE  Extended(line.op, Read(Memory(line.op), Address(line))) = IsaResult(line)
<1> DEFINE m == Memory(line.op)
           d == Read(m, Unsigned(X(line.rs1) + line.imm))
<1>1. Address(line) = Unsigned(X(line.rs1) + line.imm) /\ Address(line) \in BitVector(XLen)
  BY Addresses
<1>2. d \in BitVector(Width(m))
  BY <1>1, MemoryWidths, Reads
<1>3. Extended(line.op, d) = IF line.op \in {"lb", "lh", "lw"}
                               THEN Unsigned(Signed(Width(m), d)) ELSE d
  <2> HIDE DEF d
  <2> QED
    BY <1>2, ExtendedIs
<1>4. IsaResult(line) = IF line.op \in {"lb", "lh", "lw"}
                          THEN Unsigned(Signed(Width(m), d)) ELSE d
  <2>1. CASE line.op \in {"lb", "lh", "lw"}
    BY <2>1 DEF IsaResult
  <2>2. CASE line.op \in {"lbu", "lhu", "lwu", "ld"}
    BY <2>2 DEF IsaResult
  <2> QED
    BY <2>1, <2>2 DEF LoadOps
<1> QED
  BY <1>1, <1>3, <1>4

LEMMA BranchTaken ==
  ASSUME RegistersInv, NEW line, Typed(line), line.op \in BranchOps
  PROVE  Taken(line.op, Src(regs, line.rs1), Src(regs, line.rs2)) <=> IsaTaken(line)
<1> DEFINE x == X(line.rs1)
           y == X(line.rs2)
           sx == Signed(XLen, x)
           sy == Signed(XLen, y)
<1>1. /\ Src(regs, line.rs1) = x /\ Src(regs, line.rs2) = y
      /\ x \in BitVector(XLen) /\ y \in BitVector(XLen)
  BY Operands DEF Typed
<1>2. XLen \in Nat \ {0}
  BY Widths
<1>3. x \in Nat /\ y \in Nat
  BY <1>1, <1>2, VectorInPower
<1> HIDE DEF x, y
<1>4. sx \in Int /\ sy \in Int /\ (Lt(XLen, x, y) <=> sx < sy)
  BY <1>1, <1>2, LtIsSigned, SignedIs, TwosComplementInt
<1>5. IsaTaken(line) <=> \/ line.op = "beq"  /\ x = y
                         \/ line.op = "bne"  /\ x # y
                         \/ line.op = "blt"  /\ sx < sy
                         \/ line.op = "bge"  /\ sx >= sy
                         \/ line.op = "bltu" /\ x < y
                         \/ line.op = "bgeu" /\ x >= y
  BY DEF IsaTaken, x, y
<1> HIDE DEF sx, sy
<1>6. CASE line.op \in {"beq", "bne"}
  BY <1>1, <1>5, <1>6 DEF Taken
<1>7. CASE line.op = "blt"
  BY <1>1, <1>4, <1>5, <1>7 DEF Taken
<1>8. CASE line.op = "bge"
  <2>1. Taken("bge", x, y) <=> ~ (sx < sy)
    BY <1>4 DEF Taken, Ge
  <2>2. sx >= sy <=> ~ (sx < sy)
    BY <1>4
  <2> QED
    BY <1>5, <1>8, <2>1, <2>2, <1>1
<1>9. CASE line.op \in {"bltu", "bgeu"}
  <2>1. CASE line.op = "bltu"
    <3>1. Taken("bltu", x, y) <=> x < y
      BY DEF Taken, Ltu
    <3> QED
      BY <1>1, <1>5, <2>1, <3>1
  <2>2. CASE line.op = "bgeu"
    <3>1. Taken("bgeu", x, y) <=> ~ (x < y)
      BY DEF Taken, Ltu, Geu
    <3>2. x >= y <=> ~ (x < y)
      BY <1>3
    <3> QED
      BY <1>1, <1>5, <2>2, <3>1, <3>2
  <2> QED
    BY <1>9, <2>1, <2>2
<1> QED
  BY <1>1, <1>6, <1>7, <1>8, <1>9 DEF BranchOps

-----------------------------------------------------------------------------
(* What an implemented line assigns, whatever its class.                   *)
LEMMA AssignResult ==
  ASSUME IInv, ValuesInv, NEW line, Typed(line), Execute(line), line.op \in IsaOps,
         pc = addr, Add(XLen, pc, InstLength) = addr + InstLength
  PROVE  Assign(line, IsaResult(line))
<1>1. RegistersInv /\ MemInv
  BY DEF ValuesInv
<1>2. CASE ExecRegReg(line)
  <2>1. line.op \in RegRegOps
    BY <1>2 DEF ExecRegReg
  <2>2. Assign(line, RegReg(line.op, Src(regs, line.rs1), Src(regs, line.rs2)))
    BY <1>2 DEF ExecRegReg
  <2> QED
    BY <1>1, <2>1, <2>2, RegRegResult
<1>3. CASE ExecWordReg(line)
  <2>1. line.op \in WordRegOps
    BY <1>3 DEF ExecWordReg
  <2>2. Assign(line, WordReg(line.op, Src(regs, line.rs1), Src(regs, line.rs2)))
    BY <1>3 DEF ExecWordReg
  <2> QED
    BY <1>1, <2>1, <2>2, WordRegResult
<1>4. CASE ExecImm(line)
  <2>1. line.op \in ImmOps /\ Assumed(line.op, line.imm)
    BY <1>4 DEF ExecImm
  <2>2. Assign(line, Imm(line.op, Src(regs, line.rs1), line.imm))
    BY <1>4 DEF ExecImm
  <2> QED
    BY <1>1, <2>1, <2>2, ImmResult
<1>5. CASE ExecWordImm(line)
  <2>1. line.op \in WordImmOps
    BY <1>5 DEF ExecWordImm
  <2>2. Assign(line, WordImm(line.op, Src(regs, line.rs1), line.imm))
    BY <1>5 DEF ExecWordImm
  <2> QED
    BY <1>1, <2>1, <2>2, WordImmResult
<1>6. CASE ExecUpper(line)
  <2>1. line.op = "lui"
    BY <1>6 DEF ExecUpper, UpperOps, IsaOps, RegRegOps, WordRegOps, ImmOps, WordImmOps, LoadOps
  <2>2. Assign(line, Upper("lui", line.imm))
    BY <1>6, <2>1 DEF ExecUpper
  <2>3. IsaResult(line) = SignedWord(line.imm * 2^LuiShift)
    BY <2>1 DEF IsaResult
  <2>4. Upper("lui", line.imm) = SignedWord(line.imm * 2^LuiShift)
    BY LuiIs DEF Typed
  <2> QED
    BY <2>2, <2>3, <2>4
<1>7. CASE ExecLoad(line)
  <2>1. line.op \in LoadOps
    BY <1>7 DEF ExecLoad
  <2>2. Assign(line, Extended(line.op, Read(Memory(line.op), Address(line))))
    BY <1>7 DEF ExecLoad
  <2> QED
    BY <1>1, <2>1, <2>2, LoadResult
<1>8. CASE ExecJal(line) \/ ExecJalr(line)
  <2>1. line.op \in {"jal", "jalr"} /\ Assign(line, addr + InstLength)
    BY <1>8 DEF ExecJal, ExecJalr
  <2>2. IsaResult(line) = addr + InstLength
    BY <2>1 DEF IsaResult
  <2> QED
    BY <2>1, <2>2
<1>9. CASE ExecStore(line) \/ ExecBranch(line)
  <2>1. line.op \in StoreOps \cup BranchOps
    BY <1>9 DEF ExecStore, ExecBranch
  <2> QED
    BY <2>1 DEF StoreOps, BranchOps, IsaOps, RegRegOps, WordRegOps, ImmOps, WordImmOps, LoadOps
<1>10. CASE ExecUnimplemented(line)
  <2>1. line.op \notin Implemented
    BY <1>10 DEF ExecUnimplemented
  <2> QED
    BY <2>1 DEF Implemented, UpperOps, IsaOps, RegRegOps, WordRegOps, ImmOps, WordImmOps, LoadOps
<1> QED
  BY <1>2, <1>3, <1>4, <1>5, <1>6, <1>7, <1>8, <1>9, <1>10 DEF Execute

(***************************************************************************)
(* For every width, every block of well-formed lines and every content of  *)
(* the registers and memories: a line writes to its destination what the   *)
(* RISC-V manual says of it, and a branch is taken when it should be.      *)
(***************************************************************************)
THEOREM ResultsCorrect == Spec => ResultsAreIsa
<1> DEFINE Step ==
      /\ last'.op \in IsaOps /\ last'.rd # "zero" => regs'[last'.rd] = IsaResult(last')
      /\ last'.op \in BranchOps =>
           pc' = IF IsaTaken(last') THEN last'.imm ELSE addr + InstLength
<1>1. IInv /\ ValuesInv /\ ExecLine => Step
  <2> SUFFICES ASSUME IInv, ValuesInv, ExecLine PROVE Step
    OBVIOUS
  <2>1. PICK line \in LinesAt(addr) : Execute(line) /\ last' = line /\ Typed(line)
    BY NextLine
  <2>2. pc = addr /\ Add(XLen, pc, InstLength) = addr + InstLength
    BY NextLine
  <2>3. RegistersInv
    BY DEF ValuesInv
  <2>4. ASSUME line.op \in IsaOps PROVE regs'[line.rd] = IsaResult(line)
    <3>1. Assign(line, IsaResult(line))
      BY <2>1, <2>2, <2>4, AssignResult
    <3>2. line.rd \in DOMAIN regs
      BY <2>1, <2>3 DEF Typed, RegistersInv
    <3> QED
      BY <3>1, <3>2 DEF Assign
  <2>5. ASSUME line.op \in BranchOps
        PROVE  pc' = IF IsaTaken(line) THEN line.imm ELSE addr + InstLength
    <3>1. ExecBranch(line)
      <4>1. line.op \notin Assigning \cup StoreOps \cup {"jal", "jalr"} /\ line.op \in Implemented
        BY <2>5, OpClasses
      <4> QED
        BY <2>1, <4>1
           DEF Execute, Assigning, ExecRegReg, ExecWordReg, ExecImm, ExecWordImm, ExecUpper,
               ExecLoad, ExecStore, ExecJal, ExecJalr, ExecUnimplemented
    <3>2. Taken(line.op, Src(regs, line.rs1), Src(regs, line.rs2)) <=> IsaTaken(line)
      BY <2>1, <2>3, <2>5, BranchTaken
    <3> QED
      BY <2>2, <3>1, <3>2 DEF ExecBranch, UpdatePc
  <2> QED
    BY <2>1, <2>4, <2>5
<1>2. IInv /\ ValuesInv /\ [Next]_vars => [Step]_vars
  BY <1>1 DEF Next, Stopped
<1> QED
  BY ValuesFit, <1>2, PTL DEF Spec, ResultsAreIsa

(***************************************************************************)
(* For every width and every content of the memories: a load right after a *)
(* store of its width at its address reads the value stored.               *)
(***************************************************************************)
THEOREM LoadsReadStores == Spec => LoadsSeeStores
<1> DEFINE Step ==
      last # NoLine /\ last.op \in StoreOps /\ last'.op \in LoadOps =>
        LET w == Access(last.op)
            stored == X(last.rs2) % 2^w
        IN Access(last'.op) = w /\ X(last.rs1) + last.imm = X(last'.rs1) + last'.imm
             /\ last'.rd # "zero" =>
             regs'[last'.rd] =
               IF last'.op \in {"lb", "lh", "lw"} THEN Unsigned(Signed(w, stored)) ELSE stored
<1>1. IInv /\ ValuesInv /\ ExecLine => Step
  <2> SUFFICES ASSUME IInv, ValuesInv, ExecLine PROVE Step
    OBVIOUS
  <2>1. PICK line \in LinesAt(addr) : Execute(line) /\ last' = line /\ Typed(line)
    BY NextLine
  <2>2. RegistersInv /\ MemInv /\ StoreInv
    BY DEF ValuesInv
  <2> DEFINE w == Access(last.op)
             m == Memory(last.op)
             a == Address(last)
             d == Read(m, a)
             stored == X(last.rs2) % 2^w
  <2>3. ASSUME last.op \in StoreOps, line.op \in LoadOps, Access(line.op) = w,
               X(last.rs1) + last.imm = X(line.rs1) + line.imm
        PROVE  regs'[line.rd] =
                 IF line.op \in {"lb", "lh", "lw"} THEN Unsigned(Signed(w, stored)) ELSE stored
    <3>1. Memory(line.op) = m /\ w = Width(m)
      BY <2>3, SameMemory, MemoryWidths
    <3>2. Typed(last) /\ a \in DOMAIN mem[m] /\ mem[m][a] = stored /\ m \in Memories
      BY <2>2, <2>3, <3>1, MemoryWidths DEF StoreInv
    <3>3. Address(line) = a
      BY <2>1, <2>2, <2>3, <3>2, Addresses
    <3>4. d = stored /\ d \in BitVector(w)
      BY <2>2, <3>1, <3>2 DEF Read, MemInv
    <3>5. ExecLoad(line)
      <4>1. line.op \in Assigning
        BY <2>3 DEF Assigning
      <4>2. line.op \notin StoreOps \cup BranchOps \cup {"jal", "jalr"} /\ line.op \in Implemented
        BY <4>1, OpClasses
      <4>3. line.op \notin RegRegOps \cup WordRegOps \cup ImmOps \cup WordImmOps \cup UpperOps
        BY <2>3 DEF LoadOps, RegRegOps, WordRegOps, ImmOps, WordImmOps, UpperOps
      <4> QED
        BY <2>1, <4>2, <4>3
           DEF Execute, ExecRegReg, ExecWordReg, ExecImm, ExecWordImm, ExecUpper, ExecStore,
               ExecBranch, ExecJal, ExecJalr, ExecUnimplemented
    <3>6. Assign(line, Extended(line.op, d))
      BY <3>1, <3>3, <3>5 DEF ExecLoad
    <3>7. Extended(line.op, d) = IF line.op \in {"lb", "lh", "lw"}
                                   THEN Unsigned(Signed(w, d)) ELSE d
      <4> HIDE DEF d
      <4> QED
        BY <2>3, <3>1, <3>4, ExtendedIs
    <3>8. line.rd \in DOMAIN regs
      BY <2>1, <2>2 DEF Typed, RegistersInv
    <3>9. regs'[line.rd] = Extended(line.op, d)
      BY <3>6, <3>8 DEF Assign
    <3> QED
      BY <3>4, <3>7, <3>9
  <2> QED
    BY <2>1, <2>3
<1>2. IInv /\ ValuesInv /\ [Next]_vars => [Step]_vars
  BY <1>1 DEF Next, Stopped
<1> QED
  BY ValuesFit, <1>2, PTL DEF Spec, LoadsSeeStores
=============================================================================
