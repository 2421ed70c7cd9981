------------------------------ MODULE Assembly ------------------------------
(***************************************************************************)
(* One line of the disassembled binary, as the rest of the translator sees *)
(* it through the trait Inst.                                              *)
(*                                                                         *)
(* An address is counted in instruction lengths (INST_LENGTH_IN_BYTES), so *)
(* the next instruction is at addr + 1.  The op codes are folded into the  *)
(* classes the code tells apart: the conditional branches, jal, jalr,      *)
(* mret, the ignored fences, and every other instruction.  "link" says     *)
(* that the destination register of a jal is ra; target is the immediate   *)
(* of a direct jump.                                                       *)
(***************************************************************************)
EXTENDS Integers, Sequences

DirJumpOps  == {"branch", "jal"}
JumpOps     == DirJumpOps \cup {"jalr", "mret"}
IgnoredOps  == {"fence"}

(* The lines of a listing: the fences are dropped.                         *)
Lines == [addr : Nat, func : STRING, op : JumpOps \cup {"other"}, link : BOOLEAN,
          target : Nat, isEntry : BOOLEAN, isExit : BOOLEAN]

IsDirJump(line) == line.op \in DirJumpOps
IsJump(line)    == line.op \in JumpOps
IsIndJump(line) == IsJump(line) /\ ~ IsDirJump(line)

NextAddr(line)  == line.addr + 1

(***************************************************************************)
(* A jal falls through when it links, because a callee is assumed to       *)
(* return, unless it is the last line of its function: such a call is      *)
(* assumed not to return.                                                  *)
(***************************************************************************)
FallsThroughAtExit(line) == ~ IsJump(line) \/ line.op = "branch" \/ line.link

FallsThrough(line) ==
  \/ ~ IsJump(line)
  \/ line.op = "branch"
  \/ line.op = "jal" /\ line.link /\ ~ line.isExit

Successors(line) ==
  (IF FallsThrough(line) THEN {NextAddr(line)} ELSE {})
    \cup (IF IsDirJump(line) THEN {line.target} ELSE {})

Addresses(lines) == {lines[i].addr : i \in DOMAIN lines}

(***************************************************************************)
(* The lines of a function follow each other, and addresses grow along the *)
(* listing: the shape of one section of an ordinary object file.           *)
(***************************************************************************)
Contiguous(lines) ==
  \A i, j, k \in DOMAIN lines :
    i < j /\ j < k /\ lines[i].func = lines[k].func => lines[j].func = lines[i].func

Ascending(lines) ==
  \A i, j \in DOMAIN lines : i < j => lines[i].addr < lines[j].addr
=============================================================================
