---------------------------- MODULE BasicBlocks ----------------------------
(***************************************************************************)
(* BasicBlock::split: the listing is cut into basic blocks in two passes.  *)
(*                                                                         *)
(* The first pass collects the entry points (the first line, the line      *)
(* after a jump, the successors of a jump) and the exit points (the        *)
(* jumps).  The second pass accumulates lines into a block, ends it at an  *)
(* exit or before the next entry, and stores it under its entry address.   *)
(***************************************************************************)
EXTENDS Assembly

CONSTANT Listings       \* the listings the disassembler may produce

(* The disassembler asserts that addresses are distinct.                   *)
IsListing(listing) ==
  /\ listing \in Seq(Lines)
  /\ \A i, j \in 1..Len(listing) : listing[i].addr = listing[j].addr => i = j

ASSUME ListingsAssumption == \A listing \in Listings : IsListing(listing)

NoAddr == -1            \* curr_entry before the first entry is met

VARIABLES
  lines,                \* the listing
  phase,                \* "scan", "split", "done", or "panic" after a failed unwrap
  pos,                  \* the line the current pass looks at
  prevWasJump,
  entryPts,
  exitPts,
  currEntry,            \* entry address of the block being accumulated
  insts,                \* its lines so far
  bbMap                 \* entry address -> lines of the block

vars == <<lines, phase, pos, prevWasJump, entryPts, exitPts, currEntry, insts, bbMap>>

Init ==
  /\ lines \in Listings
  /\ phase = "scan"
  /\ pos = 1
  /\ prevWasJump = TRUE
  /\ entryPts = {}
  /\ exitPts = {}
  /\ currEntry = NoAddr
  /\ insts = <<>>
  /\ bbMap = <<>>

(* HashMap::insert: a block stored under the same address is overwritten.  *)
Insert(map, key, value) ==
  [k \in DOMAIN map \cup {key} |-> IF k = key THEN value ELSE map[k]]

-----------------------------------------------------------------------------
(* A definition that repeats the name of the next one with a suffix is a   *)
(* mutated form of it; no action uses it.                                  *)
NewEntriesTargetsOnly(line) == IF IsDirJump(line) THEN {line.target} ELSE {}
NewEntriesFirstOnly(line) ==
  NewEntriesTargetsOnly(line) \cup (IF pos = 1 THEN {line.addr} ELSE {})
NewEntriesNoTargets(line) == IF prevWasJump THEN {line.addr} ELSE {}

NewEntries(line) ==
  (IF prevWasJump THEN {line.addr} ELSE {})
    \cup (IF IsJump(line) THEN Successors(line) ELSE {})

ScanLine ==
  /\ phase = "scan"
  /\ pos <= Len(lines)
  /\ entryPts' = entryPts \cup NewEntries(lines[pos])
  /\ exitPts' = IF IsJump(lines[pos]) THEN exitPts \cup {lines[pos].addr} ELSE exitPts
  /\ prevWasJump' = IsJump(lines[pos])
  /\ pos' = pos + 1
  /\ UNCHANGED <<lines, phase, currEntry, insts, bbMap>>

EndScan ==
  /\ phase = "scan"
  /\ pos > Len(lines)
  /\ phase' = "split"
  /\ pos' = 1
  /\ UNCHANGED <<lines, prevWasJump, entryPts, exitPts, currEntry, insts, bbMap>>

IsEntryPt(line) == line.addr \in entryPts
IsExitPtDirect(line) == line.addr \in exitPts /\ IsDirJump(line)
IsExitPt(line)  == line.addr \in exitPts

EndsPreviousNever(line) == FALSE

(* The entry of a new block ends the block before it, if that has lines.   *)
EndsPrevious(line) ==
  IsEntryPt(line) /\ currEntry # NoAddr /\ line.addr # currEntry /\ insts # <<>>

AccumulateNoReset(ends, line) == Append(insts, line)
Accumulate(ends, line) == Append(IF ends THEN <<>> ELSE insts, line)

SplitLine ==
  /\ phase = "split"
  /\ pos <= Len(lines)
  /\ LET line  == lines[pos]
         ends  == EndsPrevious(line)
         ended == IF ends THEN Insert(bbMap, currEntry, insts) ELSE bbMap
         block == Accumulate(ends, line)
         entry == IF IsEntryPt(line) THEN line.addr ELSE currEntry
     IN  /\ currEntry' = entry
         /\ phase' = IF IsExitPt(line) /\ entry = NoAddr THEN "panic" ELSE phase
         /\ bbMap' = IF IsExitPt(line) THEN Insert(ended, entry, block) ELSE ended
         /\ insts' = IF IsExitPt(line) THEN <<>> ELSE block
  /\ pos' = pos + 1
  /\ UNCHANGED <<lines, prevWasJump, entryPts, exitPts>>

(* The lines accumulated after the last exit are dropped with insts.       *)
EndSplit ==
  /\ phase = "split"
  /\ pos > Len(lines)
  /\ phase' = "done"
  /\ UNCHANGED <<lines, pos, prevWasJump, entryPts, exitPts, currEntry, insts, bbMap>>

Stopped ==
  /\ phase \in {"done", "panic"}
  /\ UNCHANGED vars

Next == ScanLine \/ EndScan \/ SplitLine \/ EndSplit \/ Stopped

Spec == Init /\ [][Next]_vars

-----------------------------------------------------------------------------
TypeOK ==
  /\ lines \in Seq(Lines)
  /\ phase \in {"scan", "split", "done", "panic"}
  /\ pos \in 1..Len(lines) + 1
  /\ prevWasJump \in BOOLEAN
  /\ entryPts \subseteq Nat
  /\ exitPts \subseteq Nat
  /\ currEntry \in Nat \cup {NoAddr}
  /\ insts \in Seq(Lines)
  /\ bbMap \in [DOMAIN bbMap -> Seq(Lines)]
  /\ DOMAIN bbMap \subseteq Nat

(***************************************************************************)
(* The unwrap of curr_entry at an exit never fails: the first line of a    *)
(* listing is an entry point.                                              *)
(***************************************************************************)
NeverPanics == phase # "panic"

(***************************************************************************)
(* Every stored block is a run of consecutive lines, stored under the      *)
(* address of its first line, that control enters only at the top and      *)
(* leaves only at the bottom: no line but the last is a jump and no line   *)
(* but the first is an entry point.                                        *)
(***************************************************************************)
IsRun(block) ==
  \E first \in 1..Len(lines) :
    /\ first + Len(block) <= Len(lines) + 1
    /\ \A k \in 1..Len(block) : block[k] = lines[first + k - 1]

SingleEntrySingleExit(entry, block) ==
  /\ block # <<>>
  /\ block[1].addr = entry
  /\ \A k \in 1..Len(block) : k < Len(block) => ~ IsJump(block[k])
  /\ \A k \in 1..Len(block) : k > 1 => block[k].addr \notin entryPts
  /\ IsRun(block)

BlocksSound == \A e \in DOMAIN bbMap : SingleEntrySingleExit(e, bbMap[e])

(***************************************************************************)
(* No line is in two blocks: the blocks partition what they cover.         *)
(***************************************************************************)
BlocksDisjoint ==
  \A d, e \in DOMAIN bbMap :
    \A i \in DOMAIN bbMap[d], j \in DOMAIN bbMap[e] :
      bbMap[d][i].addr = bbMap[e][j].addr => d = e

(***************************************************************************)
(* A line is lost only when no exit and no later entry follows it: what    *)
(* split drops is the open block at the end of the listing.                *)
(***************************************************************************)
Covered(i) == \E e \in DOMAIN bbMap : \E k \in DOMAIN bbMap[e] : bbMap[e][k] = lines[i]

OnlyOpenTailLost ==
  phase = "done" =>
    \A i \in 1..Len(lines) :
      ~ Covered(i) =>
        \A j \in i..Len(lines) : ~ IsJump(lines[j]) /\ (j > i => lines[j].addr \notin entryPts)

(***************************************************************************)
(* What Cfg::create_cfg looks up exists: a successor of a block's last     *)
(* line that lies in a block is the entry of one.  The fallthrough of a    *)
(* block ended by the next entry is that entry, in a listing sorted by     *)
(* address.                                                                *)
(***************************************************************************)
SuccessorsAreEntries ==
  phase = "done" /\ Ascending(lines) =>
    \A e \in DOMAIN bbMap :
      \A s \in Successors(bbMap[e][Len(bbMap[e])]) :
        (\E i \in 1..Len(lines) : lines[i].addr = s /\ Covered(i)) => s \in DOMAIN bbMap

(***************************************************************************)
(* A block, once stored, is never overwritten or dropped by a later line.  *)
(***************************************************************************)
BlocksAreFinal ==
  [][\A e \in DOMAIN bbMap : e \in DOMAIN bbMap' /\ bbMap'[e] = bbMap[e]]_vars
=============================================================================
