--------------------------- MODULE FrontendProofs ---------------------------
(***************************************************************************)
(* The front end is right for every dump that objdump may print: what      *)
(* read_binaries promises of the listing, what split promises of the       *)
(* blocks it cuts the listing into, and that a function is found exactly   *)
(* when its first line opens a block that is closed.                       *)
(*                                                                         *)
(* The invariant puts those of the two stages together: while split waits, *)
(* that of the disassembly holds and the variables of split have their     *)
(* initial values; once the listing is handed over it is the finished one, *)
(* and the invariant of split holds until the labels are mapped.           *)
(***************************************************************************)
EXTENDS Frontend, TLAPS

-----------------------------------------------------------------------------
(***************************************************************************)
(* BasicBlock::split is right for every listing: the blocks it stores are  *)
(* runs of consecutive lines entered only at the top and left only at the  *)
(* bottom, no two share a line, a stored block is never overwritten, no    *)
(* line is lost but those behind the last jump, every successor of a block *)
(* starts one, and the unwrap of curr_entry never fails.                   *)
(*                                                                         *)
(* The invariant says what the loop variables mean.  In the first pass the *)
(* entry and exit points are complete for the lines seen so far.  In the   *)
(* second, the open block is the run of lines that ends just before pos,   *)
(* it starts at curr_entry and contains no jump, and the stored blocks lie *)
(* before it.                                                              *)
(***************************************************************************)

(* A line that starts the listing or follows a jump is an entry point.     *)
EntriesFound(n) ==
  \A i \in 1..Len(lines) :
    i < n /\ (i = 1 \/ IsJump(lines[i - 1])) => lines[i].addr \in entryPts

ExitsFound(n) ==
  \A i \in 1..Len(lines) :
    i < n => (IsJump(lines[i]) <=> lines[i].addr \in exitPts)

(* So are the successors of a jump, and there are no others.               *)
TargetsFound(n) ==
  \A i \in 1..Len(lines) : i < n /\ IsJump(lines[i]) => Successors(lines[i]) \subseteq entryPts

Enters(i, a) ==
  \/ lines[i].addr = a /\ (i = 1 \/ IsJump(lines[i - 1]))
  \/ IsJump(lines[i]) /\ a \in Successors(lines[i])

EntriesSeen(n) == \A a \in entryPts : \E i \in 1..Len(lines) : i < n /\ Enters(i, a)

ExitsSeen(n) == \A a \in exitPts : \E i \in 1..Len(lines) : i < n /\ lines[i].addr = a

(* "block" is the run of lines that ends before line "next" and starts at  *)
(* address "entry".                                                        *)
Accumulated(entry, block, next) ==
  /\ block \in Seq(Lines)
  /\ Len(block) < next
  /\ \A k \in 1..Len(block) : block[k] = lines[next - Len(block) + k - 1]
  /\ block # <<>> => entry = block[1].addr /\ entry \in entryPts
  /\ \A k \in 1..Len(block) : k > 1 => block[k].addr \notin entryPts
  /\ \A k \in 1..Len(block) : k < Len(block) => ~ IsJump(block[k])

(* Every line of a stored block lies before line "next".                   *)
StoredBefore(map, next) ==
  \A e \in DOMAIN map : \A k \in 1..Len(map[e]) :
    \E i \in 1..Len(lines) : i < next /\ map[e][k] = lines[i]

(* Every line before line "next" is stored.                                *)
StoredAll(map, next) ==
  \A i \in 1..Len(lines) : i < next =>
    \E e \in DOMAIN map : \E k \in 1..Len(map[e]) : map[e][k] = lines[i]

(* A block starts at an entry point and ends at a jump or before the next  *)
(* entry point.                                                            *)
EndsAt(n) == IsJump(lines[n]) \/ (n < Len(lines) /\ lines[n + 1].addr \in entryPts)

Delimited(map) ==
  \A e \in DOMAIN map :
    /\ e \in entryPts
    /\ \E n \in 1..Len(lines) : map[e][Len(map[e])] = lines[n] /\ EndsAt(n)

Disjoint(map) ==
  \A d, e \in DOMAIN map :
    \A i \in 1..Len(map[d]), j \in 1..Len(map[e]) :
      map[d][i].addr = map[e][j].addr => d = e

Sound(map) == \A e \in DOMAIN map : SingleEntrySingleExit(e, map[e])

MapType(map) == map \in [DOMAIN map -> Seq(Lines)] /\ DOMAIN map \subseteq Nat

ScanInv ==
  phase = "scan" =>
    /\ prevWasJump <=> (pos = 1 \/ IsJump(lines[pos - 1]))
    /\ EntriesFound(pos) /\ TargetsFound(pos) /\ EntriesSeen(pos)
    /\ ExitsFound(pos)
    /\ ExitsSeen(pos)
    /\ insts = <<>> /\ currEntry = NoAddr /\ DOMAIN bbMap = {}

(* Both sets of points are complete.                                       *)
PointsFound ==
  /\ EntriesFound(Len(lines) + 1) /\ TargetsFound(Len(lines) + 1)
  /\ EntriesSeen(Len(lines) + 1)
  /\ ExitsFound(Len(lines) + 1)

SplitInv ==
  phase \in {"split", "done"} =>
    /\ PointsFound
    /\ Accumulated(currEntry, insts, pos)
    /\ pos > 1 => (insts = <<>> <=> IsJump(lines[pos - 1]))
    /\ StoredBefore(bbMap, pos - Len(insts))
    /\ StoredAll(bbMap, pos - Len(insts))
    /\ Delimited(bbMap)
    /\ phase = "done" => pos = Len(lines) + 1

IInv ==
  /\ TypeOK
  /\ IsListing(lines)
  /\ NeverPanics
  /\ ScanInv
  /\ SplitInv
  /\ Sound(bbMap)
  /\ Disjoint(bbMap)
-----------------------------------------------------------------------------
LEMMA LinesFacts ==
  ASSUME IsListing(lines)
  PROVE  /\ lines \in Seq(Lines)
         /\ Len(lines) \in Nat
         /\ \A i \in 1..Len(lines) : lines[i] \in Lines /\ lines[i].addr \in Nat
         /\ \A i, j \in 1..Len(lines) : lines[i].addr = lines[j].addr => i = j
<1>1. /\ lines \in Seq(Lines)
      /\ \A i, j \in 1..Len(lines) : lines[i].addr = lines[j].addr => i = j
  BY DEF IsListing
<1>2. \A i \in 1..Len(lines) : lines[i] \in Lines
  BY <1>1
<1>3. \A line \in Lines : line.addr \in Nat
  BY DEF Lines
<1> QED
  BY <1>1, <1>2, <1>3

LEMMA NewEntriesFacts ==
  ASSUME NEW line \in Lines, prevWasJump \in BOOLEAN
  PROVE  /\ NewEntries(line) \subseteq Nat
         /\ prevWasJump => line.addr \in NewEntries(line)
         /\ IsJump(line) => Successors(line) \subseteq NewEntries(line)
         /\ \A a \in NewEntries(line) :
              \/ prevWasJump /\ a = line.addr
              \/ IsJump(line) /\ a \in Successors(line)
<1>1. line.addr \in Nat /\ line.target \in Nat
  BY DEF Lines
<1>2. Successors(line) \subseteq Nat
  BY <1>1 DEF Successors, NextAddr
<1> QED
  BY <1>1, <1>2 DEF NewEntries

LEMMA JumpIsBoolean == \A line : IsJump(line) \in BOOLEAN
  BY DEF IsJump

LEMMA InitInv == Init => IInv
<1> SUFFICES ASSUME Init PROVE IInv
  OBVIOUS
<1>1. IsListing(lines) /\ lines \in Seq(Lines) /\ Len(lines) \in Nat
  BY ListingsAssumption, LinesFacts DEF Init
<1>2. TypeOK
  BY <1>1 DEF Init, TypeOK, NoAddr
<1>3. ScanInv
  BY <1>1 DEF Init, ScanInv, EntriesFound, TargetsFound, EntriesSeen, ExitsFound, ExitsSeen
<1> QED
  BY <1>1, <1>2, <1>3
     DEF Init, IInv, NeverPanics, SplitInv, Sound, Disjoint

LEMMA ScanLineInv == IInv /\ ScanLine => IInv'
<1> SUFFICES ASSUME IInv, ScanLine PROVE IInv'
  OBVIOUS
<1> DEFINE line == lines[pos]
<1>1. /\ phase = "scan" /\ pos \in 1..Len(lines) /\ Len(lines) \in Nat
      /\ line \in Lines /\ line.addr \in Nat
      /\ UNCHANGED <<lines, phase, currEntry, insts, bbMap>> /\ pos' = pos + 1
      /\ IsListing(lines)
  BY LinesFacts DEF IInv, TypeOK, ScanLine
<1>2. TypeOK'
  BY <1>1, NewEntriesFacts, JumpIsBoolean DEF IInv, TypeOK, ScanLine
<1>3. ScanInv'
  <2>1. prevWasJump' <=> (pos' = 1 \/ IsJump(lines'[pos' - 1]))
    BY <1>1 DEF ScanLine
  <2>2. EntriesFound(pos)'
    <3> SUFFICES ASSUME NEW i \in 1..Len(lines), i < pos',
                        i = 1 \/ IsJump(lines[i - 1])
                 PROVE  lines[i].addr \in entryPts'
      BY <1>1 DEF EntriesFound
    <3>1. CASE i < pos
      BY <1>1, <3>1 DEF IInv, ScanInv, EntriesFound, ScanLine
    <3>2. CASE i = pos
      BY <1>1, <3>2, NewEntriesFacts DEF IInv, ScanInv, ScanLine, TypeOK
    <3> QED
      BY <1>1, <3>1, <3>2
  <2>5. TargetsFound(pos)'
    <3> SUFFICES ASSUME NEW i \in 1..Len(lines), i < pos', IsJump(lines[i])
                 PROVE  Successors(lines[i]) \subseteq entryPts'
      BY <1>1 DEF TargetsFound
    <3>1. CASE i < pos
      BY <1>1, <3>1 DEF IInv, ScanInv, TargetsFound, ScanLine
    <3>2. CASE i = pos
      BY <1>1, <3>2, NewEntriesFacts DEF IInv, ScanLine, TypeOK
    <3> QED
      BY <1>1, <3>1, <3>2
  <2>6. EntriesSeen(pos)'
    <3> SUFFICES ASSUME NEW a \in entryPts'
                 PROVE  \E i \in 1..Len(lines) : i < pos' /\ Enters(i, a)
      BY <1>1 DEF EntriesSeen, Enters
    <3>1. CASE a \in entryPts
      BY <1>1, <3>1 DEF IInv, ScanInv, EntriesSeen
    <3>2. CASE a \in NewEntries(line)
      <4>1. Enters(pos, a)
        BY <1>1, <3>2, NewEntriesFacts DEF Enters, IInv, ScanInv, TypeOK
      <4> QED
        BY <1>1, <4>1
    <3> QED
      BY <1>1, <3>1, <3>2 DEF ScanLine
  <2>3. ExitsSeen(pos)'
    BY <1>1 DEF IInv, ScanInv, ExitsSeen, ScanLine
  <2>4. ExitsFound(pos)'
    <3> SUFFICES ASSUME NEW i \in 1..Len(lines), i < pos'
                 PROVE  IsJump(lines[i]) <=> lines[i].addr \in exitPts'
      BY <1>1 DEF ExitsFound
    <3>1. CASE i < pos
      BY <1>1, <3>1, LinesFacts DEF IInv, ScanInv, ExitsFound, ScanLine
    <3>2. CASE i = pos
      <4>1. line.addr \notin exitPts
        <5>1. \A a \in exitPts : \E k \in 1..Len(lines) : k < pos /\ lines[k].addr = a
          BY <1>1 DEF IInv, ScanInv, ExitsSeen
        <5>2. \A k \in 1..Len(lines) : k < pos => lines[k].addr # line.addr
          BY <1>1, LinesFacts
        <5> QED
          BY <5>1, <5>2
      <4> QED
        BY <1>1, <3>2, <4>1 DEF ScanLine
    <3> QED
      BY <1>1, <3>1, <3>2
  <2> QED
    BY <1>1, <2>1, <2>2, <2>3, <2>4, <2>5, <2>6 DEF IInv, ScanInv
<1>4. Sound(bbMap)' /\ Disjoint(bbMap)'
  BY <1>1 DEF IInv, ScanInv, Sound, Disjoint
<1>5. SplitInv' /\ NeverPanics'
  BY <1>1 DEF SplitInv, NeverPanics
<1> QED
  BY <1>1, <1>2, <1>3, <1>4, <1>5 DEF IInv
LEMMA EndScanInv == IInv /\ EndScan => IInv'
<1> SUFFICES ASSUME IInv, EndScan PROVE IInv'
  OBVIOUS
<1>1. /\ phase = "scan" /\ pos = Len(lines) + 1 /\ Len(lines) \in Nat
      /\ UNCHANGED <<lines, prevWasJump, entryPts, exitPts, currEntry, insts, bbMap>>
      /\ phase' = "split" /\ pos' = 1 /\ insts = <<>> /\ DOMAIN bbMap = {}
  BY LinesFacts DEF IInv, TypeOK, EndScan, ScanInv
<1>2. TypeOK' /\ NeverPanics' /\ ScanInv'
  BY <1>1 DEF IInv, TypeOK, NeverPanics, ScanInv
<1>3. PointsFound'
  BY <1>1 DEF IInv, ScanInv, PointsFound, EntriesFound, TargetsFound, EntriesSeen, Enters,
              ExitsFound
<1>4. /\ Accumulated(currEntry, insts, pos)' /\ StoredBefore(bbMap, pos - Len(insts))'
      /\ StoredAll(bbMap, pos - Len(insts))' /\ Delimited(bbMap)'
  BY <1>1 DEF Accumulated, StoredBefore, StoredAll, Delimited
<1>5. SplitInv'
  BY <1>1, <1>3, <1>4 DEF SplitInv
<1> QED
  BY <1>1, <1>2, <1>5 DEF IInv, Sound, Disjoint

(***************************************************************************)
(* What storing the block that ends before line "next" does to the map: it *)
(* is sound, and its key is new, because the stored blocks lie before it.  *)
(***************************************************************************)
LEMMA InsertBlock ==
  ASSUME IsListing(lines), NEW map, MapType(map), Sound(map), Disjoint(map),
         NEW next \in 1..Len(lines) + 1, NEW entry, NEW block,
         Accumulated(entry, block, next), block # <<>>,
         StoredBefore(map, next - Len(block)), StoredAll(map, next - Len(block)),
         Delimited(map), EndsAt(next - 1)
  PROVE  /\ entry \in Nat /\ entry \notin DOMAIN map
         /\ MapType(Insert(map, entry, block))
         /\ Sound(Insert(map, entry, block))
         /\ Disjoint(Insert(map, entry, block))
         /\ StoredBefore(Insert(map, entry, block), next)
         /\ StoredAll(Insert(map, entry, block), next)
         /\ Delimited(Insert(map, entry, block))
<1> DEFINE new == Insert(map, entry, block)
           first == next - Len(block)
<1>1. /\ Len(lines) \in Nat /\ Len(block) \in Nat /\ Len(block) >= 1
      /\ first \in 1..Len(lines) /\ block \in Seq(Lines)
      /\ \A k \in 1..Len(block) : block[k] = lines[first + k - 1]
      /\ \A k \in 1..Len(block) : first + k - 1 \in first..(next - 1)
      /\ entry = block[1].addr /\ entry = lines[first].addr
  <2>1. block \in Seq(Lines) /\ Len(block) < next /\ entry = block[1].addr
    BY DEF Accumulated
  <2>2. \A k \in 1..Len(block) : block[k] = lines[next - Len(block) + k - 1]
    BY DEF Accumulated
  <2>3. Len(lines) \in Nat
    BY LinesFacts
  <2>4. Len(block) \in Nat /\ Len(block) >= 1
    BY <2>1
  <2>5. first \in 1..Len(lines)
    BY <2>1, <2>3, <2>4
  <2>6. \A k \in 1..Len(block) : first + k - 1 \in first..(next - 1)
    BY <2>3, <2>4, <2>5
  <2>7. first + 1 - 1 = first /\ 1 \in 1..Len(block)
    BY <2>4, <2>5
  <2>8. block[1] = lines[first]
    BY <2>2, <2>7
  <2> QED
    BY <2>1, <2>2, <2>3, <2>4, <2>5, <2>6, <2>8
<1>2. entry \in Nat
  BY <1>1, LinesFacts
<1>3. ASSUME NEW e \in DOMAIN map, NEW k \in 1..Len(map[e]), NEW m \in 1..Len(block)
      PROVE  map[e][k].addr # block[m].addr
  <2>1. PICK i \in 1..Len(lines) : i < first /\ map[e][k] = lines[i]
    BY DEF StoredBefore
  <2>2. block[m] = lines[first + m - 1] /\ first + m - 1 \in 1..Len(lines) /\ i # first + m - 1
    BY <1>1, <2>1
  <2> QED
    BY <2>1, <2>2, LinesFacts
<1>4. \A e \in DOMAIN map :
        /\ map[e] \in Seq(Lines) /\ Len(map[e]) \in Nat
        /\ map[e] # <<>> /\ map[e][1].addr = e /\ 1 \in 1..Len(map[e])
  BY DEF MapType, Sound, SingleEntrySingleExit
<1>5. entry \notin DOMAIN map
  <2> SUFFICES ASSUME entry \in DOMAIN map PROVE FALSE
    OBVIOUS
  <2>1. 1 \in 1..Len(map[entry]) /\ 1 \in 1..Len(block)
    BY <1>1, <1>4
  <2>2. map[entry][1].addr # block[1].addr
    BY <1>3, <2>1
  <2>3. map[entry][1].addr = entry
    BY <1>4
  <2> QED
    BY <1>1, <2>2, <2>3
<1>6. /\ DOMAIN new = DOMAIN map \cup {entry}
      /\ new[entry] = block
      /\ \A e \in DOMAIN map : new[e] = map[e]
  BY <1>5 DEF Insert
<1>7. MapType(new)
  BY <1>1, <1>2, <1>5 DEF MapType, Insert
<1>8. Sound(new)
  <2>1. IsRun(block)
    <3>1. first + Len(block) <= Len(lines) + 1
      BY <1>1
    <3> QED
      BY <1>1, <3>1 DEF IsRun
  <2>2. SingleEntrySingleExit(entry, block)
    BY <1>1, <2>1 DEF Accumulated, SingleEntrySingleExit
  <2> QED
    BY <1>6, <2>2 DEF Sound
<1>9. Disjoint(new)
  <2> SUFFICES ASSUME NEW d \in DOMAIN new, NEW e \in DOMAIN new,
                      NEW i \in 1..Len(new[d]), NEW j \in 1..Len(new[e]),
                      new[d][i].addr = new[e][j].addr
               PROVE  d = e
    BY DEF Disjoint
  <2>1. CASE d \in DOMAIN map /\ e \in DOMAIN map
    BY <1>6, <2>1 DEF Disjoint
  <2>2. CASE d = entry /\ e \in DOMAIN map
    BY <1>3, <1>6, <2>2
  <2>3. CASE e = entry /\ d \in DOMAIN map
    BY <1>3, <1>6, <2>3
  <2> QED
    BY <1>6, <2>1, <2>2, <2>3
<1>10. StoredBefore(new, next)
  <2> SUFFICES ASSUME NEW e \in DOMAIN new, NEW k \in 1..Len(new[e])
               PROVE  \E i \in 1..Len(lines) : i < next /\ new[e][k] = lines[i]
    BY DEF StoredBefore
  <2>1. CASE e \in DOMAIN map
    <3>1. PICK i \in 1..Len(lines) : i < first /\ map[e][k] = lines[i]
      BY <1>6, <2>1 DEF StoredBefore
    <3> QED
      BY <1>1, <1>6, <2>1, <3>1
  <2>2. CASE e = entry
    <3>1. first + k - 1 \in 1..Len(lines) /\ first + k - 1 < next
      BY <1>1, <1>6, <2>2
    <3> QED
      BY <1>1, <1>6, <2>2, <3>1
  <2> QED
    BY <1>6, <2>1, <2>2
<1>11. StoredAll(new, next)
  <2> SUFFICES ASSUME NEW i \in 1..Len(lines), i < next
               PROVE  \E e \in DOMAIN new : \E k \in 1..Len(new[e]) : new[e][k] = lines[i]
    BY DEF StoredAll
  <2>1. CASE i < first
    <3>1. PICK e \in DOMAIN map : \E k \in 1..Len(map[e]) : map[e][k] = lines[i]
      BY <2>1 DEF StoredAll
    <3> QED
      BY <1>6, <3>1
  <2>2. CASE i >= first
    <3>1. /\ i - first + 1 \in 1..Len(block)
          /\ first + (i - first + 1) - 1 = i
      BY <1>1, <2>2
    <3>2. block[i - first + 1] = lines[i]
      BY <1>1, <3>1
    <3> QED
      BY <1>6, <3>1, <3>2
  <2> QED
    BY <1>1, <2>1, <2>2
<1>12. Delimited(new)
  <2>1. block[Len(block)] = lines[next - 1] /\ next - 1 \in 1..Len(lines)
    BY <1>1
  <2>2. entry \in entryPts
    BY DEF Accumulated
  <2> QED
    BY <1>6, <2>1, <2>2 DEF Delimited
<1> QED
  BY <1>2, <1>5, <1>7, <1>8, <1>9, <1>10, <1>11, <1>12

(***************************************************************************)
(* The loop body of the second pass: the block that now contains the line  *)
(* is accumulated correctly whether or not the line started it.            *)
(***************************************************************************)
LEMMA SplitLineFacts ==
  ASSUME IInv, SplitLine,
         NEW line, line = lines[pos],
         NEW ended, ended = IF EndsPrevious(line) THEN Insert(bbMap, currEntry, insts) ELSE bbMap,
         NEW block, block = Accumulate(EndsPrevious(line), line),
         NEW entry, entry = IF IsEntryPt(line) THEN line.addr ELSE currEntry
  PROVE  /\ Accumulated(entry, block, pos + 1) /\ block # <<>> /\ entry \in Nat
         /\ MapType(ended) /\ Sound(ended) /\ Disjoint(ended)
         /\ StoredBefore(ended, (pos + 1) - Len(block))
         /\ StoredAll(ended, (pos + 1) - Len(block)) /\ Delimited(ended)
         /\ \A e \in DOMAIN bbMap : e \in DOMAIN ended /\ ended[e] = bbMap[e]
<1>1. /\ phase = "split" /\ pos \in 1..Len(lines) /\ Len(lines) \in Nat
      /\ IsListing(lines) /\ lines \in Seq(Lines)
      /\ line \in Lines /\ line.addr \in Nat
      /\ insts \in Seq(Lines) /\ Len(insts) \in Nat
      /\ Accumulated(currEntry, insts, pos)
      /\ StoredBefore(bbMap, pos - Len(insts))
      /\ StoredAll(bbMap, pos - Len(insts)) /\ Delimited(bbMap)
      /\ EntriesFound(Len(lines) + 1)
      /\ MapType(bbMap) /\ Sound(bbMap) /\ Disjoint(bbMap)
  BY LinesFacts DEF IInv, TypeOK, SplitLine, SplitInv, PointsFound, MapType
<1>2. CASE insts = <<>>
  <2>1. IsEntryPt(line)
    BY <1>1, <1>2 DEF IInv, SplitInv, EntriesFound, IsEntryPt
  <2>2. ended = bbMap /\ block = <<line>> /\ entry = line.addr
    BY <1>2, <2>1 DEF EndsPrevious, Accumulate
  <2>3. Accumulated(entry, block, pos + 1)
    BY <1>1, <2>1, <2>2 DEF Accumulated, IsEntryPt
  <2> QED
    BY <1>1, <1>2, <2>2, <2>3
<1>3. CASE insts # <<>> /\ IsEntryPt(line)
  <2>1. /\ Len(insts) >= 1 /\ insts[1] = lines[pos - Len(insts)]
        /\ pos - Len(insts) \in 1..Len(lines) /\ pos - Len(insts) # pos
        /\ currEntry = insts[1].addr
    <3>1. Len(insts) >= 1 /\ Len(insts) < pos
      BY <1>1, <1>3 DEF Accumulated
    <3>2. 1 \in 1..Len(insts) /\ pos - Len(insts) + 1 - 1 = pos - Len(insts)
      BY <1>1, <3>1
    <3>3. insts[1] = lines[pos - Len(insts) + 1 - 1] /\ currEntry = insts[1].addr
      BY <1>1, <1>3, <3>2 DEF Accumulated
    <3> QED
      BY <1>1, <3>1, <3>2, <3>3
  <2>2. currEntry # line.addr /\ currEntry \in Nat
    BY <1>1, <2>1, LinesFacts
  <2>3. EndsPrevious(line)
    BY <1>3, <2>2 DEF EndsPrevious, NoAddr
  <2>4. ended = Insert(bbMap, currEntry, insts) /\ block = <<line>> /\ entry = line.addr
    BY <1>3, <2>3 DEF Accumulate
  <2>5. /\ currEntry \notin DOMAIN bbMap /\ MapType(ended)
        /\ Sound(ended) /\ Disjoint(ended) /\ StoredBefore(ended, pos)
        /\ StoredAll(ended, pos) /\ Delimited(ended)
    <3>1. EndsAt(pos - 1)
      BY <1>1, <1>3, <2>1 DEF EndsAt, IsEntryPt
    <3> QED
      BY <1>1, <1>3, <2>4, <3>1, InsertBlock
  <2>6. Accumulated(entry, block, pos + 1)
    BY <1>1, <1>3, <2>4 DEF Accumulated, IsEntryPt
  <2>7. \A e \in DOMAIN bbMap : e \in DOMAIN ended /\ ended[e] = bbMap[e]
    BY <2>4, <2>5 DEF Insert
  <2> QED
    BY <1>1, <2>4, <2>5, <2>6, <2>7
<1>4. CASE insts # <<>> /\ ~ IsEntryPt(line)
  <2>1. ended = bbMap /\ block = Append(insts, line) /\ entry = currEntry
    BY <1>4 DEF EndsPrevious, Accumulate
  <2>2. pos > 1 /\ ~ IsJump(lines[pos - 1])
    BY <1>1, <1>4 DEF IInv, SplitInv, Accumulated
  <2>3. /\ Len(insts) >= 1 /\ insts[Len(insts)] = lines[pos - 1]
    <3>1. /\ Len(insts) >= 1 /\ Len(insts) \in 1..Len(insts)
          /\ pos - Len(insts) + Len(insts) - 1 = pos - 1
      BY <1>1, <1>4
    <3>2. insts[Len(insts)] = lines[pos - Len(insts) + Len(insts) - 1]
      BY <1>1, <3>1 DEF Accumulated
    <3> QED
      BY <3>1, <3>2
  <2>4. /\ block \in Seq(Lines) /\ Len(block) = Len(insts) + 1
        /\ \A k \in 1..Len(insts) : block[k] = insts[k]
        /\ block[Len(insts) + 1] = line
    BY <1>1, <2>1
  <2>5. \A k \in 1..Len(block) : block[k] = lines[(pos + 1) - Len(block) + k - 1]
    <3>1. (pos + 1) - Len(block) = pos - Len(insts)
      BY <1>1, <2>4
    <3>2. \A k \in 1..Len(insts) : block[k] = lines[pos - Len(insts) + k - 1]
      BY <1>1, <2>4 DEF Accumulated
    <3>3. block[Len(block)] = lines[pos - Len(insts) + Len(block) - 1]
      BY <1>1, <2>4
    <3>4. \A k \in 1..Len(block) : k \in 1..Len(insts) \/ k = Len(block)
      BY <1>1, <2>4
    <3> QED
      BY <3>1, <3>2, <3>3, <3>4
  <2>6. \A k \in 1..Len(block) : k > 1 => block[k].addr \notin entryPts
    <3>1. \A k \in 1..Len(insts) : k > 1 => block[k].addr \notin entryPts
      BY <1>1, <2>4 DEF Accumulated
    <3>2. block[Len(insts) + 1].addr \notin entryPts
      BY <1>4, <2>4 DEF IsEntryPt
    <3> QED
      BY <1>1, <2>4, <3>1, <3>2
  <2>7. \A k \in 1..Len(block) : k < Len(block) => ~ IsJump(block[k])
    <3>1. \A k \in 1..Len(insts) : k < Len(insts) => ~ IsJump(block[k])
      BY <1>1, <2>4 DEF Accumulated
    <3>2. Len(insts) \in 1..Len(insts) /\ ~ IsJump(block[Len(insts)])
      BY <1>1, <2>2, <2>3, <2>4
    <3>3. \A k \in 1..Len(block) : k < Len(block) =>
            k \in 1..Len(insts) /\ (k < Len(insts) \/ k = Len(insts))
      BY <1>1, <2>4
    <3> QED
      BY <3>1, <3>2, <3>3
  <2>8. entry = block[1].addr /\ entry \in entryPts /\ Len(block) < pos + 1
    BY <1>1, <1>4, <2>1, <2>3, <2>4 DEF Accumulated
  <2>9. Accumulated(entry, block, pos + 1)
    BY <2>4, <2>5, <2>6, <2>7, <2>8, Zenon DEF Accumulated
  <2>10. entry \in Nat /\ (pos + 1) - Len(block) = pos - Len(insts)
    <3>1. block[1] = lines[pos - Len(insts)] /\ pos - Len(insts) \in 1..Len(lines)
      <4>1. Len(insts) < pos
        BY <1>1 DEF Accumulated
      <4>2. 1 \in 1..Len(block) /\ pos - Len(insts) \in 1..Len(lines)
        BY <1>1, <2>3, <2>4, <4>1
      <4>3. (pos + 1) - Len(block) + 1 - 1 = pos - Len(insts)
        BY <1>1, <2>4
      <4> QED
        BY <2>5, <4>2, <4>3
    <3>2. block[1].addr \in Nat
      BY <1>1, <3>1, LinesFacts
    <3>3. (pos + 1) - Len(block) = pos - Len(insts)
      BY <1>1, <2>4
    <3> QED
      BY <2>8, <3>2, <3>3
  <2> QED
    BY <1>1, <2>1, <2>4, <2>9, <2>10
<1> QED
  BY <1>2, <1>3, <1>4
LEMMA SplitLineInv ==
  IInv /\ SplitLine =>
    /\ IInv'
    /\ \A e \in DOMAIN bbMap : e \in DOMAIN bbMap' /\ bbMap'[e] = bbMap[e]
<1> SUFFICES ASSUME IInv, SplitLine
             PROVE  /\ IInv'
                    /\ \A e \in DOMAIN bbMap : e \in DOMAIN bbMap' /\ bbMap'[e] = bbMap[e]
  OBVIOUS
<1> DEFINE line  == lines[pos]
           ends  == EndsPrevious(line)
           ended == IF ends THEN Insert(bbMap, currEntry, insts) ELSE bbMap
           block == Accumulate(ends, line)
           entry == IF IsEntryPt(line) THEN line.addr ELSE currEntry
<1>1. /\ Accumulated(entry, block, pos + 1) /\ block # <<>> /\ entry \in Nat
      /\ MapType(ended) /\ Sound(ended) /\ Disjoint(ended)
      /\ StoredBefore(ended, (pos + 1) - Len(block))
      /\ StoredAll(ended, (pos + 1) - Len(block)) /\ Delimited(ended)
      /\ \A e \in DOMAIN bbMap : e \in DOMAIN ended /\ ended[e] = bbMap[e]
  BY SplitLineFacts
<1>2. /\ phase = "split" /\ phase' = "split" /\ pos' = pos + 1
      /\ pos \in 1..Len(lines) /\ Len(lines) \in Nat /\ IsListing(lines)
      /\ UNCHANGED <<lines, prevWasJump, entryPts, exitPts>>
      /\ currEntry' = entry
      /\ PointsFound
  BY <1>1, LinesFacts DEF IInv, TypeOK, SplitLine, SplitInv, NoAddr
<1>3. IsExitPt(line) <=> IsJump(line)
  BY <1>2 DEF PointsFound, ExitsFound, IsExitPt
<1>6. PointsFound'
  BY <1>2 DEF PointsFound, EntriesFound, TargetsFound, EntriesSeen, Enters, ExitsFound
<1> HIDE DEF ended, block, entry, ends
<1>4. CASE IsExitPt(line)
  <2>1. bbMap' = Insert(ended, entry, block) /\ insts' = <<>>
    BY <1>4 DEF SplitLine, ended, block, entry, ends
  <2>2. /\ entry \notin DOMAIN ended
        /\ MapType(bbMap') /\ Sound(Insert(ended, entry, block))
        /\ Disjoint(Insert(ended, entry, block))
        /\ StoredBefore(Insert(ended, entry, block), pos + 1)
        /\ StoredAll(Insert(ended, entry, block), pos + 1)
        /\ Delimited(Insert(ended, entry, block))
    <3>1. EndsAt((pos + 1) - 1)
      BY <1>2, <1>3, <1>4 DEF EndsAt, line
    <3> QED
      BY <1>1, <1>2, <2>1, <3>1, InsertBlock
  <2>3. /\ Sound(bbMap)' /\ Disjoint(bbMap)' /\ StoredBefore(bbMap, pos - Len(insts))'
        /\ StoredAll(bbMap, pos - Len(insts))' /\ Delimited(bbMap)'
    <3>1. Sound(bbMap)'
      BY <1>2, <2>1, <2>2 DEF Sound, SingleEntrySingleExit, IsRun
    <3>2. Disjoint(bbMap)'
      BY <2>1, <2>2 DEF Disjoint
    <3>3. pos' - Len(insts') = pos + 1
      BY <1>2, <2>1
    <3>4. StoredBefore(bbMap', pos + 1)
      BY <2>1, <2>2, Zenon
    <3>5. StoredBefore(bbMap, pos - Len(insts))'
      BY <1>2, <3>3, <3>4 DEF StoredBefore
    <3>6. StoredAll(bbMap, pos - Len(insts))'
      <4>1. StoredAll(bbMap', pos + 1)
        BY <2>1, <2>2, Zenon
      <4> QED
        BY <1>2, <3>3, <4>1 DEF StoredAll
    <3>7. Delimited(bbMap)'
      BY <1>2, <2>1, <2>2 DEF Delimited, EndsAt
    <3> QED
      BY <3>1, <3>2, <3>5, <3>6, <3>7
  <2>4. Accumulated(currEntry, insts, pos)'
    BY <1>2, <2>1 DEF Accumulated
  <2>5. (pos > 1 => (insts = <<>> <=> IsJump(lines[pos - 1])))'
    BY <1>2, <1>3, <1>4, <2>1
  <2>6. TypeOK'
    BY <1>1, <1>2, <2>1, <2>2 DEF IInv, TypeOK, MapType
  <2>7. SplitInv' /\ ScanInv' /\ NeverPanics'
    BY <1>2, <1>6, <2>3, <2>4, <2>5 DEF SplitInv, ScanInv, NeverPanics
  <2>8. \A e \in DOMAIN bbMap : e \in DOMAIN bbMap' /\ bbMap'[e] = bbMap[e]
    BY <1>1, <2>1, <2>2 DEF Insert
  <2> QED
    BY <1>2, <2>3, <2>6, <2>7, <2>8 DEF IInv
<1>5. CASE ~ IsExitPt(line)
  <2>1. bbMap' = ended /\ insts' = block
    BY <1>5 DEF SplitLine, ended, block, entry, ends
  <2>2. /\ Sound(bbMap)' /\ Disjoint(bbMap)' /\ StoredBefore(bbMap, pos - Len(insts))'
        /\ StoredAll(bbMap, pos - Len(insts))' /\ Delimited(bbMap)'
    <3>1. Sound(bbMap)'
      BY <1>1, <1>2, <2>1 DEF Sound, SingleEntrySingleExit, IsRun
    <3>2. Disjoint(bbMap)'
      BY <1>1, <2>1 DEF Disjoint
    <3>3. StoredBefore(bbMap, pos - Len(insts))'
      BY <1>1, <1>2, <2>1 DEF StoredBefore
    <3>4. StoredAll(bbMap, pos - Len(insts))'
      BY <1>1, <1>2, <2>1 DEF StoredAll
    <3>5. Delimited(bbMap)'
      BY <1>1, <1>2, <2>1 DEF Delimited, EndsAt
    <3> QED
      BY <3>1, <3>2, <3>3, <3>4, <3>5
  <2>3. Accumulated(currEntry, insts, pos)'
    BY <1>1, <1>2, <2>1 DEF Accumulated
  <2>4. (pos > 1 => (insts = <<>> <=> IsJump(lines[pos - 1])))'
    BY <1>1, <1>2, <1>3, <1>5, <2>1
  <2>5. TypeOK'
    BY <1>1, <1>2, <2>1 DEF IInv, TypeOK, MapType, Accumulated
  <2>6. SplitInv' /\ ScanInv' /\ NeverPanics'
    BY <1>2, <1>6, <2>2, <2>3, <2>4 DEF SplitInv, ScanInv, NeverPanics
  <2> QED
    BY <1>1, <1>2, <2>1, <2>2, <2>5, <2>6 DEF IInv
<1> QED
  BY <1>4, <1>5

(***************************************************************************)
(* A step that leaves every variable alone but the phase.                  *)
(***************************************************************************)
LEMMA SamePhaseInv ==
  ASSUME IInv,
         UNCHANGED <<lines, pos, prevWasJump, entryPts, exitPts, currEntry, insts, bbMap>>,
         phase' = phase \/ (phase = "split" /\ phase' = "done" /\ pos > Len(lines))
  PROVE  IInv'
<1>1. TypeOK' /\ IsListing(lines)' /\ NeverPanics'
  BY DEF IInv, TypeOK, NeverPanics, IsListing
<1>2. ScanInv'
  BY DEF IInv, ScanInv, EntriesFound, TargetsFound, EntriesSeen, Enters, ExitsFound, ExitsSeen
<1>3. Sound(bbMap)' /\ Disjoint(bbMap)'
  <2>1. Sound(bbMap)' <=> Sound(bbMap)
    BY DEF Sound, SingleEntrySingleExit, IsRun
  <2>2. Disjoint(bbMap)' <=> Disjoint(bbMap)
    BY DEF Disjoint
  <2> QED
    BY <2>1, <2>2 DEF IInv
<1>4. PointsFound' <=> PointsFound
  BY DEF PointsFound, EntriesFound, TargetsFound, EntriesSeen, Enters, ExitsFound
<1>5. Accumulated(currEntry, insts, pos)' <=> Accumulated(currEntry, insts, pos)
  BY DEF Accumulated
<1>6. /\ StoredBefore(bbMap, pos - Len(insts))' <=> StoredBefore(bbMap, pos - Len(insts))
      /\ StoredAll(bbMap, pos - Len(insts))' <=> StoredAll(bbMap, pos - Len(insts))
      /\ Delimited(bbMap)' <=> Delimited(bbMap)
  BY DEF StoredBefore, StoredAll, Delimited, EndsAt
<1>7. phase' = "done" => pos' = Len(lines') + 1
  BY LinesFacts DEF IInv, TypeOK, SplitInv
<1>8. SplitInv'
  BY <1>4, <1>5, <1>6, <1>7 DEF IInv, SplitInv
<1> QED
  BY <1>1, <1>2, <1>3, <1>8 DEF IInv

LEMMA EndSplitInv == IInv /\ EndSplit => IInv'
  BY SamePhaseInv DEF EndSplit

LEMMA UnchangedInv == IInv /\ UNCHANGED vars => IInv'
  BY SamePhaseInv DEF vars

(* The invariant holds in every state of every listing.                    *)
THEOREM Invariance == Spec => []IInv
<1>1. IInv /\ [Next]_vars => IInv'
  BY ScanLineInv, EndScanInv, SplitLineInv, EndSplitInv, UnchangedInv DEF Next, Stopped
<1> QED
  BY InitInv, <1>1, PTL DEF Spec

(***************************************************************************)
(* For every listing, the variables of split keep their types, and the     *)
(* unwrap of curr_entry (cfg.rs:257) never fails.                          *)
(***************************************************************************)
THEOREM TypeCorrect == Spec => []TypeOK
<1>1. IInv => TypeOK
  BY DEF IInv
<1> QED
  BY Invariance, <1>1, PTL

(* For every listing, split has an open block whenever it unwraps one.     *)
THEOREM UnwrapNeverFails == Spec => []NeverPanics
<1>1. IInv => NeverPanics
  BY DEF IInv
<1> QED
  BY Invariance, <1>1, PTL

(***************************************************************************)
(* For every listing, each stored block is a run of consecutive lines      *)
(* under the address of its first line, entered only at the top and left   *)
(* only at the bottom.                                                     *)
(***************************************************************************)
THEOREM SplitIsSound == Spec => []BlocksSound
<1>1. IInv => BlocksSound
  BY DEF IInv, Sound, BlocksSound
<1> QED
  BY Invariance, <1>1, PTL

(* For every listing, no line is in two blocks.                            *)
THEOREM SplitIsDisjoint == Spec => []BlocksDisjoint
<1>1. IInv => BlocksDisjoint
  <2> SUFFICES ASSUME IInv PROVE BlocksDisjoint
    OBVIOUS
  <2>1. \A e \in DOMAIN bbMap : DOMAIN bbMap[e] = 1..Len(bbMap[e])
    BY DEF IInv, TypeOK
  <2> QED
    BY <2>1 DEF IInv, Disjoint, BlocksDisjoint
<1> QED
  BY Invariance, <1>1, PTL

(***************************************************************************)
(* For every listing, a stored block is never overwritten: the keys the    *)
(* HashMap receives are new.                                               *)
(***************************************************************************)
THEOREM StoredBlocksAreFinal == Spec => BlocksAreFinal
<1> DEFINE Kept == \A e \in DOMAIN bbMap : e \in DOMAIN bbMap' /\ bbMap'[e] = bbMap[e]
<1>1. IInv /\ [Next]_vars => [Kept]_vars
  BY SplitLineInv DEF Next, ScanLine, EndScan, EndSplit, Stopped, vars
<1> QED
  BY Invariance, <1>1, PTL DEF BlocksAreFinal, Spec

(***************************************************************************)
(* A line that is not stored at the end is of the block that is still      *)
(* open: no jump is left in it, and no entry point but its first line.     *)
(***************************************************************************)
LEMMA OpenTail == IInv => OnlyOpenTailLost
<1> SUFFICES ASSUME IInv, phase = "done",
                    NEW i \in 1..Len(lines), ~ Covered(i),
                    NEW j \in i..Len(lines)
             PROVE  ~ IsJump(lines[j]) /\ (j > i => lines[j].addr \notin entryPts)
  BY DEF OnlyOpenTailLost
<1>1. /\ Len(lines) \in Nat /\ Len(insts) \in Nat /\ pos = Len(lines) + 1
      /\ Accumulated(currEntry, insts, pos)
      /\ StoredAll(bbMap, pos - Len(insts))
      /\ pos > 1 => (insts = <<>> <=> IsJump(lines[pos - 1]))
  BY LinesFacts DEF IInv, SplitInv, TypeOK
<1>2. \A e \in DOMAIN bbMap : DOMAIN bbMap[e] = 1..Len(bbMap[e])
  BY DEF IInv, TypeOK
<1>3. i >= pos - Len(insts)
  <2> SUFFICES ASSUME i < pos - Len(insts) PROVE FALSE
    BY <1>1
  <2>1. PICK e \in DOMAIN bbMap : \E k \in 1..Len(bbMap[e]) : bbMap[e][k] = lines[i]
    BY <1>1 DEF StoredAll
  <2>2. DOMAIN bbMap[e] = 1..Len(bbMap[e])
    BY <1>2
  <2> QED
    BY <2>1, <2>2 DEF Covered
<1> DEFINE k == j - (pos - Len(insts)) + 1
<1>4. /\ k \in 1..Len(insts) /\ (j > i => k > 1)
      /\ pos - Len(insts) + k - 1 = j
      /\ (k < Len(insts) \/ (k = Len(insts) /\ j = Len(lines)))
  BY <1>1, <1>3
<1>5. insts[k] = lines[j]
  BY <1>1, <1>4 DEF Accumulated
<1>6. j > i => lines[j].addr \notin entryPts
  BY <1>1, <1>4, <1>5 DEF Accumulated
<1>7. CASE k < Len(insts)
  BY <1>1, <1>4, <1>5, <1>6, <1>7 DEF Accumulated
<1>8. CASE k = Len(insts) /\ j = Len(lines)
  <2>1. insts # <<>> /\ pos > 1 /\ pos - 1 = j
    BY <1>1, <1>4, <1>8
  <2> QED
    BY <1>1, <1>6, <2>1
<1> QED
  BY <1>4, <1>7, <1>8

(* A stored line that is an entry point is the key of its block.           *)
LEMMA StoredEntryIsKey ==
  ASSUME Sound(bbMap), MapType(bbMap),
         NEW i \in 1..Len(lines), Covered(i), lines[i].addr \in entryPts
  PROVE  lines[i].addr \in DOMAIN bbMap /\ bbMap[lines[i].addr][1] = lines[i]
<1>1. PICK e \in DOMAIN bbMap : \E k \in DOMAIN bbMap[e] : bbMap[e][k] = lines[i]
  BY DEF Covered
<1>2. PICK k \in DOMAIN bbMap[e] : bbMap[e][k] = lines[i]
  BY <1>1
<1>3. bbMap[e] \in Seq(Lines) /\ SingleEntrySingleExit(e, bbMap[e])
  BY DEF MapType, Sound
<1>4. k \in 1..Len(bbMap[e]) /\ ~ (k > 1)
  BY <1>2, <1>3 DEF SingleEntrySingleExit
<1>5. k = 1
  BY <1>3, <1>4
<1> QED
  BY <1>2, <1>3, <1>5 DEF SingleEntrySingleExit

LEMMA SuccessorsStart == IInv => SuccessorsAreEntries
<1> SUFFICES ASSUME IInv, phase = "done", Ascending(lines),
                    NEW e \in DOMAIN bbMap,
                    NEW s \in Successors(bbMap[e][Len(bbMap[e])]),
                    NEW i \in 1..Len(lines), lines[i].addr = s, Covered(i)
             PROVE  s \in DOMAIN bbMap
  BY DEF SuccessorsAreEntries
<1>1. /\ Len(lines) \in Nat /\ DOMAIN lines = 1..Len(lines)
      /\ \A j \in 1..Len(lines) : lines[j].addr \in Nat
      /\ Sound(bbMap) /\ MapType(bbMap) /\ Delimited(bbMap) /\ TargetsFound(Len(lines) + 1)
  BY LinesFacts DEF IInv, TypeOK, MapType, SplitInv, PointsFound
<1>2. PICK n \in 1..Len(lines) : bbMap[e][Len(bbMap[e])] = lines[n] /\ EndsAt(n)
  BY <1>1 DEF Delimited
<1>3. s \in entryPts
  <2>1. CASE IsJump(lines[n])
    BY <1>1, <1>2, <2>1 DEF TargetsFound
  <2>2. CASE ~ IsJump(lines[n])
    <3>1. s = lines[n].addr + 1
      BY <1>2, <2>2 DEF Successors, NextAddr, IsJump, IsDirJump, JumpOps
    <3>2. n < Len(lines) /\ lines[n + 1].addr \in entryPts /\ n + 1 \in 1..Len(lines)
      BY <1>1, <1>2, <2>2 DEF EndsAt
    <3>3. lines[n].addr < lines[n + 1].addr
      BY <1>1, <3>2 DEF Ascending
    <3>4. i > n
      <4>1. ~ (i < n)
        <5> SUFFICES ASSUME i < n PROVE FALSE
          OBVIOUS
        <5>1. lines[i].addr < lines[n].addr
          BY <1>1 DEF Ascending
        <5> QED
          BY <1>1, <3>1, <5>1
      <4>2. i # n
        BY <1>1, <3>1
      <4> QED
        BY <1>1, <4>1, <4>2
    <3>5. ~ (i > n + 1)
      <4> SUFFICES ASSUME i > n + 1 PROVE FALSE
        OBVIOUS
      <4>1. lines[n + 1].addr < lines[i].addr
        BY <1>1, <3>2 DEF Ascending
      <4> QED
        BY <1>1, <3>1, <3>2, <3>3, <4>1
    <3>6. i = n + 1
      BY <1>1, <3>4, <3>5
    <3> QED
      BY <3>2, <3>6
  <2> QED
    BY <2>1, <2>2
<1> QED
  BY <1>1, <1>3, StoredEntryIsKey

(***************************************************************************)
(* For every listing, the lines that split drops (cfg.rs:293) are those of *)
(* the block that is open at the end.                                      *)
(***************************************************************************)
THEOREM SplitLosesOpenTail == Spec => []OnlyOpenTailLost
  BY Invariance, OpenTail, PTL

(***************************************************************************)
(* For every listing in address order, the successor that create_cfg looks *)
(* up is the key of a block if it is in one.                               *)
(***************************************************************************)
THEOREM SuccessorsAreFound == Spec => []SuccessorsAreEntries
  BY Invariance, SuccessorsStart, PTL

-----------------------------------------------------------------------------
(***************************************************************************)
(* What read_binaries guarantees for every dump: the listing is the dump   *)
(* without the fences, with distinct addresses, and the two marks mean     *)
(* what the later stages take them to mean.                                *)
(*                                                                         *)
(* The invariant of the first pass relates raw_als_data to the lines of    *)
(* the dump read so far; that of the second says what the marks of the     *)
(* lines before dumpPos are and that processed_func holds their functions. *)
(***************************************************************************)
DumpsTyped == \A d \in Dumps : D!IsDump(d)

(* raw holds the lines before line "next" that are kept, in their order.   *)
LinesKept(next) ==
  /\ \A i \in 1..Len(raw) :
       \E m \in 1..Len(dump) : m < next /\ raw[i] = dump[m] /\ D!Keeps(dump[m])
  /\ \A m \in 1..Len(dump) : m < next /\ D!Keeps(dump[m]) =>
       \E i \in 1..Len(raw) : raw[i] = dump[m]
  /\ \A i, j \in 1..Len(raw) : \A m, n \in 1..Len(dump) :
       i < j /\ m < next /\ n < next /\ raw[i] = dump[m] /\ raw[j] = dump[n] => m < n

(* The lines before line "next" have the addresses processed, once each.   *)
AddrsDistinct(next) ==
  /\ \A m \in 1..Len(dump) : m < next => dump[m].addr \in processed
  /\ \A a \in processed : \E m \in 1..Len(dump) : m < next /\ dump[m].addr = a
  /\ \A m, n \in 1..Len(dump) :
       m < next /\ n < next /\ dump[m].addr = dump[n].addr => m = n

ParseInv ==
  dumpPhase = "parse" => LinesKept(dumpPos) /\ AddrsDistinct(dumpPos) /\ als = <<>> /\ processedFunc = {}

(* The functions of the lines up to line i.                                *)
SeenUpTo(i, func) == \E k \in 1..Len(raw) : k <= i /\ raw[k].func = func

MarkedLine(i) ==
  /\ als[i].addr = raw[i].addr /\ als[i].func = raw[i].func /\ als[i].op = raw[i].op
  /\ als[i].link = raw[i].link /\ als[i].target = raw[i].target
  /\ als[i].isEntry <=> ~ SeenUpTo(i - 1, raw[i].func)
  /\ als[i].isExit <=> (i = Len(raw) \/ ~ SeenUpTo(i, raw[i + 1].func))

(* A function that was seen has a first line.                              *)
HasFirst(i) ==
  \E j \in 1..Len(raw) : j <= i /\ raw[j].func = raw[i].func /\ ~ SeenUpTo(j - 1, raw[j].func)

MarkInv ==
  dumpPhase \in {"mark", "done"} =>
    /\ LinesKept(Len(dump) + 1) /\ AddrsDistinct(Len(dump) + 1)
    /\ dumpPos \in 1..Len(raw) + 1
    /\ Len(als) = dumpPos - 1
    /\ \A func : func \in processedFunc <=> SeenUpTo(dumpPos - 1, func)
    /\ \A i \in 1..Len(als) : MarkedLine(i) /\ HasFirst(i)
    /\ dumpPhase = "done" => dumpPos = Len(raw) + 1

DumpTypeOK ==
  /\ D!IsDump(dump)
  /\ dumpPhase \in {"parse", "mark", "done", "panic"}
  /\ dumpPos \in Nat \ {0}
  /\ dumpPhase = "parse" => dumpPos \in 1..Len(dump) + 1
  /\ raw \in Seq(D!RawLines)
  /\ \A i \in 1..Len(raw) : D!Keeps(raw[i])
  /\ als \in Seq(Lines)

DumpInv == DumpTypeOK /\ ParseInv /\ MarkInv

-----------------------------------------------------------------------------
LEMMA DumpFacts ==
  ASSUME DumpInv
  PROVE  /\ Len(dump) \in Nat /\ Len(raw) \in Nat /\ Len(als) \in Nat
         /\ \A m \in 1..Len(dump) : dump[m] \in D!RawLines /\ dump[m].addr \in Nat
         /\ \A i \in 1..Len(raw) : raw[i] \in D!RawLines
         /\ \A i \in 1..Len(als) : als[i] \in Lines /\ als[i].addr \in Nat
<1>1. dump \in Seq(D!RawLines) /\ raw \in Seq(D!RawLines) /\ als \in Seq(Lines)
  BY DEF DumpInv, DumpTypeOK, D!IsDump
<1>2. /\ \A line \in D!RawLines : line.addr \in Nat
      /\ \A line \in Lines : line.addr \in Nat
  BY DEF D!RawLines, Lines
<1> QED
  BY <1>1, <1>2

LEMMA DumpInitInv == DumpsTyped /\ D!Init => DumpInv
<1> SUFFICES ASSUME DumpsTyped, D!Init PROVE DumpInv
  OBVIOUS
<1>1. D!IsDump(dump) /\ Len(dump) \in Nat
  BY DEF DumpsTyped, D!Init, D!IsDump
<1>2. DumpTypeOK
  BY <1>1 DEF D!Init, DumpTypeOK
<1>3. ParseInv
  BY <1>1 DEF D!Init, ParseInv, LinesKept, AddrsDistinct
<1> QED
  BY <1>2, <1>3 DEF DumpInv, MarkInv, D!Init

(* Appending to a sequence leaves the elements that were there.            *)
LEMMA AppendFacts ==
  ASSUME NEW S, NEW s \in Seq(S), NEW x \in S
  PROVE  /\ Append(s, x) \in Seq(S) /\ Len(Append(s, x)) = Len(s) + 1 /\ Len(s) \in Nat
         /\ \A i \in 1..Len(s) : Append(s, x)[i] = s[i]
         /\ Append(s, x)[Len(s) + 1] = x
         /\ \A i \in 1..Len(s) + 1 : i \in 1..Len(s) \/ i = Len(s) + 1
  OBVIOUS

LEMMA ParseLineInv == DumpInv /\ D!ParseLine => DumpInv'
<1> SUFFICES ASSUME DumpInv, D!ParseLine PROVE DumpInv'
  OBVIOUS
<1> DEFINE line == dump[dumpPos]
<1>1. /\ dumpPhase = "parse" /\ dumpPos \in 1..Len(dump) /\ Len(dump) \in Nat /\ Len(raw) \in Nat
      /\ line \in D!RawLines /\ line.addr \in Nat /\ line.addr \notin processed
      /\ processed' = processed \cup {line.addr} /\ dumpPos' = dumpPos + 1
      /\ UNCHANGED <<dump, dumpPhase, processedFunc, als>>
      /\ raw \in Seq(D!RawLines) /\ LinesKept(dumpPos) /\ AddrsDistinct(dumpPos)
      /\ als = <<>> /\ processedFunc = {}
  BY DumpFacts DEF DumpInv, DumpTypeOK, D!ParseLine, ParseInv
<1>5. \A m, n \in 1..Len(dump) :
        m < dumpPos + 1 /\ n < dumpPos + 1 /\ dump[m].addr = dump[n].addr => m = n
  <2>1. \A m \in 1..Len(dump) : m < dumpPos + 1 => m < dumpPos \/ m = dumpPos
    BY <1>1
  <2>2. \A m \in 1..Len(dump) : m < dumpPos => dump[m].addr # line.addr
    BY <1>1 DEF AddrsDistinct
  <2> QED
    BY <1>1, <2>1, <2>2 DEF AddrsDistinct
<1>6. \A i, j \in 1..Len(raw) : \A m, n \in 1..Len(dump) :
        i < j /\ m < dumpPos /\ n < dumpPos /\ raw[i] = dump[m] /\ raw[j] = dump[n] => m < n
  BY <1>1 DEF LinesKept
<1>2. AddrsDistinct(dumpPos)'
  <2>1. \A m \in 1..Len(dump) : m < dumpPos + 1 => m < dumpPos \/ m = dumpPos
    BY <1>1
  <2>2. \A m \in 1..Len(dump) : m < dumpPos => dump[m].addr # line.addr
    BY <1>1 DEF AddrsDistinct
  <2> QED
    BY <1>1, <1>5, <2>1, <2>2 DEF AddrsDistinct
<1>3. CASE D!Keeps(line)
  <2>1. raw' = Append(raw, line)
    BY <1>3 DEF D!ParseLine
  <2>2. /\ raw' \in Seq(D!RawLines) /\ Len(raw') = Len(raw) + 1
        /\ \A i \in 1..Len(raw) : raw'[i] = raw[i]
        /\ raw'[Len(raw) + 1] = line
        /\ \A i \in 1..Len(raw') : i \in 1..Len(raw) \/ i = Len(raw) + 1
    BY <1>1, <2>1, AppendFacts
  <2> HIDE DEF line
  <2>3. DumpTypeOK'
    <3>1. DumpTypeOK
      BY DEF DumpInv
    <3>2. \A i \in 1..Len(raw') : D!Keeps(raw'[i])
      BY <1>3, <2>2, <3>1 DEF DumpTypeOK
    <3>3. dumpPos' \in Nat \ {0} /\ dumpPos' \in 1..Len(dump) + 1
      BY <1>1
    <3> QED
      BY <1>1, <2>2, <3>1, <3>2, <3>3 DEF DumpTypeOK
  <2>4. \A i \in 1..Len(raw') :
          \E m \in 1..Len(dump) : m < dumpPos + 1 /\ raw'[i] = dump[m] /\ D!Keeps(dump[m])
    <3> SUFFICES ASSUME NEW i \in 1..Len(raw')
                 PROVE  \E m \in 1..Len(dump) : m < dumpPos + 1 /\ raw'[i] = dump[m] /\ D!Keeps(dump[m])
      OBVIOUS
    <3>1. CASE i \in 1..Len(raw)
      <4>1. PICK m \in 1..Len(dump) : m < dumpPos /\ raw[i] = dump[m] /\ D!Keeps(dump[m])
        BY <1>1, <3>1 DEF LinesKept
      <4> QED
        BY <1>1, <2>2, <3>1, <4>1
    <3>2. CASE i = Len(raw) + 1
      <4>1. raw'[i] = dump[dumpPos] /\ D!Keeps(dump[dumpPos])
        BY <1>3, <2>2, <3>2 DEF line
      <4>2. dumpPos \in 1..Len(dump) /\ dumpPos < dumpPos + 1
        BY <1>1
      <4> QED
        BY <4>1, <4>2
    <3> QED
      BY <2>2, <3>1, <3>2
  <2>5. \A m \in 1..Len(dump) : m < dumpPos + 1 /\ D!Keeps(dump[m]) =>
          \E i \in 1..Len(raw') : raw'[i] = dump[m]
    <3> SUFFICES ASSUME NEW m \in 1..Len(dump), m < dumpPos + 1, D!Keeps(dump[m])
                 PROVE  \E i \in 1..Len(raw') : raw'[i] = dump[m]
      OBVIOUS
    <3>1. CASE m < dumpPos
      <4>1. PICK i \in 1..Len(raw) : raw[i] = dump[m]
        BY <1>1, <3>1 DEF LinesKept
      <4>2. i \in 1..Len(raw') /\ raw'[i] = dump[m]
        BY <1>1, <2>2, <4>1
      <4> QED
        BY <4>2
    <3>2. CASE m = dumpPos
      <4>1. Len(raw) + 1 \in 1..Len(raw')
        BY <1>1, <2>2
      <4> QED
        BY <2>2, <3>2, <4>1 DEF line
    <3> QED
      BY <1>1, <3>1, <3>2
  <2>6. ASSUME NEW i \in 1..Len(raw'), NEW j \in 1..Len(raw'),
               NEW m \in 1..Len(dump), NEW n \in 1..Len(dump),
               i < j, m < dumpPos + 1, n < dumpPos + 1, raw'[i] = dump[m], raw'[j] = dump[n]
        PROVE  m < n
    <3>1. i \in 1..Len(raw) /\ raw'[i] = raw[i]
      BY <1>1, <2>2, <2>6
    <3>2. PICK k \in 1..Len(dump) : k < dumpPos /\ raw[i] = dump[k]
      BY <1>1, <3>1 DEF LinesKept
    <3>3. m = k
      <4>1. dump[m] = dump[k] /\ k < dumpPos + 1
        BY <1>1, <2>6, <3>1, <3>2
      <4> QED
        BY <1>5, <2>6, <4>1
    <3>4. CASE j \in 1..Len(raw)
      <4>1. PICK l \in 1..Len(dump) : l < dumpPos /\ raw[j] = dump[l]
        BY <1>1, <3>4 DEF LinesKept
      <4>2. n = l
        <5>1. dump[n] = dump[l] /\ l < dumpPos + 1
          BY <1>1, <2>2, <2>6, <3>4, <4>1
        <5> QED
          BY <1>5, <2>6, <5>1
      <4> QED
        BY <1>6, <2>6, <3>1, <3>2, <3>3, <3>4, <4>1, <4>2
    <3>5. CASE j = Len(raw) + 1
      <4>1. n = dumpPos
        BY <1>1, <1>5, <2>2, <2>6, <3>5 DEF line
      <4> QED
        BY <1>1, <3>2, <3>3, <4>1
    <3> QED
      BY <2>2, <3>4, <3>5
  <2>7. LinesKept(dumpPos)'
    BY <1>1, <2>4, <2>5, <2>6 DEF LinesKept, D!Keeps
  <2> QED
    BY <1>1, <1>2, <2>3, <2>7 DEF DumpInv, ParseInv, MarkInv
<1>4. CASE ~ D!Keeps(line)
  <2>1. raw' = raw
    BY <1>4 DEF D!ParseLine
  <2>2. DumpTypeOK'
    BY <1>1, <2>1 DEF DumpInv, DumpTypeOK, D!Keeps
  <2>3. LinesKept(dumpPos)'
    <3>1. \A m \in 1..Len(dump) : m < dumpPos + 1 => m < dumpPos \/ m = dumpPos
      BY <1>1
    <3>2. \A m \in 1..Len(dump) : m < dumpPos => m < dumpPos + 1
      BY <1>1
    <3>3. \A i \in 1..Len(raw) :
            \E m \in 1..Len(dump) : m < dumpPos /\ raw[i] = dump[m] /\ D!Keeps(dump[m])
      BY <1>1 DEF LinesKept
    <3>4. \A i \in 1..Len(raw) : \A m \in 1..Len(dump) :
            m < dumpPos + 1 /\ raw[i] = dump[m] => m < dumpPos
      BY <1>4, <3>1, <3>3
    <3>5. \A i \in 1..Len(raw) :
            \E m \in 1..Len(dump) : m < dumpPos + 1 /\ raw[i] = dump[m] /\ D!Keeps(dump[m])
      BY <3>2, <3>3
    <3>6. \A m \in 1..Len(dump) : m < dumpPos + 1 /\ D!Keeps(dump[m]) =>
            \E i \in 1..Len(raw) : raw[i] = dump[m]
      BY <1>1, <1>4, <3>1 DEF LinesKept
    <3>7. \A i, j \in 1..Len(raw) : \A m, n \in 1..Len(dump) :
            i < j /\ m < dumpPos + 1 /\ n < dumpPos + 1 /\ raw[i] = dump[m] /\ raw[j] = dump[n] => m < n
      BY <1>6, <3>4
    <3>8. LinesKept(dumpPos)' <=> LinesKept(dumpPos + 1)
      BY <1>1, <2>1 DEF LinesKept, D!Keeps
    <3>9. LinesKept(dumpPos + 1)
      BY <3>5, <3>6, <3>7, Zenon DEF LinesKept
    <3> QED
      BY <3>8, <3>9
  <2> QED
    BY <1>1, <1>2, <2>2, <2>3 DEF DumpInv, ParseInv, MarkInv
<1> QED
  BY <1>3, <1>4

LEMMA EndParseInv == DumpInv /\ D!EndParse => DumpInv'
<1> SUFFICES ASSUME DumpInv, D!EndParse PROVE DumpInv'
  OBVIOUS
<1>1. /\ dumpPhase = "parse" /\ dumpPhase' = "mark" /\ dumpPos = Len(dump) + 1 /\ dumpPos' = 1
      /\ UNCHANGED <<dump, processed, raw, processedFunc, als>>
      /\ LinesKept(Len(dump) + 1) /\ AddrsDistinct(Len(dump) + 1)
      /\ als = <<>> /\ processedFunc = {} /\ Len(raw) \in Nat
  BY DumpFacts DEF DumpInv, DumpTypeOK, D!EndParse, ParseInv
<1>2. DumpTypeOK'
  BY <1>1 DEF DumpInv, DumpTypeOK, D!Keeps
<1>3. LinesKept(Len(dump) + 1)' /\ AddrsDistinct(Len(dump) + 1)'
  BY <1>1 DEF LinesKept, AddrsDistinct, D!Keeps, D!IgnoredOps
<1>4. MarkInv'
  BY <1>1, <1>3 DEF MarkInv, SeenUpTo
<1> QED
  BY <1>1, <1>2, <1>4 DEF DumpInv, ParseInv

LEMMA MarkLineInv == DumpInv /\ D!MarkLine => DumpInv'
<1> SUFFICES ASSUME DumpInv, D!MarkLine PROVE DumpInv'
  OBVIOUS
<1> DEFINE line == [addr    |-> raw[dumpPos].addr,
                    func    |-> raw[dumpPos].func,
                    op      |-> raw[dumpPos].op,
                    link    |-> raw[dumpPos].link,
                    target  |-> raw[dumpPos].target,
                    isEntry |-> D!IsEntry(raw[dumpPos]),
                    isExit  |-> D!IsExit(dumpPos, processedFunc')]
<1>1. /\ dumpPhase = "mark" /\ dumpPos \in 1..Len(raw) /\ Len(raw) \in Nat
      /\ Len(als) = dumpPos - 1 /\ als \in Seq(Lines) /\ raw[dumpPos] \in D!RawLines
      /\ D!Keeps(raw[dumpPos])
      /\ \A func : func \in processedFunc <=> SeenUpTo(dumpPos - 1, func)
      /\ \A i \in 1..Len(als) : MarkedLine(i) /\ HasFirst(i)
      /\ LinesKept(Len(dump) + 1) /\ AddrsDistinct(Len(dump) + 1)
      /\ processedFunc' = processedFunc \cup {raw[dumpPos].func}
      /\ als' = Append(als, line) /\ dumpPos' = dumpPos + 1
      /\ UNCHANGED <<dump, dumpPhase, processed, raw>>
  BY DumpFacts DEF DumpInv, DumpTypeOK, MarkInv, D!MarkLine
<1>2. \A func : func \in processedFunc' <=> SeenUpTo(dumpPos, func)
  <2>1. \A k \in 1..Len(raw) : k <= dumpPos <=> k <= dumpPos - 1 \/ k = dumpPos
    BY <1>1
  <2> QED
    BY <1>1, <2>1 DEF SeenUpTo
<1>3. line.isEntry <=> ~ SeenUpTo(dumpPos - 1, raw[dumpPos].func)
  BY <1>1 DEF D!IsEntry
<1>4. line.isExit <=> (dumpPos = Len(raw) \/ ~ SeenUpTo(dumpPos, raw[dumpPos + 1].func))
  <2>1. dumpPos + 1 > Len(raw) <=> dumpPos = Len(raw)
    BY <1>1
  <2> QED
    BY <1>2, <2>1 DEF D!IsExit
<1>5. line \in Lines
  <2>1. /\ raw[dumpPos].addr \in Nat /\ raw[dumpPos].func \in STRING /\ raw[dumpPos].link \in BOOLEAN
        /\ raw[dumpPos].target \in Nat /\ raw[dumpPos].op \in D!JumpOps \cup {"other"}
    BY <1>1 DEF D!RawLines, D!Keeps
  <2>2. D!IsEntry(raw[dumpPos]) \in BOOLEAN /\ D!IsExit(dumpPos, processedFunc') \in BOOLEAN
    BY DEF D!IsEntry, D!IsExit
  <2> QED
    BY <2>1, <2>2 DEF Lines, JumpOps, DirJumpOps, D!JumpOps, D!DirJumpOps
<1>6. /\ line.addr = raw[dumpPos].addr /\ line.func = raw[dumpPos].func /\ line.op = raw[dumpPos].op
      /\ line.link = raw[dumpPos].link /\ line.target = raw[dumpPos].target
  OBVIOUS
<1> HIDE DEF line
<1>7. /\ als' \in Seq(Lines) /\ Len(als') = dumpPos
      /\ \A i \in 1..dumpPos - 1 : als'[i] = als[i]
      /\ als'[dumpPos] = line
      /\ \A i \in 1..dumpPos : i \in 1..dumpPos - 1 \/ i = dumpPos
  BY <1>1, <1>5, AppendFacts
<1>8. DumpTypeOK'
  <2>1. DumpTypeOK
    BY DEF DumpInv
  <2> QED
    BY <1>1, <1>7, <2>1 DEF DumpTypeOK
<1>9. HasFirst(dumpPos)
  <2>1. CASE ~ SeenUpTo(dumpPos - 1, raw[dumpPos].func)
    BY <1>1, <2>1 DEF HasFirst
  <2>2. CASE SeenUpTo(dumpPos - 1, raw[dumpPos].func)
    <3>1. PICK k \in 1..Len(raw) : k <= dumpPos - 1 /\ raw[k].func = raw[dumpPos].func
      BY <2>2 DEF SeenUpTo
    <3>2. PICK j \in 1..Len(raw) :
            j <= k /\ raw[j].func = raw[k].func /\ ~ SeenUpTo(j - 1, raw[j].func)
      BY <1>1, <3>1 DEF HasFirst
    <3>3. j <= dumpPos
      BY <1>1, <3>1, <3>2
    <3> QED
      BY <3>1, <3>2, <3>3 DEF HasFirst
  <2> QED
    BY <2>1, <2>2
<1>10. ASSUME NEW i \in 1..Len(als') PROVE MarkedLine(i)' /\ HasFirst(i)'
  <2>1. CASE i \in 1..dumpPos - 1
    <3>1. MarkedLine(i) /\ HasFirst(i) /\ als'[i] = als[i]
      BY <1>1, <1>7, <2>1
    <3>2. MarkedLine(i)'
      BY <1>1, <3>1 DEF MarkedLine, SeenUpTo
    <3>3. HasFirst(i)'
      BY <1>1, <3>1 DEF HasFirst, SeenUpTo
    <3> QED
      BY <3>2, <3>3
  <2>2. CASE i = dumpPos
    <3>1. MarkedLine(i)'
      <4>1. als'[i] = line /\ raw' = raw
        BY <1>1, <1>7, <2>2
      <4>2. \A k, func : SeenUpTo(k, func)' <=> SeenUpTo(k, func)
        BY <4>1 DEF SeenUpTo
      <4> QED
        BY <1>3, <1>4, <1>6, <2>2, <4>1, <4>2 DEF MarkedLine
    <3>2. HasFirst(i)'
      BY <1>1, <1>9, <2>2 DEF HasFirst, SeenUpTo
    <3> QED
      BY <3>1, <3>2
  <2> QED
    BY <1>7, <2>1, <2>2
<1>11. LinesKept(Len(dump) + 1)' /\ AddrsDistinct(Len(dump) + 1)'
  BY <1>1 DEF LinesKept, AddrsDistinct, D!Keeps, D!IgnoredOps
<1>12. \A func : func \in processedFunc' <=> SeenUpTo(dumpPos - 1, func)'
  BY <1>1, <1>2 DEF SeenUpTo
<1>13. MarkInv'
  BY <1>1, <1>7, <1>10, <1>11, <1>12 DEF MarkInv
<1> QED
  BY <1>1, <1>8, <1>13 DEF DumpInv, ParseInv

(* The steps that change nothing but the phase.                            *)
LEMMA SameDumpPhase ==
  ASSUME DumpInv, UNCHANGED <<dump, dumpPos, processed, raw, processedFunc, als>>,
         \/ dumpPhase' \in {dumpPhase, "panic"}
         \/ dumpPhase = "mark" /\ dumpPhase' = "done" /\ dumpPos > Len(raw)
  PROVE  DumpInv'
<1>1. DumpTypeOK'
  BY DEF DumpInv, DumpTypeOK, D!Keeps
<1>2. ParseInv'
  <2>1. LinesKept(dumpPos)' <=> LinesKept(dumpPos)
    BY DEF LinesKept, D!Keeps, D!IgnoredOps
  <2>2. AddrsDistinct(dumpPos)' <=> AddrsDistinct(dumpPos)
    BY DEF AddrsDistinct
  <2>3. dumpPhase' = "parse" => dumpPhase = "parse"
    OBVIOUS
  <2>4. ParseInv
    BY DEF DumpInv
  <2> QED
    BY <2>1, <2>2, <2>3, <2>4 DEF ParseInv
<1>3. CASE dumpPhase' \in {"mark", "done"}
  <2>1. dumpPhase \in {"mark", "done"}
    BY <1>3
  <2>2. LinesKept(Len(dump) + 1)' /\ AddrsDistinct(Len(dump) + 1)'
    <3>1. LinesKept(Len(dump) + 1) /\ AddrsDistinct(Len(dump) + 1)
      BY <2>1 DEF DumpInv, MarkInv
    <3>2. LinesKept(Len(dump) + 1)' <=> LinesKept(Len(dump) + 1)
      BY DEF LinesKept, D!Keeps, D!IgnoredOps
    <3>3. AddrsDistinct(Len(dump) + 1)' <=> AddrsDistinct(Len(dump) + 1)
      BY DEF AddrsDistinct
    <3> QED
      BY <3>1, <3>2, <3>3
  <2>3. ASSUME NEW i \in 1..Len(als) PROVE MarkedLine(i)' /\ HasFirst(i)'
    <3>1. MarkedLine(i) /\ HasFirst(i)
      BY <2>1 DEF DumpInv, MarkInv
    <3>2. MarkedLine(i)'
      BY <3>1 DEF MarkedLine, SeenUpTo
    <3>3. HasFirst(i)'
      BY <3>1 DEF HasFirst, SeenUpTo
    <3> QED
      BY <3>2, <3>3
  <2>4. dumpPhase' = "done" => dumpPos' = Len(raw') + 1
    BY <2>1, DumpFacts DEF DumpInv, MarkInv
  <2>5. \A func : func \in processedFunc' <=> SeenUpTo(dumpPos - 1, func)'
    BY <2>1 DEF DumpInv, MarkInv, SeenUpTo
  <2> QED
    BY <1>1, <1>2, <2>1, <2>2, <2>3, <2>4, <2>5 DEF DumpInv, MarkInv
<1>4. CASE dumpPhase' \notin {"mark", "done"}
  BY <1>1, <1>2, <1>4 DEF DumpInv, MarkInv
<1> QED
  BY <1>3, <1>4

LEMMA DumpStepInv == DumpInv /\ [D!Next]_D!vars => DumpInv'
<1> SUFFICES ASSUME DumpInv, [D!Next]_D!vars PROVE DumpInv'
  OBVIOUS
<1>1. CASE D!DuplicateAddress \/ D!EndMark \/ D!Stopped \/ UNCHANGED D!vars
  BY <1>1, SameDumpPhase DEF D!DuplicateAddress, D!EndMark, D!Stopped, D!vars
<1> QED
  BY <1>1, ParseLineInv, EndParseInv, MarkLineInv DEF D!Next

-----------------------------------------------------------------------------
(* The finished listing, as a sequence, and what is known of its lines.    *)
LEMMA DoneFacts ==
  ASSUME DumpInv, dumpPhase = "done"
  PROVE  /\ als \in Seq(Lines) /\ Len(als) \in Nat /\ Len(als) = Len(raw)
         /\ DOMAIN als = 1..Len(als)
         /\ Len(dump) \in Nat /\ DOMAIN dump = 1..Len(dump)
         /\ LinesKept(Len(dump) + 1) /\ AddrsDistinct(Len(dump) + 1)
         /\ \A i \in 1..Len(als) : MarkedLine(i) /\ HasFirst(i) /\ als[i].addr \in Nat
  BY DumpFacts DEF DumpInv, MarkInv, DumpTypeOK, D!IsDump

LEMMA ListingAddresses ==
  ASSUME DumpInv, dumpPhase = "done"
  PROVE  \A i, j \in 1..Len(als) : als[i].addr = als[j].addr => i = j
<1> SUFFICES ASSUME NEW i \in 1..Len(als), NEW j \in 1..Len(als), als[i].addr = als[j].addr
             PROVE  i = j
  OBVIOUS
<1>1. raw[i].addr = raw[j].addr /\ i \in 1..Len(raw) /\ j \in 1..Len(raw)
  BY DoneFacts DEF MarkedLine
<1>2. PICK m \in 1..Len(dump) : m < Len(dump) + 1 /\ raw[i] = dump[m]
  BY <1>1, DoneFacts DEF LinesKept
<1>3. PICK n \in 1..Len(dump) : n < Len(dump) + 1 /\ raw[j] = dump[n]
  BY <1>1, DoneFacts DEF LinesKept
<1>4. m = n
  BY <1>1, <1>2, <1>3, DoneFacts DEF AddrsDistinct
<1>5. ~ (i < j) /\ ~ (j < i)
  BY <1>1, <1>2, <1>3, <1>4, DoneFacts DEF LinesKept
<1> QED
  BY <1>5, DoneFacts

LEMMA OneEntry == DumpInv => D!OneEntryPerFunction
<1> SUFFICES ASSUME DumpInv, dumpPhase = "done", NEW i \in 1..Len(als)
             PROVE  \E j \in 1..i :
                      /\ als[j].func = als[i].func /\ als[j].isEntry
                      /\ \A k \in 1..Len(als) :
                           als[k].func = als[i].func => k >= j /\ (als[k].isEntry => k = j)
  BY DoneFacts DEF D!OneEntryPerFunction
<1>1. PICK j \in 1..Len(raw) :
        j <= i /\ raw[j].func = raw[i].func /\ ~ SeenUpTo(j - 1, raw[j].func)
  BY DoneFacts DEF HasFirst
<1>2. j \in 1..i /\ j \in 1..Len(als)
  BY <1>1, DoneFacts
<1>3. \A k \in 1..Len(als) : als[k].func = raw[k].func /\ k \in 1..Len(raw)
  BY DoneFacts DEF MarkedLine
<1>4. als[j].isEntry
  BY <1>1, <1>2, DoneFacts DEF MarkedLine
<1>5. ASSUME NEW k \in 1..Len(als), als[k].func = als[i].func
      PROVE  k >= j /\ (als[k].isEntry => k = j)
  <2>1. ~ (k <= j - 1)
    BY <1>1, <1>2, <1>3, <1>5 DEF SeenUpTo
  <2>2. als[k].isEntry => ~ (j <= k - 1)
    <3>1. als[k].isEntry <=> ~ SeenUpTo(k - 1, raw[k].func)
      BY DoneFacts DEF MarkedLine
    <3>2. raw[j].func = raw[k].func
      BY <1>1, <1>3, <1>5
    <3> QED
      BY <1>1, <3>1, <3>2 DEF SeenUpTo
  <2> QED
    BY <1>2, <2>1, <2>2, DoneFacts
<1> QED
  BY <1>1, <1>2, <1>3, <1>4, <1>5

LEMMA CallsStay == DumpInv => D!CallsStayInFunction
<1> SUFFICES ASSUME DumpInv, dumpPhase = "done", D!Ascending(als),
                    NEW i \in 1..Len(als), NEW j \in 1..Len(als),
                    als[i].op = "jal", als[j].addr = D!NextAddr(als[i]), als[j].isEntry,
                    als[j].addr \in D!Successors(als[i]), als[j].addr # als[i].target
             PROVE  FALSE
  BY DoneFacts DEF D!CallsStayInFunction
<1>1. ~ als[i].isExit
  BY DEF D!Successors, D!FallsThrough, D!IsJump, D!JumpOps, D!DirJumpOps
<1>2. i < Len(raw) /\ SeenUpTo(i, raw[i + 1].func)
  <2>1. als[i].isExit <=> (i = Len(raw) \/ ~ SeenUpTo(i, raw[i + 1].func))
    BY DoneFacts DEF MarkedLine
  <2>2. Len(als) = Len(raw) /\ Len(als) \in Nat
    BY DoneFacts
  <2> QED
    BY <1>1, <2>1, <2>2
<1>3. \A k, l \in 1..Len(als) : k < l => als[k].addr < als[l].addr
  BY DoneFacts DEF D!Ascending
<1>4. als[j].addr = als[i].addr + 1 /\ i + 1 \in 1..Len(als)
  BY <1>2, DoneFacts DEF D!NextAddr
<1>5. j > i
  <2>1. ~ (j < i)
    <3> SUFFICES ASSUME j < i PROVE FALSE
      OBVIOUS
    <3>1. als[j].addr < als[i].addr
      BY <1>3
    <3> QED
      BY <1>4, <3>1, DoneFacts
  <2>2. j # i
    BY <1>4, DoneFacts
  <2> QED
    BY <2>1, <2>2, DoneFacts
<1>6. ~ (j > i + 1)
  <2> SUFFICES ASSUME j > i + 1 PROVE FALSE
    OBVIOUS
  <2>1. als[i].addr < als[i + 1].addr /\ als[i + 1].addr < als[j].addr
    BY <1>3, <1>4, DoneFacts
  <2> QED
    BY <1>4, <2>1, DoneFacts
<1>7. j = i + 1
  BY <1>5, <1>6, DoneFacts
<1>8. ~ SeenUpTo(i, raw[i + 1].func)
  <2>1. als[j].isEntry <=> ~ SeenUpTo(j - 1, raw[j].func)
    BY DoneFacts DEF MarkedLine
  <2>2. j - 1 = i
    BY <1>7, DoneFacts
  <2> QED
    BY <1>7, <2>1, <2>2
<1> QED
  BY <1>2, <1>8

LEMMA MarksDelimit == DumpInv => D!MarksDelimitFunctions
<1> SUFFICES ASSUME DumpInv, dumpPhase = "done", D!Contiguous(als), NEW i \in 1..Len(als)
             PROVE  als[i].isExit <=> (i = Len(als) \/ als[i + 1].func # als[i].func)
  BY DoneFacts DEF D!MarksDelimitFunctions
<1>1. \A k \in 1..Len(als) : als[k].func = raw[k].func /\ k \in 1..Len(raw)
  BY DoneFacts DEF MarkedLine
<1>2. als[i].isExit <=> (i = Len(als) \/ ~ SeenUpTo(i, raw[i + 1].func))
  BY DoneFacts DEF MarkedLine
<1>3. ASSUME i # Len(als)
      PROVE  SeenUpTo(i, raw[i + 1].func) <=> als[i + 1].func = als[i].func
  <2>1. i + 1 \in 1..Len(als)
    <3>1. Len(als) \in Nat
      BY DoneFacts
    <3> QED
      BY <1>3, <3>1
  <2>2. ASSUME als[i + 1].func = als[i].func PROVE SeenUpTo(i, raw[i + 1].func)
    BY <1>1, <2>1, <2>2 DEF SeenUpTo
  <2>3. ASSUME SeenUpTo(i, raw[i + 1].func) PROVE als[i + 1].func = als[i].func
    <3>1. PICK k \in 1..Len(raw) : k <= i /\ raw[k].func = raw[i + 1].func
      BY <2>3 DEF SeenUpTo
    <3>2. k \in 1..Len(als) /\ als[k].func = als[i + 1].func
      BY <1>1, <2>1, <3>1, DoneFacts
    <3>3. CASE k = i
      BY <3>2, <3>3
    <3>4. CASE k < i
      <4>1. k \in DOMAIN als /\ i \in DOMAIN als /\ i + 1 \in DOMAIN als
        BY <2>1, <3>2, DoneFacts
      <4>2. i < i + 1
        OBVIOUS
      <4> QED
        BY <3>2, <3>4, <4>1, <4>2 DEF D!Contiguous
    <3> QED
      BY <3>1, <3>2, <3>3, <3>4
  <2> QED
    BY <2>2, <2>3
<1> QED
  BY <1>2, <1>3

LEMMA Complete == DumpInv => D!ListingComplete
<1> SUFFICES ASSUME DumpInv, dumpPhase = "done" PROVE D!ListingComplete
  BY DEF D!ListingComplete
<1> DEFINE Wanted == {dump[i].addr : i \in {j \in DOMAIN dump : dump[j].op # "fence"}}
<1>1. \A k \in 1..Len(als) : als[k].addr = raw[k].addr /\ k \in 1..Len(raw)
  BY DoneFacts DEF MarkedLine
<1>2. \A k \in 1..Len(als) : \E m \in 1..Len(dump) :
         raw[k] = dump[m] /\ dump[m].op # "fence"
  BY <1>1, DoneFacts DEF LinesKept, D!Keeps, D!IgnoredOps
<1>3. ASSUME NEW a PROVE a \in D!Addresses(als) <=> a \in Wanted
  <2>1. ASSUME a \in D!Addresses(als) PROVE a \in Wanted
    <3>1. PICK k \in 1..Len(als) : a = als[k].addr
      BY <2>1, DoneFacts DEF D!Addresses
    <3>2. PICK m \in 1..Len(dump) : raw[k] = dump[m] /\ dump[m].op # "fence"
      BY <1>2
    <3> QED
      BY <1>1, <3>1, <3>2, DoneFacts
  <2>2. ASSUME a \in Wanted PROVE a \in D!Addresses(als)
    <3>1. PICK m \in 1..Len(dump) : dump[m].op # "fence" /\ a = dump[m].addr
      BY <2>2, DoneFacts
    <3>2. PICK k \in 1..Len(raw) : raw[k] = dump[m]
      <4>1. D!Keeps(dump[m]) /\ m < Len(dump) + 1
        BY <3>1, DoneFacts DEF D!Keeps, D!IgnoredOps
      <4> QED
        BY <4>1, DoneFacts DEF LinesKept
    <3>3. k \in 1..Len(als) /\ als[k].addr = a
      BY <1>1, <3>1, <3>2, DoneFacts
    <3> QED
      BY <3>3, DoneFacts DEF D!Addresses
  <2> QED
    BY <2>1, <2>2
<1>4. D!Addresses(als) = Wanted
  BY <1>3
<1>5. ASSUME NEW i \in 1..Len(als), NEW j \in 1..Len(als)
      PROVE  \E m, n \in 1..Len(dump) :
               /\ als[i].addr = dump[m].addr /\ als[j].addr = dump[n].addr
               /\ i < j => m < n
  <2>1. PICK m \in 1..Len(dump) : raw[i] = dump[m]
    BY <1>2
  <2>2. PICK n \in 1..Len(dump) : raw[j] = dump[n]
    BY <1>2
  <2>3. i < j => m < n
    BY <1>1, <2>1, <2>2, DoneFacts DEF LinesKept
  <2> QED
    BY <1>1, <2>1, <2>2, <2>3
<1> QED
  <2>1. DOMAIN als = 1..Len(als) /\ DOMAIN dump = 1..Len(dump)
    BY DoneFacts
  <2>2. \A i, j \in 1..Len(als) : als[i].addr = als[j].addr => i = j
    BY ListingAddresses
  <2> HIDE DEF Wanted
  <2>3. \A i, j \in DOMAIN als : \E m, n \in DOMAIN dump :
          /\ als[i].addr = dump[m].addr /\ als[j].addr = dump[n].addr
          /\ i < j => m < n
    <3> TAKE i, j \in DOMAIN als
    <3>1. i \in 1..Len(als) /\ j \in 1..Len(als)
      BY <2>1
    <3>2. \E m, n \in 1..Len(dump) :
            /\ als[i].addr = dump[m].addr /\ als[j].addr = dump[n].addr
            /\ i < j => m < n
      BY <1>5, <3>1
    <3> QED
      BY <2>1, <3>2
  <2> QED
    BY <1>4, <2>1, <2>2, <2>3, Zenon DEF D!ListingComplete, Wanted

-----------------------------------------------------------------------------
(* The two stages composed.                                                *)

Cutting == {"scan", "split", "done"}

WaitInv ==
  phase = "wait" =>
    /\ pos = 1 /\ prevWasJump = TRUE
    /\ entryPts = {} /\ exitPts = {} /\ currEntry = NoAddr /\ insts = <<>> /\ bbMap = <<>>

HandedOver == phase # "wait" => dumpPhase = "done" /\ lines = als /\ IsListing(lines)

(* FunctionsAreFound without the choice of the first line.                 *)
StartsFunction(i) ==
  \A k \in 1..Len(lines) : lines[k].func = lines[i].func => k >= i

FoundInv ==
  phase = "mapped" =>
    \A i \in 1..Len(lines) : StartsFunction(i) =>
      /\ lines[i].func \in DOMAIN labelToAddr <=> EntryIsReached(i) /\ BlockIsClosed(i)
      /\ lines[i].func \in DOMAIN labelToAddr => labelToAddr[lines[i].func] = lines[i].addr

FrontendInv ==
  /\ phase \in Cutting \cup {"wait", "mapped"}
  /\ DumpInv
  /\ WaitInv
  /\ HandedOver
  /\ phase \in Cutting => IInv
  /\ BlocksSound /\ BlocksDisjoint
  /\ FoundInv

-----------------------------------------------------------------------------
LEMMA FrontendInitInv == FrontendInit => FrontendInv
<1> SUFFICES ASSUME FrontendInit PROVE FrontendInv
  OBVIOUS
<1>1. DumpInv
  BY DumpsAssumption, DumpInitInv DEF FrontendInit, DumpsTyped
<1>2. phase = "wait" /\ DOMAIN bbMap = {}
  BY DEF FrontendInit
<1>3. WaitInv /\ HandedOver /\ (phase \in Cutting => IInv) /\ FoundInv
  BY <1>2 DEF FrontendInit, WaitInv, HandedOver, Cutting, FoundInv
<1>4. BlocksSound /\ BlocksDisjoint
  BY <1>2 DEF BlocksSound, BlocksDisjoint
<1> QED
  BY <1>1, <1>2, <1>3, <1>4 DEF FrontendInv

(* The blocks and the labels do not depend on the variables of the         *)
(* disassembly.                                                            *)
LEMMA SameBlocks ==
  ASSUME FrontendInv, UNCHANGED <<lines, entryPts, bbMap>>
  PROVE  BlocksSound' /\ BlocksDisjoint'
<1>1. BlocksSound' <=> BlocksSound
  BY DEF BlocksSound, SingleEntrySingleExit, IsRun
<1>2. BlocksDisjoint' <=> BlocksDisjoint
  BY DEF BlocksDisjoint
<1> QED
  BY <1>1, <1>2 DEF FrontendInv

LEMMA DisassembleInv == ASSUME FrontendInv, Disassemble PROVE FrontendInv'
<1>1. /\ phase = "wait" /\ D!Next
      /\ UNCHANGED <<lines, phase, pos, prevWasJump, entryPts, exitPts, currEntry, insts, bbMap,
                     labelToAddr>>
  BY DEF FrontendInv, Disassemble, HandedOver, splitVars, vars
<1>2. DumpInv'
  BY <1>1, DumpStepInv DEF FrontendInv
<1>3. BlocksSound' /\ BlocksDisjoint'
  BY <1>1, SameBlocks
<1> QED
  BY <1>1, <1>2, <1>3
     DEF FrontendInv, WaitInv, HandedOver, Cutting, FoundInv

LEMMA DumpSame == ASSUME DumpInv, UNCHANGED dumpVars PROVE DumpInv'
  BY DumpStepInv DEF dumpVars, D!vars

LEMMA HandOverInv == ASSUME FrontendInv, HandOver PROVE FrontendInv'
<1>1. /\ phase = "wait" /\ phase' = "scan" /\ dumpPhase = "done" /\ lines' = als
      /\ UNCHANGED <<dump, dumpPos, dumpPhase, processed, raw, processedFunc, als>>
      /\ UNCHANGED <<pos, prevWasJump, entryPts, exitPts, currEntry, insts, bbMap>>
      /\ pos = 1 /\ prevWasJump = TRUE
      /\ entryPts = {} /\ exitPts = {} /\ currEntry = NoAddr /\ insts = <<>> /\ bbMap = <<>>
  BY DEF FrontendInv, HandOver, WaitInv, dumpVars
<1>2. DumpInv /\ DumpInv'
  BY <1>1, DumpSame DEF FrontendInv, dumpVars
<1>3. IsListing(als) /\ als \in Seq(Lines)
  <2>1. als \in Seq(Lines)
    BY <1>1, <1>2, DoneFacts
  <2> QED
    BY <1>1, <1>2, <2>1, ListingAddresses DEF IsListing
<1>4. IsListing(lines)' /\ Len(lines') \in Nat
  BY <1>1, <1>3 DEF IsListing
<1>5. TypeOK'
  BY <1>1, <1>3, <1>4 DEF TypeOK, NoAddr
<1>6. ScanInv'
  BY <1>1, <1>4 DEF ScanInv, EntriesFound, TargetsFound, EntriesSeen, ExitsFound, ExitsSeen
<1>7. IInv'
  BY <1>1, <1>4, <1>5, <1>6 DEF IInv, NeverPanics, SplitInv, Sound, Disjoint
<1>8. BlocksSound' /\ BlocksDisjoint'
  BY <1>1 DEF BlocksSound, BlocksDisjoint
<1> QED
  BY <1>1, <1>2, <1>4, <1>7, <1>8
     DEF FrontendInv, WaitInv, HandedOver, Cutting, FoundInv

LEMMA SplitStep ==
  ASSUME IInv, Next
  PROVE  IInv' /\ \A e \in DOMAIN bbMap : e \in DOMAIN bbMap' /\ bbMap'[e] = bbMap[e]
<1>1. IInv'
  BY ScanLineInv, EndScanInv, SplitLineInv, EndSplitInv, UnchangedInv DEF Next, Stopped
<1> QED
  BY <1>1, SplitLineInv DEF Next, ScanLine, EndScan, EndSplit, Stopped, vars

LEMMA CutIsSound == IInv => BlocksSound /\ BlocksDisjoint
<1> SUFFICES ASSUME IInv PROVE BlocksSound /\ BlocksDisjoint
  OBVIOUS
<1>1. \A e \in DOMAIN bbMap : DOMAIN bbMap[e] = 1..Len(bbMap[e])
  BY DEF IInv, TypeOK
<1> QED
  BY <1>1 DEF IInv, Sound, Disjoint, BlocksSound, BlocksDisjoint

LEMMA SplitListingInv == ASSUME FrontendInv, SplitListing PROVE FrontendInv'
<1>1. /\ phase \in {"scan", "split"} /\ IInv /\ Next /\ UNCHANGED dumpVars
      /\ UNCHANGED <<als, dumpPhase>>
  BY DEF FrontendInv, SplitListing, Cutting, dumpVars
<1>2. IInv' /\ (BlocksSound /\ BlocksDisjoint)'
  <2>1. IInv'
    BY <1>1, SplitStep
  <2> QED
    BY <2>1, CutIsSound, PTL
<1>3. DumpInv'
  BY <1>1, DumpSame DEF FrontendInv
<1>4. phase' \in Cutting /\ lines' = lines /\ IsListing(lines)'
  <2>1. phase' # "panic" /\ lines' = lines
    BY <1>1, <1>2 
       DEF IInv, NeverPanics, Next, ScanLine, EndScan, SplitLine, EndSplit, Stopped, vars
  <2> QED
    BY <1>1, <1>2, <2>1 DEF IInv, Cutting, Next, ScanLine, EndScan, SplitLine, EndSplit, Stopped, vars
<1> QED
  BY <1>1, <1>2, <1>3, <1>4
     DEF FrontendInv, WaitInv, HandedOver, Cutting, FoundInv

-----------------------------------------------------------------------------
(* EntryIsReached and BlockIsClosed say of the listing what split keeps in *)
(* the set of entry points.                                                *)
LEMMA ReachedIsEntry ==
  ASSUME IInv, phase = "done"
  PROVE  \A i \in 1..Len(lines) : EntryIsReached(i) <=> lines[i].addr \in entryPts
<1> SUFFICES ASSUME NEW i \in 1..Len(lines)
             PROVE  EntryIsReached(i) <=> lines[i].addr \in entryPts
  OBVIOUS
<1>1. /\ PointsFound /\ Len(lines) \in Nat /\ DOMAIN lines = 1..Len(lines)
      /\ \A k, l \in 1..Len(lines) : lines[k].addr = lines[l].addr => k = l
  BY LinesFacts DEF IInv, SplitInv
<1>2. ASSUME EntryIsReached(i) PROVE lines[i].addr \in entryPts
  BY <1>1, <1>2 DEF EntryIsReached, PointsFound, EntriesFound, TargetsFound
<1>3. ASSUME lines[i].addr \in entryPts PROVE EntryIsReached(i)
  <2>1. PICK n \in 1..Len(lines) : Enters(n, lines[i].addr)
    BY <1>1, <1>3 DEF PointsFound, EntriesSeen
  <2> QED
    BY <1>1, <2>1 DEF Enters, EntryIsReached
<1> QED
  BY <1>2, <1>3

LEMMA KeyIsClosedEntry ==
  ASSUME IInv, phase = "done", NEW i \in 1..Len(lines)
  PROVE  lines[i].addr \in DOMAIN bbMap <=> EntryIsReached(i) /\ BlockIsClosed(i)
<1>1. /\ Len(lines) \in Nat /\ DOMAIN lines = 1..Len(lines)
      /\ Sound(bbMap) /\ MapType(bbMap) /\ Delimited(bbMap)
      /\ \A k, l \in 1..Len(lines) : lines[k].addr = lines[l].addr => k = l
  BY LinesFacts DEF IInv, SplitInv, TypeOK, MapType
<1>2. ASSUME lines[i].addr \in DOMAIN bbMap PROVE EntryIsReached(i) /\ BlockIsClosed(i)
  <2> DEFINE e == lines[i].addr
             block == bbMap[e]
  <2>1. /\ block \in Seq(Lines) /\ Len(block) \in Nat /\ Len(block) >= 1
        /\ block[1].addr = e /\ IsRun(block) /\ e \in entryPts
    BY <1>1, <1>2 DEF MapType, Sound, SingleEntrySingleExit, Delimited
  <2>2. PICK first \in 1..Len(lines) :
          /\ first + Len(block) <= Len(lines) + 1
          /\ \A k \in 1..Len(block) : block[k] = lines[first + k - 1]
    BY <2>1 DEF IsRun
  <2>3. first = i
    <3>1. 1 \in 1..Len(block) /\ first + 1 - 1 = first
      BY <1>1, <2>1
    <3>2. block[1] = lines[first]
      BY <2>2, <3>1
    <3> QED
      BY <1>1, <2>1, <3>2
  <2>4. PICK n \in 1..Len(lines) : block[Len(block)] = lines[n] /\ EndsAt(n)
    BY <1>1, <1>2 DEF Delimited
  <2>5. n = i + Len(block) - 1 /\ n \in i..Len(lines)
    <3>1. Len(block) \in 1..Len(block) /\ i + Len(block) - 1 \in 1..Len(lines)
      BY <1>1, <2>1, <2>2, <2>3
    <3>2. block[Len(block)] = lines[i + Len(block) - 1]
      BY <2>2, <2>3, <3>1
    <3>3. lines[n].addr = lines[i + Len(block) - 1].addr
      BY <2>4, <3>2
    <3>4. n = i + Len(block) - 1
      BY <1>1, <3>1, <3>3
    <3> QED
      BY <1>1, <2>1, <3>1, <3>4
  <2>6. EntryIsReached(i)
    BY <2>1, ReachedIsEntry
  <2>7. CASE IsJump(lines[n])
    BY <2>5, <2>6, <2>7 DEF BlockIsClosed
  <2>8. CASE n < Len(lines) /\ lines[n + 1].addr \in entryPts
    <3>1. n + 1 \in i..Len(lines) /\ n + 1 > i /\ n + 1 \in 1..Len(lines)
      BY <1>1, <2>5, <2>8
    <3>2. EntryIsReached(n + 1)
      BY <2>8, <3>1, ReachedIsEntry
    <3> QED
      BY <2>6, <3>1, <3>2 DEF BlockIsClosed
  <2> QED
    BY <2>4, <2>7, <2>8 DEF EndsAt
<1>3. ASSUME EntryIsReached(i), BlockIsClosed(i) PROVE lines[i].addr \in DOMAIN bbMap
  <2>1. lines[i].addr \in entryPts
    BY <1>3, ReachedIsEntry
  <2>2. PICK j \in i..Len(lines) : IsJump(lines[j]) \/ (j > i /\ EntryIsReached(j))
    BY <1>3 DEF BlockIsClosed
  <2>3. j \in 1..Len(lines)
    BY <1>1
  <2>4. IsJump(lines[j]) \/ (j > i /\ lines[j].addr \in entryPts)
    BY <2>2, <2>3, ReachedIsEntry
  <2>5. Covered(i)
    BY <2>4, OpenTail DEF OnlyOpenTailLost
  <2> QED
    BY <1>1, <2>1, <2>5, StoredEntryIsKey
<1> QED
  BY <1>2, <1>3

(* In the finished listing the first line of a function is its only entry. *)
LEMMA FirstLineFacts ==
  ASSUME IsListing(lines), D!OneEntryPerFunction, dumpPhase = "done", lines = als,
         NEW n \in 1..Len(lines), NEW f, f = lines[n].func
  PROVE  /\ FirstLine(f) \in 1..Len(lines) /\ lines[FirstLine(f)].func = f
         /\ StartsFunction(FirstLine(f))
<1> DEFINE IsFirst(i) == /\ lines[i].func = f
                         /\ \A k \in DOMAIN lines : lines[k].func = f => k >= i
<1>1. Len(lines) \in Nat /\ DOMAIN lines = 1..Len(lines)
  BY LinesFacts
<1>2. PICK j \in 1..n :
        /\ lines[j].func = f /\ lines[j].isEntry
        /\ \A k \in DOMAIN lines : lines[k].func = f => k >= j /\ (lines[k].isEntry => k = j)
  BY <1>1 DEF D!OneEntryPerFunction
<1>3. j \in DOMAIN lines /\ IsFirst(j)
  BY <1>1, <1>2
<1>4. FirstLine(f) = CHOOSE i \in DOMAIN lines : IsFirst(i)
  BY DEF FirstLine
<1>5. FirstLine(f) \in DOMAIN lines /\ IsFirst(FirstLine(f))
  BY <1>3, <1>4
<1> QED
  BY <1>1, <1>5 DEF StartsFunction

LEMMA OnlyEntryStarts ==
  ASSUME IsListing(lines), D!OneEntryPerFunction, dumpPhase = "done", lines = als,
         NEW i \in 1..Len(lines), StartsFunction(i)
  PROVE  \A k \in 1..Len(lines) : lines[k].func = lines[i].func => (lines[k].isEntry <=> k = i)
<1>1. Len(lines) \in Nat /\ DOMAIN lines = 1..Len(lines)
  BY LinesFacts
<1>2. PICK j \in 1..i :
        /\ lines[j].func = lines[i].func /\ lines[j].isEntry
        /\ \A k \in DOMAIN lines :
             lines[k].func = lines[i].func => k >= j /\ (lines[k].isEntry => k = j)
  BY <1>1 DEF D!OneEntryPerFunction
<1>3. j = i
  BY <1>1, <1>2 DEF StartsFunction
<1> QED
  BY <1>1, <1>2, <1>3

LEMMA MapLabelsInv == ASSUME FrontendInv, MapLabels PROVE FrontendInv'
<1>1. /\ phase = "done" /\ phase' = "mapped" /\ IInv /\ DumpInv
      /\ dumpPhase = "done" /\ lines = als
      /\ UNCHANGED dumpVars /\ UNCHANGED <<dumpPhase, als>>
      /\ UNCHANGED <<lines, pos, prevWasJump, entryPts, exitPts, currEntry, insts, bbMap>>
  BY DEF FrontendInv, MapLabels, Cutting, HandedOver, dumpVars
<1>2. DumpInv' /\ BlocksSound' /\ BlocksDisjoint'
  BY <1>1, DumpSame, SameBlocks
<1>3. D!OneEntryPerFunction
  BY <1>1, OneEntry
<1>4. PICK map \in [{bbMap[e][1].func : e \in EntryBlocks} -> EntryBlocks] :
        /\ \A f \in DOMAIN map : bbMap[map[f]][1].func = f
        /\ labelToAddr' = map
  BY DEF MapLabels
<1>5. Len(lines) \in Nat /\ DOMAIN lines = 1..Len(lines)
  BY <1>1, LinesFacts DEF IInv
<1>6. \A e \in DOMAIN bbMap : \E k \in 1..Len(lines) :
        bbMap[e][1] = lines[k] /\ lines[k].addr = e
  <2> TAKE e \in DOMAIN bbMap
  <2>1. /\ bbMap[e] \in Seq(Lines) /\ bbMap[e] # <<>> /\ bbMap[e][1].addr = e /\ IsRun(bbMap[e])
    BY <1>1 DEF IInv, TypeOK, Sound, SingleEntrySingleExit
  <2>2. 1 \in 1..Len(bbMap[e])
    BY <2>1
  <2>3. PICK first \in 1..Len(lines) :
          \A k \in 1..Len(bbMap[e]) : bbMap[e][k] = lines[first + k - 1]
    BY <2>1 DEF IsRun
  <2>4. bbMap[e][1] = lines[first]
    BY <1>5, <2>2, <2>3
  <2> QED
    BY <2>1, <2>4
<1>7. ASSUME NEW i \in 1..Len(lines), StartsFunction(i)
      PROVE  /\ lines[i].func \in DOMAIN map <=> EntryIsReached(i) /\ BlockIsClosed(i)
             /\ lines[i].func \in DOMAIN map => map[lines[i].func] = lines[i].addr
  <2> DEFINE f == lines[i].func
  <2>1. \A k \in 1..Len(lines) : lines[k].func = f => (lines[k].isEntry <=> k = i)
    BY <1>1, <1>3, <1>7, OnlyEntryStarts DEF IInv
  <2>2. lines[i].addr \in DOMAIN bbMap <=> EntryIsReached(i) /\ BlockIsClosed(i)
    BY <1>1, KeyIsClosedEntry
  <2>3. \A e \in EntryBlocks : bbMap[e][1].func = f => e = lines[i].addr
    <3> SUFFICES ASSUME NEW e \in DOMAIN bbMap, bbMap[e][1].isEntry, bbMap[e][1].func = f
                 PROVE  e = lines[i].addr
      BY DEF EntryBlocks
    <3>1. PICK k \in 1..Len(lines) : bbMap[e][1] = lines[k] /\ lines[k].addr = e
      BY <1>6
    <3> QED
      BY <2>1, <3>1
  <2>4. f \in DOMAIN map => map[f] = lines[i].addr /\ map[f] \in DOMAIN bbMap
    BY <1>4, <2>3 DEF EntryBlocks
  <2>5. ASSUME lines[i].addr \in DOMAIN bbMap PROVE f \in DOMAIN map
    <3>1. PICK k \in 1..Len(lines) :
            bbMap[lines[i].addr][1] = lines[k] /\ lines[k].addr = lines[i].addr
      BY <1>6, <2>5
    <3>2. k = i
      BY <1>1, <3>1, LinesFacts DEF IInv
    <3>3. lines[i].addr \in EntryBlocks /\ bbMap[lines[i].addr][1].func = f
      BY <2>1, <2>5, <3>1, <3>2 DEF EntryBlocks
    <3> QED
      BY <1>4, <3>3
  <2> QED
    BY <2>2, <2>4, <2>5
<1>8. FoundInv'
  <2> SUFFICES ASSUME NEW i \in 1..Len(lines), StartsFunction(i)
               PROVE  /\ lines[i].func \in DOMAIN map <=> EntryIsReached(i) /\ BlockIsClosed(i)
                      /\ lines[i].func \in DOMAIN map => map[lines[i].func] = lines[i].addr
    <3>1. \A j : /\ StartsFunction(j)' <=> StartsFunction(j)
                 /\ EntryIsReached(j)' <=> EntryIsReached(j)
      BY <1>1 DEF StartsFunction, EntryIsReached
    <3>2. \A j : BlockIsClosed(j)' <=> BlockIsClosed(j)
      BY <1>1, <3>1 DEF BlockIsClosed
    <3> QED
      BY <1>1, <1>4, <3>1, <3>2 DEF FoundInv
  <2> QED
    BY <1>7
<1>9. IsListing(lines)'
  BY <1>1 DEF IInv, IsListing
<1> QED
  BY <1>1, <1>2, <1>8, <1>9 DEF FrontendInv, WaitInv, HandedOver, Cutting

LEMMA FrontendStutter == ASSUME FrontendInv, UNCHANGED allVars PROVE FrontendInv'
<1>1. UNCHANGED dumpVars /\ UNCHANGED vars /\ UNCHANGED labelToAddr
  BY DEF allVars, splitVars
<1>2. DumpInv' /\ BlocksSound' /\ BlocksDisjoint'
  BY <1>1, DumpSame, SameBlocks DEF FrontendInv, vars
<1>3. phase' \in Cutting => IInv'
  BY <1>1, UnchangedInv DEF FrontendInv, vars
<1>4. FoundInv'
  BY <1>1 DEF FrontendInv, FoundInv, StartsFunction, EntryIsReached, BlockIsClosed, vars
<1> QED
  BY <1>1, <1>2, <1>3, <1>4 DEF FrontendInv, WaitInv, HandedOver, vars, dumpVars

LEMMA FrontendStep == FrontendInv /\ [FrontendNext]_allVars => FrontendInv'
<1> SUFFICES ASSUME FrontendInv, [FrontendNext]_allVars PROVE FrontendInv'
  OBVIOUS
<1>1. CASE Disassemble
  BY <1>1, DisassembleInv
<1>2. CASE HandOver
  BY <1>2, HandOverInv
<1>3. CASE SplitListing
  BY <1>3, SplitListingInv
<1>4. CASE MapLabels
  BY <1>4, MapLabelsInv
<1>5. CASE FrontendStopped \/ UNCHANGED allVars
  BY <1>5, FrontendStutter DEF FrontendStopped
<1> QED
  BY <1>1, <1>2, <1>3, <1>4, <1>5 DEF FrontendNext

(* The invariant holds in every state, for every dump.                     *)
THEOREM FrontendInvariance == FrontendSpec => []FrontendInv
  BY FrontendInitInv, FrontendStep, PTL DEF FrontendSpec

(***************************************************************************)
(* For every dump: in the finished listing a function name has one entry,  *)
(* the first of its lines, so that create_label_to_addr_map                *)
(* (translator.rs) may key the entries by name.                            *)
(***************************************************************************)
THEOREM EntriesAreUnique == FrontendSpec => []OneEntryPerFunction
<1>1. FrontendInv => OneEntryPerFunction
  BY OneEntry DEF FrontendInv, OneEntryPerFunction
<1> QED
  BY FrontendInvariance, <1>1, PTL

(***************************************************************************)
(* For every dump in address order: a jal that is followed by a line       *)
(* marked as the entry of a function has that line as a successor only if  *)
(* it jumps there.                                                         *)
(***************************************************************************)
THEOREM NoFallThroughIntoFunction == FrontendSpec => []CallsStayInFunction
<1>1. FrontendInv => CallsStayInFunction
  BY CallsStay DEF FrontendInv, CallsStayInFunction
<1> QED
  BY FrontendInvariance, <1>1, PTL

(***************************************************************************)
(* For every dump whose functions are contiguous, the entry and exit marks *)
(* delimit the functions.                                                  *)
(***************************************************************************)
THEOREM MarksAreBoundaries == FrontendSpec => []MarksDelimitFunctions
<1>1. FrontendInv => MarksDelimitFunctions
  BY MarksDelimit DEF FrontendInv, MarksDelimitFunctions
<1> QED
  BY FrontendInvariance, <1>1, PTL

(***************************************************************************)
(* For every dump, the finished listing is the dump without the fences: no *)
(* line is lost, repeated or moved.                                        *)
(***************************************************************************)
THEOREM NothingButFencesLost == FrontendSpec => []ListingComplete
<1>1. FrontendInv => ListingComplete
  BY Complete DEF FrontendInv, ListingComplete
<1> QED
  BY FrontendInvariance, <1>1, PTL

(***************************************************************************)
(* What split promises of a listing holds of the blocks of every dump:     *)
(* nothing needs to be assumed of the listing.                             *)
(***************************************************************************)
THEOREM BlocksOfEveryDump ==
  FrontendSpec =>
    [](NeverPanics /\ BlocksSound /\ BlocksDisjoint /\ OnlyOpenTailLost /\ SuccessorsAreEntries)
<1>1. FrontendInv => NeverPanics /\ BlocksSound /\ BlocksDisjoint
  BY DEF FrontendInv, NeverPanics, Cutting
<1>2. FrontendInv => OnlyOpenTailLost /\ SuccessorsAreEntries
  <2>1. IInv => OnlyOpenTailLost /\ SuccessorsAreEntries
    BY OpenTail, SuccessorsStart
  <2>2. phase # "done" => OnlyOpenTailLost /\ SuccessorsAreEntries
    BY DEF OnlyOpenTailLost, SuccessorsAreEntries
  <2> QED
    BY <2>1, <2>2 DEF FrontendInv, Cutting
<1> QED
  BY FrontendInvariance, <1>1, <1>2, PTL

(* For every dump, a stored block is never overwritten.                    *)
THEOREM BlocksOfEveryDumpAreFinal == FrontendSpec => BlocksAreFinal
<1> DEFINE Kept == \A e \in DOMAIN bbMap : e \in DOMAIN bbMap' /\ bbMap'[e] = bbMap[e]
<1>1. FrontendInv /\ [FrontendNext]_allVars => [Kept]_vars
  <2> SUFFICES ASSUME FrontendInv, [FrontendNext]_allVars, bbMap' # bbMap PROVE Kept
    BY DEF vars
  <2>1. IInv /\ Next
    BY DEF FrontendNext, Disassemble, HandOver, SplitListing, MapLabels, FrontendStopped,
           allVars, splitVars, vars, FrontendInv, Cutting
  <2> QED
    BY <2>1, SplitStep
<1> QED
  BY FrontendInvariance, <1>1, PTL DEF BlocksAreFinal, FrontendSpec

(***************************************************************************)
(* For every dump, whatever order the hash maps are read in, a label is    *)
(* mapped to the address of the first line of its function, exactly if a   *)
(* jump or the start of the listing makes that line an entry point and its *)
(* block is closed.                                                        *)
(***************************************************************************)
LEMMA LabelsFound == FrontendInv => FunctionsAreFound
<1> SUFFICES ASSUME FrontendInv, phase = "mapped",
                    NEW n \in DOMAIN lines, NEW f, f = lines[n].func, NEW i, i = FirstLine(f)
             PROVE  /\ f \in DOMAIN labelToAddr <=> EntryIsReached(i) /\ BlockIsClosed(i)
                    /\ f \in DOMAIN labelToAddr => labelToAddr[f] = lines[i].addr
  BY DEF FunctionsAreFound
<1>1. IsListing(lines) /\ dumpPhase = "done" /\ lines = als /\ D!OneEntryPerFunction
  BY OneEntry DEF FrontendInv, HandedOver
<1>2. n \in 1..Len(lines)
  BY <1>1, LinesFacts
<1>3. i \in 1..Len(lines) /\ lines[i].func = f /\ StartsFunction(i)
  BY <1>1, <1>2, FirstLineFacts
<1> QED
  BY <1>3 DEF FrontendInv, FoundInv

(* For every dump: a function is found, at its entry, exactly if its first *)
(* line is a successor of a jump or follows one, and its block is closed.  *)
THEOREM FunctionsFound == FrontendSpec => []FunctionsAreFound
  BY FrontendInvariance, LabelsFound, PTL
=============================================================================
