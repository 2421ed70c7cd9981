------------------------------ MODULE Frontend ------------------------------
(***************************************************************************)
(* The first two stages of the driver composed: the listing that           *)
(* read_binaries returns for a dump is the one that BasicBlock::split cuts *)
(* into blocks, and the translator finds a function by a block that starts *)
(* with the entry line of its label.                                       *)
(***************************************************************************)
EXTENDS BasicBlocks

CONSTANT Dumps

VARIABLES
  dump, dumpPos, dumpPhase, processed, raw, processedFunc, als,   \* of Disassembly
  labelToAddr                                                     \* labels_to_addr

D == INSTANCE Disassembly WITH pos <- dumpPos, phase <- dumpPhase

ASSUME DumpsAssumption == \A raws \in Dumps : D!IsDump(raws)

dumpVars  == <<dump, dumpPos, dumpPhase, processed, raw, processedFunc, als>>
splitVars == vars
allVars   == <<dumpVars, splitVars, labelToAddr>>

-----------------------------------------------------------------------------
(* split waits for the listing.                                            *)
FrontendInit ==
  /\ D!Init
  /\ lines = <<>>
  /\ phase = "wait"
  /\ pos = 1
  /\ prevWasJump = TRUE
  /\ entryPts = {}
  /\ exitPts = {}
  /\ currEntry = NoAddr
  /\ insts = <<>>
  /\ bbMap = <<>>
  /\ labelToAddr = <<>>

Disassemble ==
  /\ dumpPhase \in {"parse", "mark"}
  /\ D!Next
  /\ UNCHANGED <<splitVars, labelToAddr>>

HandOver ==
  /\ dumpPhase = "done"
  /\ phase = "wait"
  /\ lines' = als
  /\ phase' = "scan"
  /\ UNCHANGED <<dumpVars, pos, prevWasJump, entryPts, exitPts, currEntry, insts, bbMap, labelToAddr>>

SplitListing ==
  /\ phase \in {"scan", "split"}
  /\ Next
  /\ UNCHANGED <<dumpVars, labelToAddr>>

(* A definition that repeats the name of the next one with a suffix is a   *)
(* mutated form of it; no action uses it.                                  *)
EntryBlocksAll == DOMAIN bbMap
EntryBlocks == {e \in DOMAIN bbMap : bbMap[e][1].isEntry}

(* create_label_to_addr_map: a label has the address of the block whose    *)
(* first line is marked as its entry; the last one found stays.            *)
MapLabels ==
  /\ phase = "done"
  /\ phase' = "mapped"
  /\ \E map \in [{bbMap[e][1].func : e \in EntryBlocks} -> EntryBlocks] :
       /\ \A f \in DOMAIN map : bbMap[map[f]][1].func = f
       /\ labelToAddr' = map
  /\ UNCHANGED <<dumpVars, lines, pos, prevWasJump, entryPts, exitPts, currEntry, insts, bbMap>>

FrontendStopped ==
  /\ dumpPhase = "panic" \/ phase \in {"mapped", "panic"}
  /\ UNCHANGED allVars

FrontendNext == Disassemble \/ HandOver \/ SplitListing \/ MapLabels \/ FrontendStopped

FrontendSpec == FrontendInit /\ [][FrontendNext]_allVars

-----------------------------------------------------------------------------
(* The first four are the properties of Disassembly; they are looked at    *)
(* before the listing is handed over, after which it does not change.      *)

(***************************************************************************)
(* A function name has one entry in the finished listing, and it is the    *)
(* first of its lines (D!OneEntryPerFunction): create_label_to_addr_map    *)
(* may key the entries by name, and the order of the hash map that it      *)
(* reads does not matter.                                                  *)
(***************************************************************************)
OneEntryPerFunction == phase = "wait" => D!OneEntryPerFunction

(***************************************************************************)
(* A linking jal before the entry mark of a function is taken not to       *)
(* return: it does not fall through into that function.  Branches and      *)
(* other lines may, and so may a call before lines of a function seen      *)
(* earlier, which have no mark.                                            *)
(***************************************************************************)
CallsStayInFunction == phase = "wait" => D!CallsStayInFunction

(***************************************************************************)
(* When the lines of each function are contiguous, the two marks delimit   *)
(* the functions.                                                          *)
(***************************************************************************)
MarksDelimitFunctions == phase = "wait" => D!MarksDelimitFunctions

(***************************************************************************)
(* The listing loses the fences and nothing else.                          *)
(***************************************************************************)
ListingComplete == phase = "wait" => D!ListingComplete

(* The first line of a function in the listing, and what split needs to    *)
(* make a block of it.                                                     *)
FirstLine(f) == CHOOSE i \in DOMAIN lines :
                  /\ lines[i].func = f
                  /\ \A k \in DOMAIN lines : lines[k].func = f => k >= i

EntryIsReached(i) ==
  \/ i = 1
  \/ IsJump(lines[i - 1])
  \/ \E j \in DOMAIN lines : IsJump(lines[j]) /\ lines[i].addr \in Successors(lines[j])

BlockIsClosed(i) ==
  \E j \in i..Len(lines) : IsJump(lines[j]) \/ (j > i /\ EntryIsReached(j))

(***************************************************************************)
(* A function is found, at the address of its first line in the dump that  *)
(* is not a fence, exactly if that line opens a block that is closed: the  *)
(* line before it jumps (or there is none) or a jump targets it, and it is *)
(* not in the open tail.  The translator panics on any other function it   *)
(* is asked for, such as one behind padding that is called indirectly.     *)
(***************************************************************************)
FunctionsAreFound ==
  phase = "mapped" =>
    \A f \in {lines[i].func : i \in DOMAIN lines} :
      LET i == FirstLine(f) IN
        /\ f \in DOMAIN labelToAddr <=> EntryIsReached(i) /\ BlockIsClosed(i)
        /\ f \in DOMAIN labelToAddr => labelToAddr[f] = lines[i].addr
=============================================================================
