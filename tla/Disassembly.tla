---------------------------- MODULE Disassembly ----------------------------
(***************************************************************************)
(* Disassembler::read_binaries: the lines objdump prints for the binaries, *)
(* one after the other, become the listing of AssemblyLines.               *)
(*                                                                         *)
(* The first pass parses a line, asserts that its address is new and drops *)
(* the fences.  The second pass marks the first line of each function name *)
(* as its entry and the last line before a function not seen so far as an  *)
(* exit.  Headings that do not parse leave no trace in the listing and are *)
(* left out of a dump.                                                     *)
(***************************************************************************)
EXTENDS Assembly, FiniteSets

CONSTANT Dumps    \* the sequences of raw lines objdump may print

RawLines == [addr : Nat, func : STRING, op : JumpOps \cup IgnoredOps \cup {"other"},
             link : BOOLEAN, target : Nat]

IsDump(lines) == lines \in Seq(RawLines)

VARIABLES
  dump,           \* the lines of all the binaries
  pos,            \* the line the current pass looks at
  phase,          \* "parse", "mark", "done", or "panic" after a failed assert
  processed,      \* addresses parsed so far
  raw,            \* raw_als_data
  processedFunc,  \* functions marked so far
  als             \* the listing

vars == <<dump, pos, phase, processed, raw, processedFunc, als>>

Init ==
  /\ dump \in Dumps
  /\ pos = 1
  /\ phase = "parse"
  /\ processed = {}
  /\ raw = <<>>
  /\ processedFunc = {}
  /\ als = <<>>

(* A definition that repeats the name of the next one with a suffix is a   *)
(* mutated form of it; no action uses it.                                  *)
KeepsAll(line) == TRUE
Keeps(line) == line.op \notin IgnoredOps

(* The assert on a second instruction at one address stops the program.    *)
DuplicateAddress ==
  /\ phase = "parse"
  /\ pos <= Len(dump)
  /\ dump[pos].addr \in processed
  /\ phase' = "panic"
  /\ UNCHANGED <<dump, pos, processed, raw, processedFunc, als>>

ParseLine ==
  /\ phase = "parse"
  /\ pos <= Len(dump)
  /\ dump[pos].addr \notin processed
  /\ processed' = processed \cup {dump[pos].addr}
  /\ raw' = IF Keeps(dump[pos]) THEN Append(raw, dump[pos]) ELSE raw
  /\ pos' = pos + 1
  /\ UNCHANGED <<dump, phase, processedFunc, als>>

EndParse ==
  /\ phase = "parse"
  /\ pos > Len(dump)
  /\ phase' = "mark"
  /\ pos' = 1
  /\ UNCHANGED <<dump, processed, raw, processedFunc, als>>

IsEntryOnChange(line) == pos = 1 \/ raw[pos - 1].func # line.func
IsEntry(line) == line.func \notin processedFunc

IsExitEarly(i, seen) == i + 1 >= Len(raw) \/ raw[i + 1].func \notin seen
IsExit(i, seen) == i + 1 > Len(raw) \/ raw[i + 1].func \notin seen

MarkLine ==
  /\ phase = "mark"
  /\ pos <= Len(raw)
  /\ processedFunc' = processedFunc \cup {raw[pos].func}
  /\ als' = Append(als, [addr    |-> raw[pos].addr,
                         func    |-> raw[pos].func,
                         op      |-> raw[pos].op,
                         link    |-> raw[pos].link,
                         target  |-> raw[pos].target,
                         isEntry |-> IsEntry(raw[pos]),
                         isExit  |-> IsExit(pos, processedFunc')])
  /\ pos' = pos + 1
  /\ UNCHANGED <<dump, phase, processed, raw>>

EndMark ==
  /\ phase = "mark"
  /\ pos > Len(raw)
  /\ phase' = "done"
  /\ UNCHANGED <<dump, pos, processed, raw, processedFunc, als>>

Stopped ==
  /\ phase \in {"done", "panic"}
  /\ UNCHANGED vars

Next ==
  \/ DuplicateAddress
  \/ ParseLine
  \/ EndParse
  \/ MarkLine
  \/ EndMark
  \/ Stopped

Spec == Init /\ [][Next]_vars

-----------------------------------------------------------------------------
(***************************************************************************)
(* A function name has one entry in the finished listing, and it is the    *)
(* first of its lines: create_label_to_addr_map may key the entries by     *)
(* name.  Every name that occurs has one.                                  *)
(***************************************************************************)
OneEntryPerFunction ==
  phase = "done" =>
    \A i \in DOMAIN als :
      \E j \in 1..i :
        /\ als[j].func = als[i].func /\ als[j].isEntry
        /\ \A k \in DOMAIN als :
             als[k].func = als[i].func => k >= j /\ (als[k].isEntry => k = j)

(***************************************************************************)
(* A linking jal before the entry mark of a function is taken not to       *)
(* return: it does not fall through into that function.  Branches and      *)
(* other lines may, and so may a call before lines of a function seen      *)
(* earlier, which have no mark.  It rests on the exit heuristic and on the *)
(* listing being in address order.                                         *)
(***************************************************************************)
CallsStayInFunction ==
  phase = "done" /\ Ascending(als) =>
    \A i, j \in DOMAIN als :
      als[i].op = "jal" /\ als[j].addr = NextAddr(als[i]) /\ als[j].isEntry
        /\ als[j].addr \in Successors(als[i]) => als[j].addr = als[i].target

(***************************************************************************)
(* When the lines of each function are contiguous, the two marks delimit   *)
(* the functions: a line is an exit exactly when the next one is an entry  *)
(* or there is none.                                                       *)
(***************************************************************************)
MarksDelimitFunctions ==
  phase = "done" /\ Contiguous(als) =>
    \A i \in DOMAIN als :
      als[i].isExit <=> (i = Len(als) \/ als[i + 1].func # als[i].func)

(***************************************************************************)
(* The listing loses the fences and nothing else: every other line of the  *)
(* dump is in it, at its address, once, in the order of the dump.          *)
(***************************************************************************)
ListingComplete ==
  phase = "done" =>
    /\ Addresses(als) = {dump[i].addr : i \in {j \in DOMAIN dump : dump[j].op # "fence"}}
    /\ \A i, j \in DOMAIN als : als[i].addr = als[j].addr => i = j
    /\ \A i, j \in DOMAIN als : \E m, n \in DOMAIN dump :
         /\ als[i].addr = dump[m].addr /\ als[j].addr = dump[n].addr
         /\ i < j => m < n

=============================================================================
