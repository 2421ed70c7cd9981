---------------------------- MODULE MCFuncModels ----------------------------
(* Programs of four blocks and three functions: blocks 1 and 2 are of the  *)
(* requested function, blocks 3 and 4 are functions of one block.  A block *)
(* returns, falls through, branches, calls or jumps, loops included.       *)
(* Function 3 is ignored or not, and may be requested before its caller.   *)
(* The modifies specification of a function names a variable of its own.   *)
EXTENDS FuncModels

Labels == {1, 3, 4}
Last   == 4

(* A block ends with its successors and the target of a jal.               *)
Ends(b) ==
  {[succ |-> {}, target |-> NoTarget]}
    \cup {[succ |-> {t}, target |-> t] : t \in 1..Last}
    \cup (IF b = Last THEN {} ELSE
            {[succ |-> {b + 1}, target |-> NoTarget]}
              \cup {[succ |-> {t, b + 1}, target |-> NoTarget] : t \in 2..Last}
              \cup {[succ |-> {t, b + 1}, target |-> t] : t \in Labels})

AllEnds == {e \in [1..Last -> UNION {Ends(b) : b \in 1..Last}] :
              \A b \in 1..Last : e[b] \in Ends(b)}

Registers == <<"a0", "a1", "a2", "a3">>
Ghosts    == <<"g1", "g2", "g3", "g4">>

ProgramOf(ends, ignored) ==
  [succ     |-> [b \in 1..Last |-> ends[b].succ],
   target   |-> [b \in 1..Last |-> ends[b].target],
   labels   |-> Labels,
   owner    |-> <<1, 1, 3, 4>>,
   writes   |-> [b \in 1..Last |-> {Registers[b]}],
   ignored  |-> ignored,
   modifies |-> [f \in Labels |-> {Ghosts[f]}]]

SmallPrograms ==
  {ProgramOf(e, i) : e \in AllEnds, i \in {{}, {3}}}

SmallRequests == {<<1>>, <<3, 1>>}
=============================================================================
