----------------------------- MODULE MCFrontend -----------------------------
(* Small dumps.  Interleaved: every sequence of three lines over two       *)
(* functions and four addresses, so that functions interleave, addresses   *)
(* clash, descend or leave holes, and calls, tail jumps and fences end a   *)
(* function or not.  Straight: four lines of every kind with every target  *)
(* in and just past the listing, in two functions; with fewer targets also *)
(* around a fence, and from two binaries in descending order.              *)
EXTENDS Frontend

RawLine(place, func, kind) ==
  [addr |-> place, func |-> func, op |-> kind[1], link |-> kind[2], target |-> kind[3]]

Interleaved ==
  [1..3 -> {RawLine(a, f, k) :
              a \in 1..4, f \in {"f", "g"},
              k \in {<<"other", FALSE, 1>>, <<"fence", FALSE, 1>>, <<"jal", TRUE, 1>>,
                     <<"jal", FALSE, 1>>}}]

Kinds(targets) ==
  {<<"other", FALSE, 1>>, <<"jalr", FALSE, 1>>}
    \cup {<<op, FALSE, t>> : op \in {"branch", "jal"}, t \in targets}
    \cup {<<"jal", TRUE, t>> : t \in targets}

Straight(places, funcs, targets) ==
  {[i \in 1..4 |-> RawLine(places[i], funcs[i], kind[i])] :
     kind \in [1..4 -> Kinds(targets)]}

TwoFunctions == Straight(<<1, 2, 3, 4>>, <<"f", "f", "g", "g">>, 1..5)
TwoBinaries  == Straight(<<3, 4, 1, 2>>, <<"f", "f", "g", "g">>, 1..4)
AroundFence  ==
  {SubSeq(d, 1, 2) \o <<RawLine(3, "f", <<"fence", FALSE, 1>>)>> \o SubSeq(d, 3, 4) :
     d \in Straight(<<1, 2, 4, 5>>, <<"f", "f", "f", "f">>, {1, 3, 4, 5})}

SmallDumps == Interleaved \cup TwoFunctions \cup TwoBinaries \cup AroundFence

(* What split is assumed to be given: the finished listings of these dumps *)
(* have distinct addresses.                                                *)
SmallListings ==
  {[i \in 1..4 |-> [addr |-> d[i].addr, func |-> d[i].func, op |-> d[i].op, link |-> d[i].link,
                    target |-> d[i].target, isEntry |-> i \in {1, 3}, isExit |-> i \in {2, 4}]] :
     d \in TwoBinaries}
=============================================================================
