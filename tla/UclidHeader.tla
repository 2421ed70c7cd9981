---------------------------- MODULE UclidHeader ----------------------------
(***************************************************************************)
(* What Uclid5Interface prints from the debugging information: the types   *)
(* that have macros, the global variables, the constraints of the          *)
(* arguments of a procedure and the control block that verifies the        *)
(* functions.                                                              *)
(***************************************************************************)
EXTENDS DwarfTypes

(* What the command line asks for.  "models" names the functions that the  *)
(* translator made a model of: those given with -f and, in turn, those     *)
(* they call; the debugging information may not describe them.  "verify"   *)
(* and "ignored" name the functions to verify and to leave alone.          *)
CONSTANT Requests

ASSUME RequestsAssumption == \A request \in Requests : NoName \notin request.models

VARIABLE header        \* what has been printed

headerVars == <<vars, header>>

NotPrinted == [printed |-> FALSE]

-----------------------------------------------------------------------------
(* A definition that repeats the name of the next one with a suffix is a   *)
(* mutated form of it; no action uses it.                                  *)

(* All the types of the context: gen_array_defns and gen_struct_defns.     *)
ContextTypes ==
  {globalVars[k].typ : k \in 1..Len(globalVars)}
    \cup UNION {LET sig == funcSigs[f] IN
                  {sig.args[k].typ : k \in 1..Len(sig.args)} \cup ({sig.ret} \ {Err})
                : f \in DOMAIN funcSigs}

(* func_args: the arguments of a procedure; the k-th one is required to be *)
(* register a(k - 1).                                                      *)
ArgDecls(f) ==
  IF f \in DOMAIN funcSigs
    THEN [k \in 1..Len(funcSigs[f].args) |-> funcSigs[f].args[k].name] ELSE <<>>

(* control_blk: the functions to verify when the command line names some,  *)
(* or those of the models with a signature that are not ignored.           *)
VerifiedAll(request) ==
  IF request.verify # {} THEN request.verify ELSE request.models \ request.ignored
Verified(request) ==
  IF request.verify # {} THEN request.verify
  ELSE {f \in request.models : f \in DOMAIN funcSigs} \ request.ignored

PrintModel(request) ==
  /\ header = NotPrinted
  /\ header' = [printed  |-> TRUE,
                types    |-> ContextTypes,
                globals  |-> {<<globalVars[k].name, globalVars[k].addr>> : k \in 1..Len(globalVars)},
                args     |-> [f \in request.models |-> ArgDecls(f)],
                request  |-> request,
                verified |-> Verified(request)]
  /\ UNCHANGED vars

Stopped == header.printed /\ UNCHANGED headerVars

HeaderInit == Init /\ header = NotPrinted

Next ==
  \/ ReadNext /\ UNCHANGED header
  \/ ReadingDone /\ \E request \in Requests : PrintModel(request)
  \/ Stopped

Spec == HeaderInit /\ [][Next]_headerVars

-----------------------------------------------------------------------------
(* Some unit declares f with a return type.                                *)
ReturnsValue(f) ==
  \E u \in 1..Len(units) : \E i \in FirstLevel(u) :
    /\ units[u][i].tag = "subprogram"
    /\ units[u][i].name = f /\ units[u][i].type # None

(***************************************************************************)
(* Unless the command line names the functions to verify, those verified   *)
(* are the functions with a model that some unit declares with a return    *)
(* type and that are not ignored.  The comment of control_blk says "all    *)
(* functions with a specification": the code looks at what a function      *)
(* returns and not at its specification, so a void function is not         *)
(* verified against the one it has, and one that returns a value is        *)
(* verified without any.                                                   *)
(***************************************************************************)
VerifiesWhatReturns ==
  header.printed /\ header.request.verify = {} =>
    header.verified = {f \in header.request.models : ReturnsValue(f)} \ header.request.ignored
=============================================================================
