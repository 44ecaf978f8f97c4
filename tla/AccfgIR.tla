------------------------------ MODULE AccfgIR ------------------------------
(***************************************************************************)
(* Programs over the accfg dialect (snaxc/dialects/accfg.py) inside scf     *)
(* control flow, and what running one does to the registers of the          *)
(* accelerators.                                                            *)
(*                                                                          *)
(* A program is a record: op maps the name of an operation to it, body maps *)
(* a block to the sequence of its operations. The blocks of operation o are *)
(* <<o, 1>> and <<o, 2>> (a loop has one, an scf.if two); the function's    *)
(* block is <<0, 1>>.                                                       *)
(*                                                                          *)
(* SSA values are tuples. States: <<"res", o, k>> is result k of o,         *)
(* <<"arg", o, k>> loop-carried argument k of loop o. Scalars: <<"c", n>>   *)
(* is a value defined outside of every loop, <<"iv", o>> the induction      *)
(* variable of loop o, <<"op", o>> the result of o. NoState stands for an    *)
(* absent operand.                                                          *)
(***************************************************************************)
EXTENDS Integers, Sequences, FiniteSets, SequencesExt

NoState == <<>>
Entry == <<0, 1>>

Res(o, k) == <<"res", o, k>>
Arg(o, k) == <<"arg", o, k>>

NoFields == [f \in {} |-> 0]
SetupOp(acc, set, in) == [k |-> "setup", acc |-> acc, set |-> set, in |-> in]
LaunchOp(acc, st) == [k |-> "launch", acc |-> acc, st |-> st]
AwaitOp(acc) == [k |-> "await", acc |-> acc]

Block(p, o) == CHOOSE b \in DOMAIN p.body : Contains(p.body[b], o)
Parent(p, o) == Block(p, o)[1]
At(p, o) == SelectInSeq(p.body[Block(p, o)], LAMBDA x : x = o)
Before(p, x, y) == Block(p, x) = Block(p, y) /\ At(p, x) < At(p, y)
OpsOfKind(p, kind) == {o \in DOMAIN p.op : p.op[o].k = kind}
YieldOf(p, b) == Last(p.body[b])

(* The states an operation reads. *)
StatesIn(op) ==
  CASE op.k = "setup"  -> {op.in} \ {NoState}
    [] op.k = "launch" -> {op.st}
    [] op.k = "for"    -> ToSet(op.init)
    [] op.k = "yield"  -> ToSet(op.vals)
    [] OTHER           -> {}
Uses(p, s) == {o \in DOMAIN p.op : s \in StatesIn(p.op[o])}

(* The scalars an operation reads. *)
ScalarsIn(op) ==
  CASE op.k = "setup" -> {op.set[f] : f \in DOMAIN op.set}
    [] op.k = "add"   -> {op.x, op.y}
    [] OTHER          -> {}

RECURSIVE Inside(_, _, _)
(* Block c is b or nested in it. *)
Inside(p, c, b) == c = b \/ (c # Entry /\ Inside(p, Block(p, c[1]), b))

NewOp(p) == CHOOSE n \in 1..(Cardinality(DOMAIN p.op) + 1) : n \notin DOMAIN p.op

(* A map that agrees with g where g is defined and with f elsewhere. *)
f ++ g == [x \in DOMAIN f \cup DOMAIN g |-> IF x \in DOMAIN g THEN g[x] ELSE f[x]]

(* op with every state replaced through the map m, where m maps it. *)
MapStates(op, m) ==
  LET to(s) == IF s \in DOMAIN m THEN m[s] ELSE s
      all(q) == [i \in DOMAIN q |-> to(q[i])]
  IN CASE op.k = "setup"  -> [op EXCEPT !.in = to(@)]
       [] op.k = "launch" -> [op EXCEPT !.st = to(@)]
       [] op.k = "for"    -> [op EXCEPT !.init = all(@)]
       [] op.k = "yield"  -> [op EXCEPT !.vals = all(@)]
       [] OTHER           -> op
MapScalars(op, m) ==
  LET to(v) == IF v \in DOMAIN m THEN m[v] ELSE v
  IN CASE op.k = "setup" -> [op EXCEPT !.set = [fl \in DOMAIN @ |-> to(@[fl])]]
       [] op.k = "add"   -> [op EXCEPT !.x = to(@), !.y = to(@)]
       [] OTHER          -> op

ReplaceUses(p, old, new) ==
  [p EXCEPT !.op = [o \in DOMAIN p.op |-> MapStates(p.op[o], old :> new)]]

Erase(p, o) ==
  [op   |-> [x \in DOMAIN p.op \ {o} |-> p.op[x]],
   body |-> [b \in DOMAIN p.body |-> Remove(p.body[b], o)]]

(* Operation op inserted under the name o at position i of block b. *)
InsertOp(p, o, op, b, i) ==
  [op   |-> p.op ++ (o :> op),
   body |-> [p.body EXCEPT ![b] = InsertAt(@, i, o)]]

--------------------------------------------------------------------------
(* Execution. A run is a record: regs, the registers of each accelerator;   *)
(* env, the values computed; iter, the iteration of the innermost loop; log *)
(* of launches with the registers they see; seen, the setups executed with   *)
(* the registers they found.                                                *)
(*                                                                          *)
(* inp decides what the program does not: inp.trips, how often each loop     *)
(* runs, and inp.cond, the iterations in which each condition holds.        *)

CONSTANTS
  Fields,  \* accelerator -> its fields, in the order of their registers
  Base     \* accelerator -> address of its first register

Unknown == -1    \* a register nobody wrote
Clobbered == -2  \* a register after a call that may have written it

RegsOf(acc) == ToSet(Fields[acc])
StartOf(acc) == Base[acc] + Len(Fields[acc])  \* launch and barrier register

Value(r, v) == IF v[1] = "c" THEN v[2] ELSE r.env[v]

(* What a write of value v to address a does in hardware. *)
CsrWrite(r, a, v) ==
  LET hit == {acc \in DOMAIN Fields : a \in Base[acc]..StartOf(acc)}
  IN IF hit = {} THEN r
     ELSE LET acc == CHOOSE x \in hit : TRUE IN
          IF a = StartOf(acc)
          THEN [r EXCEPT !.log = Append(@, <<acc, r.regs[acc]>>)]
          ELSE [r EXCEPT !.regs[acc][Fields[acc][a - Base[acc] + 1]] = v]

RECURSIVE RunFrom(_, _, _, _, _), RunLoop(_, _, _, _, _)

RunOp(p, o, r, inp) ==
  LET op == p.op[o] IN
  CASE op.k = "setup" ->
         [r EXCEPT
            !.regs[op.acc] = @ ++ [fl \in DOMAIN op.set |-> Value(r, op.set[fl])],
            !.seen = Append(@, [o |-> o, regs |-> r.regs[op.acc]])]
    [] op.k = "launch" -> [r EXCEPT !.log = Append(@, <<op.acc, r.regs[op.acc]>>)]
    [] op.k = "csrw" ->
         FoldLeft(LAMBDA s, a : CsrWrite(s, a, Value(r, op.at[a])), r,
                  SetToSortSeq(DOMAIN op.at, <))
    [] op.k = "call" ->
         [r EXCEPT !.regs = [a \in DOMAIN @ |-> [fl \in DOMAIN @[a] |-> Clobbered]]]
    [] op.k = "add" ->
         [r EXCEPT !.env = @ ++ (<<"op", o>> :> Value(r, op.x) + Value(r, op.y))]
    [] op.k = "load" ->
         [r EXCEPT !.env = @ ++ (<<"op", o>> :> 10 + r.iter)]
    [] op.k = "if" ->
         RunFrom(p, IF r.iter \in inp.cond[o] THEN <<o, 1>> ELSE <<o, 2>>, 1, r, inp)
    [] op.k = "for" -> [RunLoop(p, o, 0, r, inp) EXCEPT !.iter = r.iter]
    [] OTHER -> r

RunFrom(p, b, i, r, inp) ==
  IF i > Len(p.body[b]) THEN r
  ELSE RunFrom(p, b, i + 1, RunOp(p, p.body[b][i], r, inp), inp)

(* Loops count from 0 in steps of 1. *)
RunLoop(p, o, n, r, inp) ==
  IF n = inp.trips[o] THEN r
  ELSE RunLoop(p, o, n + 1,
         RunFrom(p, <<o, 1>>, 1,
                 [r EXCEPT !.iter = n, !.env = @ ++ (<<"iv", o>> :> n)], inp), inp)

Run(p, inp) ==
  RunFrom(p, Entry, 1,
    [regs |-> [acc \in DOMAIN Fields |-> [fl \in RegsOf(acc) |-> Unknown]],
     env |-> NoFields, iter |-> 0, log |-> <<>>, seen |-> <<>>], inp)
============================================================================
