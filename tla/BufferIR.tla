------------------------------ MODULE BufferIR ------------------------------
(***************************************************************************)
(* Functions over memrefs as the passes between bufferization and the       *)
(* lowering to streams see them, and what two cores do that run one.        *)
(*                                                                          *)
(* A function p is a record: ops, its operations in program order, a loop   *)
(* being the operations from a "for" to its "yield"; args, the types of its *)
(* arguments; result, the memory space of what it returns; glob, the        *)
(* memref.global of each symbol; mode, the allocation scheme. A value is the number of the operation     *)
(* that defines it, or -k for argument k. A type says how many elements     *)
(* there are, in which memory space, and in which layout.                   *)
(*                                                                          *)
(* Kinds: alloc, get (memref.get_global, of symbol x), subview (of the tile  *)
(* x times the iteration), mcast and lcast (casts of memory space and        *)
(* layout), dart (a streaming region, want being the layouts of its operands *)
(* if its accelerator needs some), generic (linalg.generic), copy, for,       *)
(* yield, return, sync, dealloc.                                             *)
(***************************************************************************)
EXTENDS Integers, Sequences, FiniteSets, SequencesExt, FiniteSetsExt

CONSTANTS
  Trips,   \* bound: iterations of a loop
  Tile,    \* elements of a tile, which is what a subview selects
  L1Size   \* elements that fit in the L1 memory

ASSUME IRAssumption == Trips \in Nat \ {0} /\ Tile \in Nat \ {0} /\ L1Size \in Nat

Type(n, space, lay) == [n |-> n, space |-> space, lay |-> lay]
NoType == Type(0, "none", "none")
IsTSL(lay) == lay # "none"

At(p, o) == SelectInSeq(p.ops, LAMBDA x : x.id = o)
Op(p, o) == p.ops[At(p, o)]
TypeOf(p, v) == IF v < 0 THEN p.args[-v] ELSE Op(p, v).ty
Operands(op) == op.ins \o op.outs
Users(p, v) == {x \in ToSet(p.ops) : Contains(Operands(x), v)}
Fresh(p) == 1 + Max({0} \cup {x.id : x \in ToSet(p.ops)})

IsCast(op) == op.k \in {"mcast", "lcast"}
IsTerminator(op) == op.k \in {"return", "yield"}
IsStreaming(op) == op.k \in {"dart", "generic"}

Cast(o, k, v, ty) == [id |-> o, k |-> k, ins |-> <<v>>, outs |-> <<>>, ty |-> ty, x |-> 0, want |-> <<>>]
CopyOp(o, from, to) == [id |-> o, k |-> "copy", ins |-> <<from>>, outs |-> <<to>>, ty |-> NoType, x |-> 0, want |-> <<>>]
Effect(o, k, ins) == [id |-> o, k |-> k, ins |-> ins, outs |-> <<>>, ty |-> NoType, x |-> 0, want |-> <<>>]

InsertOpAt(p, i, op) == [p EXCEPT !.ops = InsertAt(@, i, op)]
EraseOp(p, o) == [p EXCEPT !.ops = SelectSeq(@, LAMBDA x : x.id # o)]
SetOp(p, op) == [p EXCEPT !.ops[At(p, op.id)] = op]
ReplaceUses(p, old, new) ==
  LET to(q) == [i \in DOMAIN q |-> IF q[i] = old THEN new ELSE q[i]]
  IN [p EXCEPT !.ops = [i \in DOMAIN @ |-> [@[i] EXCEPT !.ins = to(@), !.outs = to(@)]]]

ReplaceIn(p, o, old, new) ==
  LET to(q) == [i \in DOMAIN q |-> IF q[i] = old THEN new ELSE q[i]]
  IN SetOp(p, [Op(p, o) EXCEPT !.ins = to(@), !.outs = to(@)])

RECURSIVE SourceOf(_, _)
(* Where a chain of casts starts. *)
SourceOf(p, v) == IF v > 0 /\ IsCast(Op(p, v)) THEN SourceOf(p, Op(p, v).ins[1]) ELSE v

(* The position of the loop around position i, 0 outside of loops. *)
LoopAt(p, i) ==
  Max({0} \cup {j \in 1..(i - 1) : /\ p.ops[j].k = "for"
                                   /\ ~\E y \in j..(i - 1) : p.ops[y].k = "yield"})
YieldAt(p, j) == Min({y \in DOMAIN p.ops : y > j /\ p.ops[y].k = "yield"})
(* The last position of the operation at i, a loop being one operation.     *)
EndOf(p, i) == IF p.ops[i].k = "for" THEN YieldAt(p, i) ELSE i

--------------------------------------------------------------------------
(* Execution. Where element e of value v is found, in iteration it.         *)

(* Row-major layouts keep the order of the elements, the tiled layout       *)
(* "swap" reverses the two elements of each pair.                           *)
Phys(lay, e) == IF lay = "swap" THEN e + 1 - 2 * (e % 2) ELSE e

RECURSIVE Address(_, _, _, _)
Address(p, place, v, it) ==
  IF v < 0 THEN 100 * (-v)
  ELSE LET op == Op(p, v) IN
       CASE op.k = "get"     -> 1000 + 10 * op.x
         [] op.k = "subview" -> Address(p, place, op.ins[1], it)
                                  + Tile * op.x * it
         [] IsCast(op)       -> Address(p, place, op.ins[1], it)
         [] OTHER            -> place[v]
Cell(p, place, v, e, it) == Address(p, place, v, it) + Phys(TypeOf(p, v).lay, e)
Elems(p, v) == 0 .. TypeOf(p, v).n - 1

(* A kernel computes each element of its output from those of its inputs.   *)
Computed(p, place, mem, op, it, e) ==
  IF op.k = "copy" THEN mem[Cell(p, place, op.ins[1], e, it)]
  ELSE <<"f", op.id, [j \in DOMAIN op.ins |-> mem[Cell(p, place, op.ins[j], e, it)]]>>
Exec(p, place, mem, op, it) ==
  LET to == op.outs[1]
      at(e) == Cell(p, place, to, e, it)
  IN [a \in DOMAIN mem |->
        IF \E e \in Elems(p, to) : at(e) = a
        THEN Computed(p, place, mem, op, it, CHOOSE e \in Elems(p, to) : at(e) = a)
        ELSE mem[a]]

(* The memories: L1, the arguments, the globals and what is allocated in L3. *)
Addresses(p, place) ==
  LET area(a, n) == a .. a + n - 1
  IN area(0, L1Size)
       \cup UNION {area(100 * k, p.args[k].n) : k \in DOMAIN p.args}
       \cup UNION {area(1000 + 10 * g, Len(p.glob[g].data)) : g \in DOMAIN p.glob}
       \cup UNION {area(place[v], TypeOf(p, v).n) : v \in DOMAIN place}
Memory0(p, place) ==
  [a \in Addresses(p, place) |->
     IF \E g \in DOMAIN p.glob : a \in 1000 + 10 * g .. 1009 + 10 * g
     THEN p.glob[(a - 1000) \div 10].data[(a % 10) + 1]
     ELSE <<"init", a>>]

(* The two cores of the cluster: the one that has the DMA, the one with the *)
(* accelerator. What is left of linalg.generic is run by all cores.         *)
Cores == {"dm", "compute"}
RunsOn(op) ==
  CASE op.k = "copy" -> {"dm"} [] op.k = "dart" -> {"compute"} [] op.k = "generic" -> Cores
    [] OTHER -> {}

(* The next operation after position i in iteration it that does something  *)
(* on one of the cores cs, or a barrier, or the return.                     *)
RECURSIVE Advance(_, _, _, _)
Advance(p, cs, i, it) ==
  LET op == p.ops[i] IN
  CASE op.k \in {"sync", "return"} \/ RunsOn(op) \cap cs # {} -> [at |-> i, it |-> it]
    [] op.k = "for" -> Advance(p, cs, i + 1, 0)
    [] op.k = "yield" -> IF it + 1 < Trips THEN Advance(p, cs, LoopAt(p, i) + 1, it + 1)
                         ELSE Advance(p, cs, i + 1, 0)
    [] OTHER -> Advance(p, cs, i + 1, it)

(* One core that does everything. *)
RECURSIVE RunAll(_, _, _, _)
RunAll(p, place, mem, pos) ==
  LET op == p.ops[pos.at] IN
  IF op.k = "return" THEN mem
  ELSE RunAll(p, place, IF op.k = "sync" THEN mem ELSE Exec(p, place, mem, op, pos.it),
              Advance(p, Cores, pos.at + 1, pos.it))

(* What the caller sees: the arguments and what is returned. *)
Outcome(p, place, mem) ==
  LET seen == [k \in DOMAIN p.args |-> -k] \o Last(p.ops).ins
  IN [k \in DOMAIN seen |->
        [e \in Elems(p, seen[k]) |-> mem[Cell(p, place, seen[k], e, 0)]]]
=============================================================================
