------------------------------ MODULE PhsArray ------------------------------
(***************************************************************************)
(* The array of processing elements snaxc builds from one element and a    *)
(* template (snaxc/phs/instantiate_array.py), lowered to a module with one *)
(* port for each lane of a streamer, and what it computes in one step.     *)
(*                                                                         *)
(* A template is [ins, out, bounds, paired]: for each data operand of the  *)
(* element, and for its output, the dimensions of the array it is indexed  *)
(* by.  Indices are sequences that count from 0.  A computed value is a    *)
(* term: [in |-> ...] or [op, attr, args].                                 *)
(***************************************************************************)
EXTENDS PhsGraph

Size(shape) == FoldLeft(LAMBDA x, y : x * y, 1, shape)
Image(map, x) == [r \in DOMAIN map |-> x[map[r]]]

(* Row-major order: the last dimension fastest *)
RowMajorIndex(n, shape) ==
  [d \in DOMAIN shape |->
     (n \div Size(SubSeq(shape, d + 1, Len(shape)))) % shape[d]]
RowMajorPlace(idx, shape) ==
  FoldLeft(LAMBDA r, d : r * shape[d] + idx[d], 0, Positions(shape))

(* The order of a streamer's lanes: the first dimension fastest *)
ColMajorIndex(lane, shape) ==
  [d \in DOMAIN shape |-> (lane \div Size(SubSeq(shape, 1, d - 1))) % shape[d]]

Iterations(bounds) ==
  [n \in 1 .. Size(bounds) |-> RowMajorIndex(n - 1, bounds)]

------------------------------------------------------------------------------
(* compute_layout and resolve_input_wiring *)
InputSize(spec, i) == Image(spec.ins[i], spec.bounds)
OutputSize(spec) == Image(spec.out, spec.bounds)
Reduced(spec) == OutputSize(spec) # spec.bounds
Chained(spec, i) == spec.paired # <<>> /\ i = Len(spec.ins) /\ Reduced(spec)

(* The elements that add to one place of the output, in order *)
Group(spec, pos) ==
  SelectSeq(Iterations(spec.bounds), LAMBDA it : Image(spec.out, it) = pos)

PreviousInChain(spec, it) ==
  LET group == Group(spec, Image(spec.out, it))
      i == CHOOSE j \in DOMAIN group : group[j] = it
  IN SubSeq(group, 1, i - 1)

FromArray(i, idx) == [input |-> i, index |-> idx]
FromElement(it) == [element |-> it]

ResolveInputWiring(spec, it, i) ==
  IF ~Chained(spec, i) THEN FromArray(i, Image(spec.ins[i], it))
  ELSE LET before == PreviousInChain(spec, it) IN
       IF before = <<>> THEN FromArray(i, Image(spec.out, it))
       ELSE FromElement(Last(before))

(* The elements whose results make up the output array, in row-major order *)
ResolveOutputAssembly(spec) ==
  LET its == Iterations(spec.bounds)
      size == OutputSize(spec)
  IN IF ~Reduced(spec) THEN its
     ELSE IF size = <<>> THEN <<Last(its)>>
     ELSE [n \in 1 .. Size(size) |->
             Last(Group(spec, RowMajorIndex(n - 1, size)))]

------------------------------------------------------------------------------
(* remove-one-option-switches, and an element as hardware: a mux takes its *)
(* right side at 1, a choice indexes the array of its options; ports of    *)
(* switches are matched by position.                                       *)
(* Mutant: every switch keeps its port. *)
KeepEverySwitch(pe) == pe
RemoveOneOptionSwitches(pe) == [pe EXCEPT !.sw = TrueSwitches(pe)]

SwitchPort(pe, s, switches) ==
  LET i == CHOOSE j \in DOMAIN pe.sw : pe.sw[j] = s
  IN IF i \in DOMAIN switches THEN switches[i] ELSE 0

(* depth bounds the walk: a wrong setting may close a loop through muxes. *)
RECURSIVE ElementValue(_, _, _, _, _)
ElementValue(pe, v, data, switches, depth) ==
  CASE depth = 0 -> [in |-> <<"loop">>]
    [] "arg" \in DOMAIN v -> data[v.arg]
    [] "mux" \in DOMAIN v ->
         LET m == pe.mux[v.mux] IN
         ElementValue(pe, IF SwitchPort(pe, v.mux, switches) = 1 THEN m.rhs ELSE m.lhs,
                      data, switches, depth - 1)
    [] OTHER ->
         LET op == pe.ops[v.choose]
             opt == op.opts[IF Contains(pe.sw, op.sw)
                            THEN SwitchPort(pe, op.sw, switches) + 1 ELSE 1]
         IN [op |-> opt.name, attr |-> opt.attr,
             args |-> [p \in DOMAIN opt.at |->
               ElementValue(pe, op.args[opt.at[p]], data, switches, depth - 1)]]

ElementOut(pe, data, switches) ==
  ElementValue(pe, pe.ops[Yield].args[1], data, switches,
               2 + Cardinality(DOMAIN pe.ops) + Cardinality(DOMAIN pe.mux))

------------------------------------------------------------------------------
(* hw-scalarize-public-modules: port X_lane goes to the place its lane has *)
(* in the row-major list an array is created from; array_get counts the    *)
(* created operands from the last, which are listed in reverse.            *)
ArrayGet(lanes, shape, idx) ==
  LET lane == CHOOSE l \in 0 .. Size(shape) - 1 :
        RowMajorPlace(ColMajorIndex(l, shape), shape) = RowMajorPlace(idx, shape)
  IN lanes[lane + 1]

(* The array's outputs for the words on its input lanes: every element in  *)
(* the order of its chain, one port for each lane of the output.           *)
RECURSIVE InstanceOut(_, _, _, _, _)
InstanceOut(pe, spec, lanes, switches, it) ==
  LET Data(i) ==
        LET from == ResolveInputWiring(spec, it, i) IN
        IF "element" \in DOMAIN from
        THEN InstanceOut(pe, spec, lanes, switches, from.element)
        ELSE ArrayGet(lanes[i], InputSize(spec, i), from.index)
  IN ElementOut(pe, [i \in 1 .. pe.args |-> Data(i)], switches)

ArrayOut(pe, spec, lanes, switches) ==
  LET size == OutputSize(spec)
      made == ResolveOutputAssembly(spec)
  IN [lane \in 1 .. Size(size) |->
        InstanceOut(pe, spec, lanes, switches,
          made[RowMajorPlace(ColMajorIndex(lane - 1, size), size) + 1])]

------------------------------------------------------------------------------
(* PEArrayOp.verify_ *)
Verified(pe, array) ==
  /\ Len(array.modes) > 0
  /\ \A m \in Range(array.modes) :
       /\ Len(m.ins) <= pe.args
       /\ \A i \in DOMAIN m.ins : \A r \in DOMAIN m.ins[i] :
            m.ins[i][r] \in DOMAIN array.bounds
  /\ (pe.args - Len(pe.paired)) + Len(pe.paired) = Len(array.modes[1].ins)

(* Widths of the switches' ports, taken from the first of all switches *)
RECURSIVE BitLength(_)
BitLength(n) == IF n = 0 THEN 0 ELSE 1 + BitLength(n \div 2)
SwitchWidth(pe, s) ==
  IF s \in DOMAIN pe.mux THEN 1
  ELSE BitLength(Len(pe.ops[Chosen(pe, s)].opts) - 1)
SwitchBitwidths(pe) ==
  [i \in DOMAIN TrueSwitches(pe) |-> SwitchWidth(pe, pe.sw[i])]

(* What arrives from the registers: PhsAccelerator.scala cuts switch i to  *)
(* the width it was told.                                                  *)
AtPorts(pe, switches) ==
  [i \in DOMAIN switches |-> switches[i] % 2 ^ SwitchBitwidths(pe)[i]]
=============================================================================
