----------------------------- MODULE PhsCompiler -----------------------------
(***************************************************************************)
(* phsc (snaxc/tools/phsc_main.py): the kernels of a program that are      *)
(* tagged with an accelerator are encoded and merged into its processing   *)
(* element, unused carries are pruned, an array of elements is built for   *)
(* each accelerator and lowered to hardware, and then every kernel of the  *)
(* program, tagged or not, is dispatched to the first accelerator whose    *)
(* element it decodes on.  What hardware and registers make of the kernel  *)
(* is compared with the kernel.                                            *)
(*                                                                         *)
(* A kernel is a linalg.generic with one output: [acc, ins, body, result,  *)
(* maps, bounds], acc 0 without a tag, the map of the output last, bounds  *)
(* empty without phs_array_bounds.                                         *)
(***************************************************************************)
EXTENDS PhsArray

CONSTANTS Programs,     \* sequences of kernels
          Accelerators  \* numbers of the tags, from 1

VARIABLES
  program,
  stage,     \* "encode", "prune", "array", "dispatch", "done" or "failed"
  at,        \* the kernel the pass is at
  pes,       \* the element of each accelerator, None before its first kernel
  order,     \* accelerators as their elements stand in the module
  arrays,    \* the array of each accelerator, None when it has no bounds
  calls      \* for each kernel the accelerator and switch values, or None

vars == <<program, stage, at, pes, order, arrays, calls>>

None == [none |-> TRUE]

InputMaps(kernel) == SubSeq(kernel.maps, 1, kernel.ins)
OutputMap(kernel) == Last(kernel.maps)

Init ==
  /\ program \in Programs
  /\ stage = "encode"
  /\ at = 1
  /\ pes = [a \in Accelerators |-> None]
  /\ order = <<>>
  /\ arrays = [a \in Accelerators |-> None]
  /\ calls = [i \in DOMAIN program |-> None]

Advance(next) ==
  IF at < Len(program) THEN at' = at + 1 /\ stage' = stage
  ELSE at' = 1 /\ stage' = next

(* EncodeLinalgGeneric.  A new element goes to the start of the module. *)
EncodeKernel ==
  /\ stage = "encode"
  /\ LET kernel == program[at]
         pe == Encode(kernel)
     IN CASE kernel.acc = 0 ->
               /\ Advance("prune")
               /\ UNCHANGED <<pes, order>>
          [] kernel.acc # 0 /\ pes[kernel.acc] = None ->
               /\ Advance("prune")
               /\ pes' = [pes EXCEPT ![kernel.acc] = pe]
               /\ order' = <<kernel.acc>> \o order
          [] OTHER ->
               /\ IF Overruns(pes[kernel.acc], pe)
                  THEN stage' = "failed" /\ UNCHANGED <<at, pes>>
                  ELSE /\ Advance("prune")
                       /\ pes' = [pes EXCEPT ![kernel.acc] =
                                    AppendToAbstractGraph(@, pe)]
               /\ UNCHANGED order
  /\ UNCHANGED <<program, arrays, calls>>

PruneCarries ==
  /\ stage = "prune"
  /\ stage' = "array"
  /\ pes' = [a \in Accelerators |->
               IF pes[a] = None THEN None ELSE PruneUnusedCarries(pes[a])]
  /\ UNCHANGED <<program, at, order, arrays, calls>>

(* InstantiatePEArrays: one mode for each kernel with the tag and bounds;  *)
(* the array is wired as the first of them.  Without any there is no array *)
(* and no accelerator.                                                     *)
Modes(a) ==
  LET tagged == SelectSeq(program, LAMBDA k : k.acc = a /\ k.bounds # <<>>)
      carries == [k \in DOMAIN pes[a].paired |-> pes[a].paired[k]]
  IN [i \in DOMAIN tagged |->
        [ins |-> InputMaps(tagged[i])
                   \o [k \in DOMAIN carries |-> OutputMap(tagged[i])],
         out |-> OutputMap(tagged[i]), bounds |-> tagged[i].bounds]]

TemplateSpec(a) ==
  LET first == Modes(a)[1] IN
  [ins |-> first.ins, out |-> first.out, bounds |-> first.bounds,
   paired |-> pes[a].paired]

BuildArray(a) ==
  [spec |-> TemplateSpec(a), hw |-> RemoveOneOptionSwitches(pes[a]),
   modes |-> Modes(a), bounds |-> Modes(a)[1].bounds]

Tagged == Range(order)
Arrayed == {a \in Tagged : Modes(a) # <<>>}

InstantiateArrays ==
  /\ stage = "array"
  /\ IF \A a \in Arrayed :
          /\ \A m \in Range(Modes(a)) : m.bounds = Modes(a)[1].bounds
          /\ Verified(pes[a], BuildArray(a))
     THEN /\ stage' = "dispatch"
          /\ arrays' = [a \in Accelerators |->
                          IF a \in Arrayed THEN BuildArray(a) ELSE None]
     ELSE stage' = "failed" /\ UNCHANGED arrays
  /\ UNCHANGED <<program, at, pes, order, calls>>

(* DispatchLinalgPhsPattern, and get_switch_values when the kernel is      *)
(* lowered later, which decodes the same way.                              *)
Candidate(kernel) == PruneUnusedCarries(Encode(kernel))

DispatchKernel ==
  /\ stage = "dispatch"
  /\ LET Decoded(a) == DecodeAbstractGraph(pes[a], Candidate(program[at]))
         fit == SelectSeq(order, LAMBDA a : a \in Arrayed /\ Decoded(a).found)
     IN calls' = [calls EXCEPT ![at] =
          IF fit = <<>> THEN None
          ELSE [acc |-> Head(fit), switches |-> Decoded(Head(fit)).switches]]
  /\ Advance("done")
  /\ UNCHANGED <<program, pes, order, arrays>>

Finished == stage \in {"done", "failed"} /\ UNCHANGED vars

Next ==
  \/ EncodeKernel
  \/ PruneCarries
  \/ InstantiateArrays
  \/ DispatchKernel
  \/ Finished

Spec == Init /\ [][Next]_vars

------------------------------------------------------------------------------
(* What a kernel computes on the box of its bounds: its body once for      *)
(* every iteration, in order, the output read and written in place.        *)
Word(operand, idx) == [in |-> <<operand, idx>>]

RECURSIVE BodyValue(_, _, _)
BodyValue(kernel, v, data) ==
  CASE "arg" \in DOMAIN v -> data[v.arg]
    [] "const" \in DOMAIN v -> [op |-> "constant", attr |-> v.const, args |-> <<>>]
    [] OTHER ->
         LET op == kernel.body[v.op] IN
         [op |-> op.name, attr |-> op.attr,
          args |-> [p \in DOMAIN op.args |-> BodyValue(kernel, op.args[p], data)]]

Meaning(kernel, bounds) ==
  LET shape == Image(OutputMap(kernel), bounds)
      Data(it, old) ==
        [i \in 1 .. kernel.ins + 1 |->
           IF i > kernel.ins THEN old ELSE Word(i, Image(kernel.maps[i], it))]
      Step(out, it) ==
        LET n == RowMajorPlace(Image(OutputMap(kernel), it), shape) + 1 IN
        [out EXCEPT ![n] = BodyValue(kernel, kernel.result, Data(it, @))]
  IN FoldLeft(Step, [n \in 1 .. Size(shape) |->
                       Word(kernel.ins + 1, RowMajorIndex(n - 1, shape))],
              Iterations(bounds))

(* What the array makes of the words its streamers fetch for a kernel *)
Computed(kernel, a, switches) ==
  LET spec == arrays[a].spec
      size == OutputSize(spec)
      Lanes(i) == LET shape == InputSize(spec, i) IN
        [l \in 1 .. Size(shape) |-> Word(IF i > Len(spec.ins) - Len(spec.paired)
                                         THEN kernel.ins + 1 ELSE i,
                                         ColMajorIndex(l - 1, shape))]
      out == ArrayOut(arrays[a].hw, spec, [i \in DOMAIN spec.ins |-> Lanes(i)], switches)
  IN [n \in 1 .. Size(size) |-> ArrayGet(out, size, RowMajorIndex(n - 1, size))]

Dispatched(i) == calls[i] # None

(* The limits the code does not check: dispatch compares bodies only, by   *)
(* the names of operations; an option cannot repeat an operand; an output  *)
(* whose map permutes equal bounds is put together in iteration order.     *)
SameAccess(i) ==
  LET k == program[i] spec == arrays[calls[i].acc].spec IN
  /\ InputMaps(k) = SubSeq(spec.ins, 1, Len(spec.ins) - Len(spec.paired))
  /\ OutputMap(k) = spec.out
Unpermuted(spec) ==
  Reduced(spec) \/ \A n, m \in DOMAIN spec.out : n < m => spec.out[n] < spec.out[m]
Operations == UNION {Range(program[i].body) : i \in DOMAIN program}
ConstantsOf == UNION {UNION {Range(op.args) : op \in Range(program[i].body)} :
                        i \in DOMAIN program}
NamesDecide ==
  /\ \A o, p \in Operations : o.name = p.name => o.attr = p.attr
  /\ Cardinality({v \in ConstantsOf : "const" \in DOMAIN v}) < 2
NoneRepeats ==
  \A o \in Operations : Cardinality(Range(o.args)) = Len(o.args)

(* A kernel that is dispatched is computed: the array of merged elements,  *)
(* under the switch values the kernel was decoded to, makes of the words   *)
(* on its lanes what the kernel's own loop makes of them, whatever other   *)
(* kernels were merged in, in whatever order.                              *)
DecodedRight ==
  stage = "done" /\ NamesDecide /\ NoneRepeats =>
    \A i \in DOMAIN program :
      Dispatched(i) /\ SameAccess(i) /\ Unpermuted(arrays[calls[i].acc].spec) =>
        Computed(program[i], calls[i].acc, calls[i].switches)
          = Meaning(program[i], arrays[calls[i].acc].bounds)

(* "Propagation is exact: it accepts and rejects the same candidates as    *)
(* the search it replaces" (snaxc/phs/decode.py:278): for a candidate that *)
(* has the operands and operations of an element, walking its operands     *)
(* finds the muxes' settings exactly when some setting routes every value, *)
(* and never meets a mux with one value on both sides.                     *)
PropagationExact ==
  stage = "dispatch" =>
    \A a \in Tagged :
      LET graph == Candidate(program[at]) pe == pes[a] IN
      Decodable(pe, graph) =>
        LET walked == PropagateMapping(pe, graph) IN
        /\ walked # Ambiguous
        /\ walked.found = SearchMapping(pe, graph).found
        /\ walked.found => ValidMapping(pe, graph, walked.mapping)

(* "Bitwidth of each switch." (snaxc/hw/accelerators/phs.py:64): the       *)
(* switch values of a kernel reach the array as they are.                  *)
SwitchesArrive ==
  stage = "done" =>
    \A i \in DOMAIN program : Dispatched(i) =>
      AtPorts(pes[calls[i].acc], calls[i].switches) = calls[i].switches
=============================================================================
